----------------------------- MODULE SoulInjector -----------------------------
(***************************************************************************)
(* The device: the SIDP service task and the programming task around       *)
(* job_controller, the target-detect edge, and power loss at any moment.   *)
(*                                                                         *)
(* The programming task (bootstrap_fsm::run_fsm_task) waits for one of two *)
(* event bits.  A run request has already been claimed under the lock; a   *)
(* connected target is offered to begin_auto_run().  Requests that are     *)
(* refused change nothing and are stuttering steps.                        *)
(***************************************************************************)
EXTENDS JobController

CONSTANT Upload   \* Upload[n]: contents the host uploads under the name n

ASSUME DeviceAssumption == Upload \in [Name -> SUBSET Content]

VARIABLES run_request,        \* BIT_RUN_REQUEST
          target_connected,   \* BIT_TARGET_CONNECTED
          pending,            \* the target that is plugged in has not had its answer
          prog,               \* where the programming task is
          ret,                \* what run_job() got from handle_states()
          reached             \* history: the stage the run is in or ended in

bitVars == <<run_request, target_connected, pending>>
progVars == <<prog, ret, reached>>
vars == <<assetVars, logVars, flasherVars, controlVars, sidpVars, bitVars, progVars>>

ProgStep == {"wait", "offer", "init", "stages", "finish", "record", "release"}

(* One type invariant: every variable of the firmware stays within its type. *)
TypeOK ==
    /\ AssetTypeOK
    /\ LogTypeOK
    /\ FlasherTypeOK
    /\ ControlTypeOK
    /\ run_request \in BOOLEAN
    /\ target_connected \in BOOLEAN
    /\ pending \in BOOLEAN
    /\ prog \in ProgStep
    /\ ret \in {"NOT_FINISHED", "OK", "FAIL"}
    /\ reached \in Stage

(* A freshly formatted device: no files, no job, an empty log. *)
Init ==
    /\ FilesInit
    /\ job = None
    /\ uncollected = 0
    /\ write_failed = FALSE
    /\ FlasherInit
    /\ ControlInit
    /\ run_request = FALSE
    /\ target_connected = FALSE
    /\ pending = FALSE
    /\ prog = "wait"
    /\ ret = "NOT_FINISHED"
    /\ reached = "LOAD_ASSET"

-------------------------------------------------------------------------------
(***************************************************************************)
(* The SIDP service task.                                                  *)
(***************************************************************************)
OpAssetCommit ==
    /\ \E n \in Name : \E b \in Upload[n] : CommitAsset(n, Sha256(b))
    /\ UNCHANGED <<logVars, flasherVars, bitVars, progVars>>

AssetCommitEnd ==
    /\ CommitAssetEnd
    /\ UNCHANGED <<logVars, flasherVars, bitVars, progVars>>

OpJobSet ==
    /\ \E j \in Job, t \in Trigger : SetJob(Sha256(j), t)
    /\ UNCHANGED <<logVars, flasherVars, bitVars, progVars>>

JobSetStep ==
    /\ SetJobInstall \/ SetJobTrigger
    /\ UNCHANGED <<logVars, flasherVars, bitVars, progVars>>

OpJobRunOnce ==
    /\ RequestRun
    /\ UNCHANGED <<logVars, flasherVars, bitVars, progVars>>

(* Mutant: the programming task is not woken. *)
SetRunBitLost ==
    /\ sidp = "set_run_bit"
    /\ sidp' = "idle"
    /\ UNCHANGED <<assetVars, logVars, flasherVars, controlVars, new_trigger,
                   bitVars, progVars>>

(* request_run() after unlock(): xEventGroupSetBits(evt_group, run_bit). *)
SetRunBit ==
    /\ sidp = "set_run_bit"
    /\ sidp' = "idle"
    /\ run_request' = TRUE
    /\ UNCHANGED <<assetVars, logVars, flasherVars, controlVars, new_trigger,
                   target_connected, pending, progVars>>

OpJobCancel ==
    /\ \E id \in RunId : Cancel(id)
    /\ UNCHANGED <<logVars, flasherVars, bitVars, progVars>>

OpLogAck ==
    /\ sidp = "idle"
    /\ Ack
    /\ UNCHANGED <<assetVars, flasherVars, controlVars, sidpVars, bitVars, progVars>>

-------------------------------------------------------------------------------
(***************************************************************************)
(* The programming task.                                                   *)
(***************************************************************************)

(***************************************************************************)
(* xEventGroupWaitBits(): either bit wakes the task and both are cleared.  *)
(* With both set the target is not offered: the requested run, which is    *)
(* about to start, programs the target that is plugged in.                 *)
(***************************************************************************)
WakeUp ==
    /\ prog = "wait"
    /\ run_request \/ target_connected
    /\ prog' = IF run_request THEN "init" ELSE "offer"
    /\ run_request' = FALSE
    /\ target_connected' = FALSE
    /\ pending' = (pending /\ ~run_request)
    /\ UNCHANGED <<assetVars, logVars, flasherVars, controlVars, sidpVars, ret, reached>>

(* begin_auto_run(); a refusal is shown and the task waits again. *)
OfferTarget ==
    /\ prog = "offer"
    /\ Unlocked
    /\ \/ /\ MayAutoRun
          /\ start_run_locked
          /\ prog' = "init"
       \/ /\ ~MayAutoRun
          /\ prog' = "wait"
          /\ UNCHANGED controlVars
    /\ pending' = target_connected   \* another target may have come meanwhile
    /\ UNCHANGED <<assetVars, logVars, flasherVars, sidpVars, run_request, target_connected,
                   ret, reached>>

(* run_job(): flasher->init(). *)
InitRun ==
    /\ prog = "init"
    /\ StartStages
    /\ prog' = "stages"
    /\ reached' = "LOAD_ASSET"
    /\ UNCHANGED <<assetVars, logVars, controlVars, sidpVars, bitVars, ret>>

(* run_job(): one turn of the loop; the cancel flag is read without the lock. *)
RunStage ==
    LET s == check_cancel(cancel_flag) IN
    /\ prog = "stages"
    /\ handle_states(s)
    /\ IF s \in Finished
       THEN prog' = "finish" /\ ret' = (IF s = "DONE" THEN "OK" ELSE "FAIL")
       ELSE UNCHANGED <<prog, ret>>
    /\ reached' = IF state \in Stage THEN state ELSE reached
    /\ UNCHANGED <<assetVars, logVars, controlVars, sidpVars, bitVars>>

FinishRun ==
    /\ prog = "finish"
    /\ FinishResult(ret)
    /\ prog' = "record"
    /\ UNCHANGED <<assetVars, logVars, flasherVars, sidpVars, bitVars, ret, reached>>

(* record_run(): outside the lock, but still marked running. *)
RecordRun ==
    /\ prog = "record"
    /\ AddRunOk \/ AddRunFail
    /\ prog' = "release"
    /\ UNCHANGED <<assetVars, flasherVars, controlVars, sidpVars, bitVars, ret, reached>>

(* Mutant: the connect event of a target that came during the run is thrown away. *)
ReleaseRunForgets ==
    /\ prog = "release"
    /\ FinishRelease
    /\ prog' = "wait"
    /\ ret' = "NOT_FINISHED"
    /\ flash' = NoFlash
    /\ target_connected' = FALSE
    /\ UNCHANGED <<assetVars, logVars, state, failed_state, backend, connected,
                   sidpVars, run_request, pending, reached>>

(* The run is over; what the programmed target holds is no longer of interest. *)
ReleaseRun ==
    /\ prog = "release"
    /\ FinishRelease
    /\ prog' = "wait"
    /\ ret' = "NOT_FINISHED"
    /\ flash' = NoFlash
    /\ UNCHANGED <<assetVars, logVars, state, failed_state, backend, connected,
                   sidpVars, bitVars, reached>>

-------------------------------------------------------------------------------
(***************************************************************************)
(* The debounced target-detect pin (update_target_detect) and power.  A    *)
(* target still waiting for its answer has to be unplugged before another  *)
(* one comes; the bit it has set may have been taken by then.  A target    *)
(* that is there at boot is plugged in by init() itself, as its last step. *)
(***************************************************************************)
PlugTarget ==
    /\ ~pending
    /\ target_connected' = TRUE
    /\ pending' = TRUE
    /\ UNCHANGED <<assetVars, logVars, flasherVars, controlVars, sidpVars,
                   run_request, progVars>>

UnplugTarget ==
    /\ pending
    /\ target_connected' = FALSE
    /\ pending' = FALSE
    /\ UNCHANGED <<assetVars, logVars, flasherVars, controlVars, sidpVars,
                   run_request, progVars>>

(***************************************************************************)
(* Power loss at any moment, and the boot that follows (bootstrap_fsm::    *)
(* init).  Only the files, the log and NVS survive, and of these none that *)
(* init() has to format.                                                   *)
(***************************************************************************)
Restart ==
    /\ AssetRestart
    /\ LogRestart
    /\ ControlRestart
    /\ state' = "DETECT"
    /\ failed_state' = "DONE"
    /\ backend' = None
    /\ connected' = {}
    /\ flash' = NoFlash
    /\ run_request' = FALSE
    /\ target_connected' = FALSE
    /\ pending' = FALSE
    /\ prog' = "wait"
    /\ ret' = "NOT_FINISHED"
    /\ reached' = "LOAD_ASSET"

SidpRequest == OpAssetCommit \/ OpJobSet \/ OpJobRunOnce \/ OpJobCancel \/ OpLogAck
SidpTask == AssetCommitEnd \/ JobSetStep \/ SetRunBit
ProgTask == WakeUp \/ OfferTarget \/ InitRun \/ RunStage \/ FinishRun \/ RecordRun \/ ReleaseRun
Environment == PlugTarget \/ UnplugTarget \/ Restart

Next == SidpRequest \/ SidpTask \/ ProgTask \/ Environment

Spec == Init /\ [][Next]_vars

(***************************************************************************)
(* FreeRTOS keeps scheduling both tasks: a call that has begun goes on,    *)
(* and a task whose event bit is set runs.  The mutex goes to the          *)
(* programming task, which has the higher priority, whenever it waits for  *)
(* it, so it is not starved by a host that keeps sending requests.         *)
(***************************************************************************)
Fairness == WF_vars(SidpTask) /\ WF_vars(ProgTask) /\ SF_vars(OfferTarget)

FairSpec == Spec /\ Fairness

-------------------------------------------------------------------------------
InRun == prog \in {"init", "stages", "finish", "record", "release"}

(***************************************************************************)
(* A run has exactly one owner from the claim to its release: the SIDP     *)
(* task about to set the run bit, the run bit, or the programming task.    *)
(* No claim is lost, none is run twice, and a plugged-in target cannot     *)
(* start a second run beside a requested one.                              *)
(***************************************************************************)
OneOwner ==
    /\ running <=> sidp = "set_run_bit" \/ run_request \/ InRun
    /\ ~(sidp = "set_run_bit" /\ run_request)
    /\ ~(sidp = "set_run_bit" /\ InRun)
    /\ ~(run_request /\ InRun)

(***************************************************************************)
(* fw_asset_manager.hpp: the programming task reads the job only while no  *)
(* load can happen.  set_job() and commit_asset() never overlap a run.     *)
(***************************************************************************)
NoLoadDuringRun == running => installing = None /\ Unlocked

(***************************************************************************)
(* storage-files.md: "While a run is in progress the device refuses to     *)
(* change the job or its files."                                           *)
(***************************************************************************)
RunFreezesData == [][running /\ running' => UNCHANGED <<files, job>>]_vars

(***************************************************************************)
(* From the load stage on, the image files are the ones the active job     *)
(* pins, through every stage of the run.                                   *)
(***************************************************************************)
ImagesStayPinned ==
    prog = "stages" /\ state \notin {"LOAD_ASSET", "ERROR", "CANCELLED"} =>
        has_job /\ verify_job_images(job)

(***************************************************************************)
(* A run reported as passed left every image the job pins, and not some    *)
(* other file of that name, on the target.                                 *)
(***************************************************************************)
PassMeansProgrammed ==
    prog \in {"finish", "record", "release"} /\ ret = "OK" =>
        has_job /\ \A n \in DOMAIN Image[job] : Holds(flash, n, Image[job][n])

(***************************************************************************)
(* prog_log.hpp: "A run is only admitted when check_space() says its       *)
(* record will fit, so a finished run can always be recorded."             *)
(***************************************************************************)
AdmittedRunFits == running /\ prog # "release" => check_space

(***************************************************************************)
(* A host that polls JOB_GET until the device is idle reads the result of  *)
(* the run it asked for, never an older one.                               *)
(***************************************************************************)
IdleShowsLastRun == ~running => last_result.run_id = last_run_id

(***************************************************************************)
(* programming-flow.md: a failed run is reported "with the stage that      *)
(* failed".  The stage a result names is the one the stage machine was in  *)
(* when it failed or was cancelled, never that of an earlier run, and a    *)
(* passed run names none; the outcome is how the stages ended.  A run that *)
(* failed and was then cancelled, before finish_run(), may read CANCELLED. *)
(***************************************************************************)
FailureNamesStage ==
    ~running \/ prog \in {"record", "release"} =>
        /\ last_result.failed_stage = IF last_result.outcome \in {"FAIL", "CANCELLED"}
                                      THEN reached ELSE "NONE"
        /\ last_result.outcome = "PASS" <=> state = "DONE"
        /\ last_result.outcome = "FAIL" => state = "ERROR"
        /\ state = "CANCELLED" => last_result.outcome = "CANCELLED"
        /\ running /\ last_result.outcome = "CANCELLED" => cancel_flag

(***************************************************************************)
(* offline_flasher::on_error(): no transport stays open between runs,      *)
(* where the next connect would short-circuit on stale state.              *)
(***************************************************************************)
NoStaleTransport ==
    prog \in {"wait", "offer", "init", "finish"} \/ state \in {"LOAD_ASSET"} => connected = {}

(***************************************************************************)
(* fw_asset_manager.hpp: a job is published only when it is the one saved  *)
(* in job.pb and every image it pins hashes to the pinned digest.          *)
(***************************************************************************)
PublishedIsVerified ==
    [][job' \notin {job, None} => files'[JobName] = job' /\ verify_job_images(job)']_vars

(* A claimed run ends (or power is lost), whatever the stages do. *)
RunEnds == running ~> ~running

(***************************************************************************)
(* Every plugged-in target gets its answer, also one that arrived during a *)
(* run and although the mutex may be held by the SIDP task again and       *)
(* again: begin_auto_run() answers the offer, or a requested run starts    *)
(* with that target, or it is unplugged or power is lost first.            *)
(***************************************************************************)
TargetServed == pending ~> ~pending

(***************************************************************************)
(* fw_asset_manager.cpp: "A published job is always the one saved in       *)
(* JOB_PATH, so this is a true no-op".  Once activate_staged() has         *)
(* returned ESP_OK, the active job is the one a restart will load.         *)
(***************************************************************************)
ActivatedIsSaved == sidp = "save_trigger" => files[JobName] = job

===============================================================================
