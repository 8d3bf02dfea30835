-------------------------- MODULE SoulInjectorProofs --------------------------
(***************************************************************************)
(* Proofs about SoulInjector, for any set of files, jobs and images, any   *)
(* log capacity and any number of run IDs.                                 *)
(***************************************************************************)
EXTENDS SoulInjector, TLAPS

(***************************************************************************)
(* An install_file() is under way exactly while the SIDP task is inside    *)
(* commit_asset() or set_job(); and set_job() installs the staged file it  *)
(* has decoded, which nothing replaces meanwhile.                          *)
(***************************************************************************)
InstallInv ==
    /\ installing # None <=> sidp \in {"commit", "install_job"}
    /\ sidp = "install_job" =>
          /\ installing.from = StagedName
          /\ installing.to = JobName
          /\ files[StagedName] \in Job
          /\ installing.sha256 = Sha256(files[StagedName])

(* select_backend() has been called in every stage that uses a backend. *)
BackendInv ==
    prog = "stages" /\ state \notin {"LOAD_ASSET", "ERROR", "CANCELLED"} => backend \in {"swd", "esp32"}

(* From the comparison on, the target holds every image the job pins. *)
FlashInv ==
    prog = "stages" /\ state \in {"SELF_TEST", "POST_PROGRAM", "SG_CURRENT_TEST", "DONE"} =>
        \A n \in DOMAIN Image[job] : Holds(flash, n, Image[job][n])

IInv ==
    /\ TypeOK
    /\ InstallInv
    /\ BackendInv
    /\ OneOwner
    /\ NoLoadDuringRun
    /\ AdmittedRunFits
    /\ ImagesStayPinned
    /\ FlashInv
    /\ PassMeansProgrammed

-------------------------------------------------------------------------------
(***************************************************************************)
(* Types and installs.  TypeOK alone is not inductive: that the published  *)
(* job is a job rests on what set_job() is installing.                     *)
(***************************************************************************)
USE DEF logVars, flasherVars, controlVars, sidpVars, assetVars, bitVars, progVars

(* A freshly formatted device is well typed and installs nothing. *)
LEMMA InitTyped == Init => TypeOK /\ InstallInv
<1> SUFFICES ASSUME Init PROVE TypeOK /\ InstallInv
  OBVIOUS
<1>1. AssetTypeOK /\ uncollected \in 0..Capacity
  BY CapacityAssumption DEF Init, FilesInit, NoFiles, AssetTypeOK, FilesTypeOK
<1>2. FlasherTypeOK
  BY DEF Init, FlasherInit, FlasherTypeOK, NoFlash, Stage
<1>3. ControlTypeOK
  <2>1. 0 \in RunId
    BY RunIdsAssumption DEF RunId
  <2>2. NoResult \in Result
    BY <2>1 DEF NoResult, Result
  <2>. QED
    BY <2>1, <2>2 DEF Init, ControlInit, ControlTypeOK, Trigger, SidpStep
<1>4. InstallInv
  BY DEF Init, FilesInit, ControlInit, InstallInv
<1>5. write_failed \in BOOLEAN /\ run_request \in BOOLEAN /\ target_connected \in BOOLEAN
      /\ pending \in BOOLEAN
  BY DEF Init
<1>. QED
  BY <1>1, <1>2, <1>3, <1>4, <1>5 DEF Init, TypeOK, LogTypeOK, ProgStep, Stage

(* unlink() leaves a directory of the same type. *)
LEMMA UnlinkTyped ==
    ASSUME NEW f \in File, NEW g \in Unlink(files, f), FilesTypeOK
    PROVE  g \in [File -> Content \cup {None}]
  BY DEF Unlink, FilesTypeOK

(* commit_asset() begins: only /data and the SIDP task move. *)
LEMMA TypedCommit ==
    ASSUME TypeOK, InstallInv, OpAssetCommit
    PROVE  TypeOK' /\ InstallInv'
<1>0. PICK n \in Name : \E b \in Upload[n] : CommitAsset(n, Sha256(b))
  BY DEF OpAssetCommit
<1>1. PICK b \in Upload[n] : CommitAsset(n, Sha256(b))
  BY <1>0
<1>2. b \in Content /\ n \in File
  BY DeviceAssumption DEF File
<1>3. files' \in [File -> Content \cup {None}]
  BY <1>1, <1>2, UnlinkTyped DEF CommitAsset, InstallUnlink, TypeOK, AssetTypeOK
<1>4. installing' \in Install /\ installing' # None
  BY <1>1, <1>2, FilesAssumption DEF CommitAsset, InstallUnlink, Install, Hash
<1>5. UNCHANGED <<job, new_trigger, controlVars, logVars, flasherVars, bitVars, progVars>>
  BY <1>1 DEF OpAssetCommit, CommitAsset
<1>6. sidp' = "commit"
  BY <1>1 DEF CommitAsset
<1>. QED
  BY <1>3, <1>4, <1>5, <1>6
  DEF TypeOK, InstallInv, AssetTypeOK, FilesTypeOK, LogTypeOK, FlasherTypeOK, ControlTypeOK, SidpStep

(* The rename puts the hashed contents in place. *)
LEMMA RenameTyped ==
    ASSUME FilesTypeOK, InstallRename
    PROVE  files' \in [File -> Content \cup {None}] /\ installing' = None
  BY DEF FilesTypeOK, InstallRename

LEMMA TypedCommitEnd ==
    ASSUME TypeOK, InstallInv, AssetCommitEnd
    PROVE  TypeOK' /\ InstallInv'
<1>1. files' \in [File -> Content \cup {None}] /\ installing' = None
  BY RenameTyped DEF AssetCommitEnd, CommitAssetEnd, InstallFail, TypeOK, AssetTypeOK, FilesTypeOK
<1>. QED
  BY <1>1 DEF AssetCommitEnd, CommitAssetEnd, TypeOK, InstallInv, AssetTypeOK, FilesTypeOK,
      LogTypeOK, FlasherTypeOK, ControlTypeOK, SidpStep

(* set_job() begins: a no-op for the active job, else the staged job is being installed. *)
LEMMA TypedJobSet ==
    ASSUME TypeOK, InstallInv, OpJobSet
    PROVE  TypeOK' /\ InstallInv'
<1>1. PICK j \in Job, t \in Trigger : SetJob(Sha256(j), t)
  BY DEF OpJobSet
<1>2. UNCHANGED <<job, controlVars, logVars, flasherVars, bitVars, progVars>>
  BY <1>1 DEF OpJobSet, SetJob, ActivateUnlink
<1>3. sidp = "idle" /\ new_trigger' \in Trigger
  BY <1>1 DEF SetJob
<1>4. CASE UNCHANGED assetVars /\ sidp' = "save_trigger"
  BY <1>2, <1>3, <1>4
  DEF TypeOK, InstallInv, AssetTypeOK, FilesTypeOK, LogTypeOK, FlasherTypeOK, ControlTypeOK, SidpStep
<1>5. CASE ActivateUnlink(Sha256(j)) /\ sidp' = "install_job"
  <2>1. /\ Holds(files, StagedName, Sha256(j))
        /\ files[StagedName] \in Job
        /\ InstallUnlink(StagedName, JobName, Sha256(j))
    BY <1>5 DEF ActivateUnlink, StagedUsable
  <2>2. StagedName \in File /\ JobName \in File /\ StagedName # JobName /\ j \in Content
    BY JobAssumption, FilesAssumption DEF File
  <2>3. files' \in [File -> Content \cup {None}] /\ files'[StagedName] = files[StagedName]
    BY <2>1, <2>2, UnlinkTyped DEF InstallUnlink, Unlink, TypeOK, AssetTypeOK, FilesTypeOK
  <2>4. installing' \in Install /\ installing' # None
    BY <2>1, <2>2, FilesAssumption DEF InstallUnlink, Install, Hash
  <2>5. installing' = [from |-> StagedName, to |-> JobName, sha256 |-> Sha256(files[StagedName])]
    BY <2>1 DEF InstallUnlink, Holds
  <2>6. InstallInv'
    BY <1>5, <2>1, <2>3, <2>4, <2>5 DEF InstallInv
  <2>. QED
    BY <1>2, <1>3, <1>5, <2>3, <2>4, <2>6
    DEF TypeOK, AssetTypeOK, FilesTypeOK, LogTypeOK, FlasherTypeOK, ControlTypeOK, SidpStep
<1>. QED
  BY <1>1, <1>4, <1>5 DEF SetJob

(* set_job() goes on: what it publishes is the job it has decoded. *)
LEMMA TypedJobSetStep ==
    ASSUME TypeOK, InstallInv, JobSetStep
    PROVE  TypeOK' /\ InstallInv'
<1>1. CASE SetJobInstall
  <2>1. job' \in Job \cup {None}
    BY <1>1 DEF SetJobInstall, ActivateRename, ActivateFail, InstallInv, TypeOK, AssetTypeOK
  <2>2. files' \in [File -> Content \cup {None}] /\ installing' = None
    BY <1>1, RenameTyped
    DEF SetJobInstall, ActivateRename, ActivateFail, InstallFail, TypeOK, AssetTypeOK, FilesTypeOK
  <2>. QED
    BY <1>1, <2>1, <2>2
    DEF JobSetStep, SetJobInstall, TypeOK, InstallInv, AssetTypeOK, FilesTypeOK, LogTypeOK,
        FlasherTypeOK, ControlTypeOK, SidpStep, Trigger
<1>2. CASE SetJobTrigger
  BY <1>2 DEF JobSetStep, SetJobTrigger, TypeOK, InstallInv, AssetTypeOK, FilesTypeOK, LogTypeOK,
      FlasherTypeOK, ControlTypeOK, SidpStep, Trigger
<1>. QED
  BY <1>1, <1>2 DEF JobSetStep

(* start_run_locked() keeps the run ID within its width. *)
LEMMA NextRunId ==
    ASSUME NEW id \in RunId
    PROVE  (id + 1) % RunIds \in RunId
  BY RunIdsAssumption DEF RunId

(* The requests that touch no file: run, wake-up, cancel, acknowledge. *)
LEMMA TypedRequest ==
    ASSUME TypeOK, InstallInv, OpJobRunOnce \/ SetRunBit \/ OpJobCancel \/ OpLogAck
    PROVE  TypeOK' /\ InstallInv'
<1>1. CASE OpJobRunOnce
  BY <1>1, NextRunId
  DEF OpJobRunOnce, RequestRun, start_run_locked, TypeOK, InstallInv, AssetTypeOK, FilesTypeOK,
      LogTypeOK, FlasherTypeOK, ControlTypeOK, SidpStep
<1>2. CASE SetRunBit
  BY <1>2 DEF SetRunBit, TypeOK, InstallInv, AssetTypeOK, FilesTypeOK, LogTypeOK, FlasherTypeOK,
      ControlTypeOK, SidpStep
<1>3. CASE OpJobCancel
  BY <1>3 DEF OpJobCancel, Cancel, TypeOK, InstallInv, AssetTypeOK, FilesTypeOK, LogTypeOK,
      FlasherTypeOK, ControlTypeOK
<1>4. CASE OpLogAck
  BY <1>4 DEF OpLogAck, Ack, TypeOK, InstallInv, AssetTypeOK, FilesTypeOK, LogTypeOK,
      FlasherTypeOK, ControlTypeOK
<1>. QED
  BY <1>1, <1>2, <1>3, <1>4

(* The programming task between runs, and the pins. *)
LEMMA TypedIdle ==
    ASSUME TypeOK, InstallInv, WakeUp \/ OfferTarget \/ PlugTarget \/ UnplugTarget
    PROVE  TypeOK' /\ InstallInv'
<1>0. run_request' \in BOOLEAN /\ target_connected' \in BOOLEAN /\ running' \in BOOLEAN
      /\ cancel_flag' \in BOOLEAN /\ pending' \in BOOLEAN
  BY DEF WakeUp, OfferTarget, PlugTarget, UnplugTarget, start_run_locked, TypeOK, ControlTypeOK
<1>1. CASE WakeUp
  BY <1>0, <1>1 DEF WakeUp, TypeOK, InstallInv, AssetTypeOK, FilesTypeOK, LogTypeOK, FlasherTypeOK,
      ControlTypeOK, ProgStep
<1>2. CASE OfferTarget
  BY <1>0, <1>2, NextRunId
  DEF OfferTarget, start_run_locked, TypeOK, InstallInv, AssetTypeOK, FilesTypeOK, LogTypeOK,
      FlasherTypeOK, ControlTypeOK, ProgStep
<1>3. CASE PlugTarget \/ UnplugTarget
  BY <1>0, <1>3 DEF PlugTarget, UnplugTarget, TypeOK, InstallInv, AssetTypeOK, FilesTypeOK, LogTypeOK,
      FlasherTypeOK, ControlTypeOK
<1>. QED
  BY <1>1, <1>2, <1>3

(* A stage handler leaves a stage, a backend, open transports and a flash image. *)
LEMMA StageTyped ==
    ASSUME TypeOK, BackendInv, prog = "stages", NEW s, s = check_cancel(cancel_flag), handle_states(s)
    PROVE  FlasherTypeOK' /\ BackendInv'
<1>a. s = state \/ (s = "CANCELLED" /\ state \notin Finished)
  BY DEF check_cancel
<1>0. state \in Stage \cup Finished
  BY DEF TypeOK, FlasherTypeOK
<1>1. state' \in Stage \cup Finished
  BY DEF handle_states, run_state, on_load_asset, on_pre_program, on_detect, on_erase, on_program,
      on_verify, on_self_test, on_post_program, on_current_test, on_finished, AfterPostProgram,
      Stage, Finished
<1>2. failed_state' \in Stage \cup {"DONE"}
  <2>1. CASE s # state
    BY <1>a, <1>0, <2>1 DEF handle_states
  <2>2. CASE s = state /\ s \in Finished
    BY <2>2 DEF handle_states, run_state, on_finished, Stage, Finished, TypeOK, FlasherTypeOK
  <2>3. CASE s = state /\ s \notin Finished
    BY <1>a, <1>0, <2>3 DEF handle_states, TypeOK, FlasherTypeOK
  <2>. QED
    BY <2>1, <2>2, <2>3
<1>3. backend' \in {"swd", "esp32", None}
  BY FlasherAssumption
  DEF handle_states, run_state, on_load_asset, on_pre_program, on_detect, on_erase, on_program,
      on_verify, on_self_test, on_post_program, on_current_test, on_finished, has_job,
      TypeOK, AssetTypeOK, FlasherTypeOK
<1>4. connected' \subseteq {"swd", "esp32"}
  <2>1. CASE s = "DETECT"
    <3>1. backend \in {"swd", "esp32"}
      BY <1>a, <1>0, <2>1 DEF BackendInv
    <3>. QED
      BY <2>1, <3>1 DEF handle_states, run_state, on_detect, Finished, TypeOK, FlasherTypeOK
  <2>2. CASE s # "DETECT"
    <3>1. \/ UNCHANGED connected
          \/ connected' = connected \ {backend}
          \/ connected' = connected \cup ({backend} \cap {"swd"})
      BY <2>2 DEF handle_states, run_state, on_load_asset, on_pre_program, on_erase, on_program,
          on_verify, on_self_test, on_post_program, on_current_test, on_finished, release_transport
    <3>. QED
      BY <3>1 DEF TypeOK, FlasherTypeOK
  <2>. QED
    BY <2>1, <2>2
<1>5. flash' \in [Name -> Content \cup {None}]
  BY DEF handle_states, run_state, on_load_asset, on_pre_program, on_detect, on_erase, on_program,
      on_verify, on_self_test, on_post_program, on_current_test, on_finished, NoFlash, File,
      TypeOK, AssetTypeOK, FilesTypeOK, FlasherTypeOK
<1>6. BackendInv'
  <2>1. CASE s = "LOAD_ASSET"
    BY <2>1, FlasherAssumption
    DEF handle_states, run_state, on_load_asset, Finished, has_job, TypeOK, AssetTypeOK, BackendInv
  <2>2. CASE s \in Finished
    BY <1>a, <1>0, <2>2 DEF handle_states, run_state, on_finished, Finished, BackendInv
  <2>3. CASE s \notin Finished /\ s # "LOAD_ASSET"
    <3>1. s = state /\ backend \in {"swd", "esp32"}
      BY <1>a, <1>0, <2>3 DEF BackendInv, Finished
    <3>2. UNCHANGED backend
      BY <2>3 DEF handle_states, run_state, on_pre_program, on_detect, on_erase, on_program,
          on_verify, on_self_test, on_post_program, on_current_test
    <3>. QED
      BY <3>1, <3>2 DEF BackendInv
  <2>. QED
    BY <2>1, <2>2, <2>3
<1>. QED
  BY <1>1, <1>2, <1>3, <1>4, <1>5, <1>6 DEF FlasherTypeOK

(* The programming task during a run. *)
LEMMA TypedRun ==
    ASSUME TypeOK, InstallInv, BackendInv, InitRun \/ RunStage \/ FinishRun \/ RecordRun \/ ReleaseRun
    PROVE  TypeOK' /\ InstallInv'
<1>1. CASE InitRun
  BY <1>1 DEF InitRun, StartStages, release_transport, TypeOK, InstallInv, AssetTypeOK,
      FilesTypeOK, LogTypeOK, FlasherTypeOK, ControlTypeOK, ProgStep, Stage
<1>2. CASE RunStage
  <2>2. FlasherTypeOK'
    BY <1>2, StageTyped DEF RunStage
  <2>3. prog' \in ProgStep /\ ret' \in {"NOT_FINISHED", "OK", "FAIL"} /\ reached' \in Stage
    BY <1>2 DEF RunStage, TypeOK, ProgStep
  <2>. QED
    BY <1>2, <2>2, <2>3 DEF RunStage, TypeOK, InstallInv, AssetTypeOK, FilesTypeOK, LogTypeOK,
        ControlTypeOK
<1>3. CASE FinishRun
  <2>1. to_stage(failed_state) \in Stage \cup {"NONE"}
    BY DEF to_stage
  <2>2. last_result' \in Result
    BY <1>3, <2>1 DEF FinishRun, FinishResult, Result, TypeOK, ControlTypeOK
  <2>. QED
    BY <1>3, <2>2 DEF FinishRun, FinishResult, TypeOK, InstallInv, AssetTypeOK, FilesTypeOK,
        LogTypeOK, FlasherTypeOK, ControlTypeOK, ProgStep
<1>4. CASE RecordRun
  <2>1. uncollected' \in 0..Capacity
    BY <1>4, CapacityAssumption DEF RecordRun, AddRunOk, AddRunFail, can_append, TypeOK, LogTypeOK
  <2>2. write_failed' \in BOOLEAN
    BY <1>4 DEF RecordRun, AddRunOk, AddRunFail, TypeOK, LogTypeOK
  <2>. QED
    BY <1>4, <2>1, <2>2 DEF RecordRun, TypeOK, InstallInv, AssetTypeOK, FilesTypeOK, LogTypeOK,
        FlasherTypeOK, ControlTypeOK, ProgStep
<1>5. CASE ReleaseRun
  <2>1. FlasherTypeOK'
    BY <1>5 DEF ReleaseRun, NoFlash, TypeOK, FlasherTypeOK
  <2>2. ControlTypeOK'
    BY <1>5 DEF ReleaseRun, FinishRelease, TypeOK, ControlTypeOK
  <2>. QED
    BY <1>5, <2>1, <2>2 DEF ReleaseRun, TypeOK, InstallInv, AssetTypeOK, FilesTypeOK, LogTypeOK,
        ProgStep
<1>. QED
  BY <1>1, <1>2, <1>3, <1>4, <1>5

(* Power loss: what init() rebuilds is well typed and no install is under way. *)
LEMMA TypedRestart ==
    ASSUME TypeOK, InstallInv, Restart
    PROVE  TypeOK' /\ InstallInv'
<1>1. AssetTypeOK' /\ LogTypeOK'
  BY CapacityAssumption
  DEF Restart, AssetRestart, FilesRestart, NoFiles, LogRestart, TypeOK, AssetTypeOK, FilesTypeOK,
      LogTypeOK
<1>2. FlasherTypeOK'
  BY DEF Restart, NoFlash, FlasherTypeOK, Stage
<1>3. ControlTypeOK'
  <2>1. 0 \in RunId
    BY RunIdsAssumption DEF RunId
  <2>2. NoResult \in Result
    BY <2>1 DEF NoResult, Result
  <2>. QED
    BY <2>1, <2>2 DEF Restart, ControlRestart, TypeOK, ControlTypeOK, Trigger, SidpStep
<1>4. InstallInv'
  BY DEF Restart, AssetRestart, FilesRestart, ControlRestart, InstallInv
<1>. QED
  BY <1>1, <1>2, <1>3, <1>4 DEF Restart, TypeOK, ProgStep, Stage

(* Every step keeps the types, the install invariant and the choice of a backend. *)
LEMMA TypedStep ==
    TypeOK /\ InstallInv /\ BackendInv /\ [Next]_vars => TypeOK' /\ InstallInv' /\ BackendInv'
<1> SUFFICES ASSUME TypeOK, InstallInv, BackendInv, [Next]_vars
             PROVE  TypeOK' /\ InstallInv' /\ BackendInv'
  OBVIOUS
<1>1. CASE SidpRequest \/ SidpTask
  <2>1. UNCHANGED <<flasherVars, prog>>
    BY <1>1 DEF SidpRequest, SidpTask, OpAssetCommit, OpJobSet, OpJobRunOnce, OpJobCancel,
        OpLogAck, AssetCommitEnd, JobSetStep, SetRunBit
  <2>. QED
    BY <1>1, <2>1, TypedCommit, TypedCommitEnd, TypedJobSet, TypedJobSetStep, TypedRequest
    DEF SidpRequest, SidpTask, BackendInv
<1>2. CASE ProgTask
  <2>1. BackendInv'
    BY <1>2, StageTyped
    DEF ProgTask, WakeUp, OfferTarget, InitRun, StartStages, RunStage, FinishRun, RecordRun,
        ReleaseRun, BackendInv
  <2>. QED
    BY <1>2, <2>1, TypedIdle, TypedRun DEF ProgTask
<1>3. CASE Environment
  BY <1>3, TypedIdle, TypedRestart DEF Environment, PlugTarget, UnplugTarget, Restart, BackendInv
<1>4. CASE UNCHANGED vars
  BY <1>4 DEF vars, TypeOK, InstallInv, BackendInv, AssetTypeOK, FilesTypeOK, LogTypeOK,
      FlasherTypeOK, ControlTypeOK
<1>. QED
  BY <1>1, <1>2, <1>3, <1>4 DEF Next

(***************************************************************************)
(* Every variable of the firmware stays within its type, whatever the      *)
(* host, the target and the power supply do.                               *)
(***************************************************************************)
THEOREM TypeCorrect == Spec => []TypeOK
<1>1. Init => BackendInv
  BY DEF Init, FlasherInit, BackendInv
<1>2. Spec => [](TypeOK /\ InstallInv /\ BackendInv)
  BY <1>1, InitTyped, TypedStep, PTL DEF Spec
<1>. QED
  BY <1>2, PTL

-------------------------------------------------------------------------------
(***************************************************************************)
(* Ownership of a run, and what the lock keeps out of it.                  *)
(***************************************************************************)
LEMMA OwnerStep ==
    TypeOK /\ InstallInv /\ OneOwner /\ NoLoadDuringRun /\ [Next]_vars => OneOwner' /\ NoLoadDuringRun'
<1> SUFFICES ASSUME TypeOK, InstallInv, OneOwner, NoLoadDuringRun, [Next]_vars
             PROVE  OneOwner' /\ NoLoadDuringRun'
  OBVIOUS
<1> USE DEF OneOwner, NoLoadDuringRun, InRun, Unlocked
<1>1. CASE OpAssetCommit \/ AssetCommitEnd
  <2>1. ~running /\ UNCHANGED <<running, bitVars, progVars>> /\ sidp # "set_run_bit" /\ sidp' # "set_run_bit"
    BY <1>1 DEF OpAssetCommit, CommitAsset, AssetCommitEnd, CommitAssetEnd
  <2>. QED
    BY <2>1
<1>2. CASE OpJobSet \/ JobSetStep
  <2>1. ~running /\ UNCHANGED <<running, bitVars, progVars>> /\ sidp # "set_run_bit" /\ sidp' # "set_run_bit"
    BY <1>2 DEF OpJobSet, SetJob, JobSetStep, SetJobInstall, SetJobTrigger
  <2>. QED
    BY <2>1
<1>3. CASE OpJobRunOnce
  BY <1>3 DEF OpJobRunOnce, RequestRun, start_run_locked, InstallInv
<1>4. CASE SetRunBit
  BY <1>4 DEF SetRunBit
<1>5. CASE OpJobCancel \/ OpLogAck
  BY <1>5 DEF OpJobCancel, Cancel, OpLogAck
<1>6. CASE WakeUp
  BY <1>6 DEF WakeUp
<1>7. CASE OfferTarget
  BY <1>7 DEF OfferTarget, MayAutoRun, start_run_locked, InstallInv
<1>8. CASE InitRun \/ FinishRun \/ RecordRun
  BY <1>8 DEF InitRun, FinishRun, FinishResult, RecordRun
<1>9. CASE RunStage
  BY <1>9 DEF RunStage
<1>10. CASE ReleaseRun
  BY <1>10 DEF ReleaseRun, FinishRelease
<1>11. CASE PlugTarget \/ UnplugTarget
  BY <1>11 DEF PlugTarget, UnplugTarget
<1>12. CASE Restart
  BY <1>12 DEF Restart, ControlRestart
<1>13. CASE UNCHANGED vars
  BY <1>13 DEF vars
<1>. QED
  BY <1>1, <1>2, <1>3, <1>4, <1>5, <1>6, <1>7, <1>8, <1>9, <1>10, <1>11, <1>12, <1>13
  DEF Next, SidpRequest, SidpTask, ProgTask, Environment

(* While a run is claimed the log keeps room for its record: only ack() touches the log. *)
LEMMA SpaceStep ==
    TypeOK /\ OneOwner /\ AdmittedRunFits /\ [Next]_vars => AdmittedRunFits'
<1> SUFFICES ASSUME TypeOK, OneOwner, AdmittedRunFits, [Next]_vars PROVE AdmittedRunFits'
  OBVIOUS
<1> USE DEF AdmittedRunFits, check_space, can_append
<1>1. CASE OpAssetCommit \/ AssetCommitEnd \/ OpJobSet \/ JobSetStep \/ SetRunBit \/ OpJobCancel
  BY <1>1 DEF OpAssetCommit, CommitAsset, AssetCommitEnd, CommitAssetEnd, OpJobSet, SetJob,
      JobSetStep, SetJobInstall, SetJobTrigger, SetRunBit, OpJobCancel, Cancel
<1>2. CASE OpJobRunOnce
  BY <1>2 DEF OpJobRunOnce, RequestRun
<1>3. CASE OpLogAck
  <2>1. uncollected' \in Nat /\ uncollected' < uncollected /\ uncollected \in Nat
    BY <1>3, CapacityAssumption DEF OpLogAck, Ack, TypeOK, LogTypeOK
  <2>2. UNCHANGED <<write_failed, running, prog>>
    BY <1>3 DEF OpLogAck, Ack
  <2>. QED
    BY <2>1, <2>2, CapacityAssumption
<1>4. CASE WakeUp \/ InitRun \/ RunStage \/ FinishRun
  BY <1>4 DEF WakeUp, InitRun, RunStage, FinishRun, FinishResult, OneOwner, InRun
<1>5. CASE OfferTarget
  BY <1>5 DEF OfferTarget, MayAutoRun, start_run_locked
<1>6. CASE RecordRun \/ ReleaseRun
  BY <1>6 DEF RecordRun, ReleaseRun, FinishRelease
<1>7. CASE PlugTarget \/ UnplugTarget
  BY <1>7 DEF PlugTarget, UnplugTarget
<1>8. CASE Restart
  BY <1>8 DEF Restart, ControlRestart
<1>9. CASE UNCHANGED vars
  BY <1>9 DEF vars
<1>. QED
  BY <1>1, <1>2, <1>3, <1>4, <1>5, <1>6, <1>7, <1>8, <1>9
  DEF Next, SidpRequest, SidpTask, ProgTask, Environment

(* No step changes /data or the job while a run is claimed. *)
LEMMA FrozenStep ==
    TypeOK /\ InstallInv /\ NoLoadDuringRun /\ [Next]_vars /\ running /\ running' => UNCHANGED <<files, job>>
<1> SUFFICES ASSUME TypeOK, InstallInv, NoLoadDuringRun, [Next]_vars, running, running'
             PROVE  UNCHANGED <<files, job>>
  OBVIOUS
<1>1. CASE SidpRequest \/ SidpTask
  BY <1>1 DEF SidpRequest, SidpTask, OpAssetCommit, CommitAsset, AssetCommitEnd, CommitAssetEnd,
      OpJobSet, SetJob, JobSetStep, SetJobInstall, SetJobTrigger, OpJobRunOnce, RequestRun,
      SetRunBit, OpJobCancel, Cancel, OpLogAck, NoLoadDuringRun, Unlocked
<1>2. CASE ProgTask
  BY <1>2 DEF ProgTask, WakeUp, OfferTarget, InitRun, RunStage, FinishRun, RecordRun, ReleaseRun
<1>3. CASE Environment
  BY <1>3 DEF Environment, PlugTarget, UnplugTarget, Restart, ControlRestart
<1>4. CASE UNCHANGED vars
  BY <1>4 DEF vars
<1>. QED
  BY <1>1, <1>2, <1>3, <1>4 DEF Next

-------------------------------------------------------------------------------
(***************************************************************************)
(* What a run programs is what the job pins.                               *)
(***************************************************************************)

(* One stage: the load stage checks the images, the verify stage compares the target with them. *)
LEMMA PinnedStage ==
    ASSUME IInv, RunStage
    PROVE  ImagesStayPinned' /\ FlashInv' /\ PassMeansProgrammed'
<1> DEFINE s == check_cancel(cancel_flag)
<1> DEFINE programmed == \A n \in DOMAIN Image[job] : Holds(flash, n, Image[job][n])
<1>1. /\ prog = "stages"
      /\ handle_states(s)
      /\ s \in Finished => prog' = "finish" /\ ret' = (IF s = "DONE" THEN "OK" ELSE "FAIL")
      /\ s \notin Finished => prog' = prog /\ ret' = ret
      /\ UNCHANGED <<files, job>>
  BY DEF RunStage
<1>2. s = state \/ s = "CANCELLED"
  BY DEF check_cancel
<1> HIDE DEF s
<1>3. CASE s \in Finished
  <2>1. UNCHANGED flash
    BY <1>1, <1>3 DEF handle_states, run_state, on_finished, Finished
  <2>2. s = "DONE" => has_job /\ programmed
    BY <1>1, <1>2 DEF IInv, ImagesStayPinned, FlashInv
  <2>3. prog' = "finish" /\ (ret' = "OK" => s = "DONE")
    BY <1>1, <1>3
  <2>. QED
    BY <1>1, <2>1, <2>2, <2>3 DEF ImagesStayPinned, FlashInv, PassMeansProgrammed, has_job
<1>4. CASE s = "LOAD_ASSET"
  <2>0. on_load_asset
    BY <1>1, <1>4 DEF handle_states, run_state, Finished
  <2>1. state' = "ERROR" \/ (state' = "PRE_PROGRAM" /\ has_job /\ verify_job_images(job))
    BY <2>0 DEF on_load_asset
  <2>2. prog' = "stages"
    BY <1>1, <1>4 DEF Finished
  <2>. QED
    BY <1>1, <2>1, <2>2
    DEF ImagesStayPinned, FlashInv, PassMeansProgrammed, has_job, verify_job_images
<1>5. CASE s \notin Finished /\ s # "LOAD_ASSET"
  <2>1. s = state /\ has_job /\ verify_job_images(job)
    BY <1>1, <1>2, <1>5 DEF IInv, ImagesStayPinned, Finished
  <2>2. prog' = "stages"
    BY <1>1, <1>5
  <2>3. ImagesStayPinned' /\ PassMeansProgrammed'
    BY <1>1, <2>1, <2>2 DEF ImagesStayPinned, PassMeansProgrammed, has_job, verify_job_images
  <2>4. CASE s = "VERIFY"
    <3>1. \/ state' = "ERROR"
          \/ /\ \A n \in DOMAIN Image[job] : flash[n] # None /\ flash[n] = files[n]
             /\ UNCHANGED flash
      BY <1>1, <2>4 DEF handle_states, run_state, on_verify, Finished
    <3>2. state' = "ERROR" \/ (programmed /\ UNCHANGED flash)
      BY <2>1, <3>1 DEF verify_job_images, Holds
    <3>. QED
      BY <1>1, <2>3, <3>2 DEF FlashInv
  <2>5. CASE s \in {"SELF_TEST", "POST_PROGRAM", "SG_CURRENT_TEST"}
    <3>1. programmed
      BY <1>1, <2>1, <2>5 DEF IInv, FlashInv
    <3>2. UNCHANGED flash
      BY <1>1, <2>5 DEF handle_states, run_state, on_self_test, on_post_program, on_current_test,
          Finished
    <3>. QED
      BY <1>1, <2>3, <3>1, <3>2 DEF FlashInv
  <2>6. CASE s \notin {"VERIFY", "SELF_TEST", "POST_PROGRAM", "SG_CURRENT_TEST"}
    <3>1. state' \in {"DETECT", "ERASE", "PROGRAM", "VERIFY", "ERROR"}
      BY <1>1, <1>5, <2>6 DEF handle_states, run_state, on_pre_program, on_detect, on_erase, on_program
    <3>. QED
      BY <2>3, <3>1 DEF FlashInv
  <2>. QED
    BY <2>4, <2>5, <2>6
<1>. QED
  BY <1>3, <1>4, <1>5

(* Every other step leaves a run under way alone. *)
LEMMA PinnedStep == IInv /\ [Next]_vars => ImagesStayPinned' /\ FlashInv' /\ PassMeansProgrammed'
<1> SUFFICES ASSUME IInv, [Next]_vars PROVE ImagesStayPinned' /\ FlashInv' /\ PassMeansProgrammed'
  OBVIOUS
<1> USE DEF ImagesStayPinned, FlashInv, PassMeansProgrammed
<1>1. CASE RunStage
  BY <1>1, PinnedStage
<1>2. CASE InitRun
  BY <1>2 DEF InitRun, StartStages
<1>3. CASE ReleaseRun \/ Restart
  BY <1>3 DEF ReleaseRun, Restart
<1>4. CASE FinishRun \/ RecordRun
  BY <1>4 DEF FinishRun, RecordRun, IInv, has_job
<1>5. CASE ~(RunStage \/ InitRun \/ ReleaseRun \/ Restart \/ FinishRun \/ RecordRun)
  <2>1. UNCHANGED <<state, flash, ret>> /\ (prog' = prog \/ prog' \in {"init", "offer", "wait"})
    BY <1>5
    DEF Next, vars, SidpRequest, SidpTask, ProgTask, Environment, OpAssetCommit, AssetCommitEnd,
        OpJobSet, JobSetStep, OpJobRunOnce, SetRunBit, OpJobCancel, OpLogAck, WakeUp, OfferTarget,
        PlugTarget, UnplugTarget
  <2>2. CASE prog' \in {"stages", "finish", "record", "release"}
    <3>1. prog' = prog
      BY <2>1, <2>2
    <3>2. running /\ running'
      BY <2>2, <3>1, OwnerStep DEF IInv, OneOwner, InRun
    <3>3. UNCHANGED <<files, job>>
      BY <3>2, FrozenStep DEF IInv
    <3>. QED
      BY <2>1, <3>1, <3>3 DEF IInv, has_job, verify_job_images
  <2>3. CASE prog' \notin {"stages", "finish", "record", "release"}
    BY <2>3
  <2>. QED
    BY <2>2, <2>3
<1>. QED
  BY <1>1, <1>2, <1>3, <1>4, <1>5

-------------------------------------------------------------------------------
(* The inductive invariant holds in every reachable state. *)
THEOREM Invariance == Spec => []IInv
<1>1. Init => IInv
  BY InitTyped
  DEF Init, IInv, FlasherInit, ControlInit, BackendInv, OneOwner, InRun, NoLoadDuringRun,
      AdmittedRunFits, ImagesStayPinned, FlashInv, PassMeansProgrammed
<1>2. IInv /\ [Next]_vars => IInv'
  BY TypedStep, OwnerStep, SpaceStep, PinnedStep DEF IInv
<1>. QED
  BY <1>1, <1>2, PTL DEF Spec

(***************************************************************************)
(* A claimed run has exactly one owner: request_run(), the run bit and the *)
(* programming task hand it on without losing or doubling it.              *)
(***************************************************************************)
THEOREM RunOwnership == Spec => []OneOwner
<1>1. IInv => OneOwner
  BY DEF IInv
<1>. QED
  BY <1>1, Invariance, PTL

(* set_job() and commit_asset() never overlap a run. *)
THEOREM LockExcludesLoads == Spec => []NoLoadDuringRun
<1>1. IInv => NoLoadDuringRun
  BY DEF IInv
<1>. QED
  BY <1>1, Invariance, PTL

(* While a run is in progress no step changes the job or a stored file. *)
THEOREM DataFrozen == Spec => RunFreezesData
<1>1. IInv /\ [Next]_vars => [running /\ running' => UNCHANGED <<files, job>>]_vars
  BY FrozenStep DEF IInv
<1>. QED
  BY <1>1, Invariance, PTL DEF Spec, RunFreezesData

(* The log has room for the record of every admitted run until it is written. *)
THEOREM RecordFits == Spec => []AdmittedRunFits
<1>1. IInv => AdmittedRunFits
  BY DEF IInv
<1>. QED
  BY <1>1, Invariance, PTL

(* From the load stage on, the image files are the ones the active job pins. *)
THEOREM ImagesPinned == Spec => []ImagesStayPinned
<1>1. IInv => ImagesStayPinned
  BY DEF IInv
<1>. QED
  BY <1>1, Invariance, PTL

(* A run reported as passed left the pinned images on the target. *)
THEOREM PassIsProgrammed == Spec => []PassMeansProgrammed
<1>1. IInv => PassMeansProgrammed
  BY DEF IInv
<1>. QED
  BY <1>1, Invariance, PTL

-------------------------------------------------------------------------------
(***************************************************************************)
(* What a run leaves behind: its result, no open transport, and a job that *)
(* is published only with its images verified.                             *)
(***************************************************************************)

(* From finish_run() on, the result is the one of the run that is being released. *)
ResultInv == ~running \/ prog \in {"record", "release"} => last_result.run_id = last_run_id

(***************************************************************************)
(* A run that has failed or was cancelled knows its stage from that moment *)
(* on, and only a cancel request ends the stages in CANCELLED.             *)
(***************************************************************************)
FailedInv ==
    /\ prog = "stages" => state # "CANCELLED"
    /\ prog = "stages" /\ state = "ERROR" => failed_state = reached
    /\ prog = "finish" /\ ret = "OK" => state = "DONE"
    /\ prog = "finish" /\ ret # "OK" =>
          /\ failed_state = reached
          /\ \/ state = "ERROR"
             \/ state = "CANCELLED" /\ cancel_flag

(* Only the selected backend's transport is ever open, and only during the stages. *)
TransportInv ==
    /\ connected \subseteq {backend}
    /\ prog # "stages" \/ state = "LOAD_ASSET" => connected = {}

(* The images of the staged job have been hashed before job.pb is unlinked. *)
StagedInv == sidp = "install_job" => verify_job_images(files[StagedName])

(* finish_run() writes the result before it releases the run. *)
LEMMA ResultStep == IInv /\ ResultInv /\ [Next]_vars => ResultInv'
<1> SUFFICES ASSUME IInv, ResultInv, [Next]_vars PROVE ResultInv'
  OBVIOUS
<1> USE DEF ResultInv
<1>1. CASE OpJobRunOnce
  BY <1>1 DEF OpJobRunOnce, RequestRun, start_run_locked, IInv, OneOwner, InRun
<1>2. CASE OfferTarget
  BY <1>2 DEF OfferTarget, start_run_locked
<1>3. CASE FinishRun
  BY <1>3 DEF FinishRun, FinishResult
<1>4. CASE ReleaseRun
  BY <1>4 DEF ReleaseRun, FinishRelease
<1>5. CASE Restart
  BY <1>5 DEF Restart, ControlRestart, NoResult
<1>6. CASE ~(OpJobRunOnce \/ OfferTarget \/ FinishRun \/ ReleaseRun \/ Restart)
  <2>1. UNCHANGED <<running, last_result, last_run_id>>
    BY <1>6
    DEF Next, vars, SidpRequest, SidpTask, ProgTask, Environment, OpAssetCommit, CommitAsset,
        AssetCommitEnd, CommitAssetEnd, OpJobSet, SetJob, JobSetStep, SetJobInstall, SetJobTrigger,
        SetRunBit, OpJobCancel, Cancel, OpLogAck, WakeUp, InitRun, RunStage, RecordRun, PlugTarget,
        UnplugTarget
  <2>2. prog' \in {"record", "release"} => prog \in {"record", "release"}
    BY <1>6
    DEF Next, vars, SidpRequest, SidpTask, ProgTask, Environment, OpAssetCommit, AssetCommitEnd,
        OpJobSet, JobSetStep, SetRunBit, OpJobCancel, OpLogAck, WakeUp, InitRun, RunStage,
        RecordRun, PlugTarget, UnplugTarget
  <2>. QED
    BY <2>1, <2>2
<1>. QED
  BY <1>1, <1>2, <1>3, <1>4, <1>5, <1>6

(* The steps outside the stages leave the stage machine alone. *)
LEMMA FlasherStutters ==
    ASSUME [Next]_vars, ~InitRun, ~RunStage, ~ReleaseRun, ~Restart
    PROVE  UNCHANGED flasherVars
  BY DEF Next, vars, SidpRequest, SidpTask, ProgTask, Environment, OpAssetCommit, AssetCommitEnd,
      OpJobSet, JobSetStep, OpJobRunOnce, SetRunBit, OpJobCancel, OpLogAck, WakeUp, OfferTarget,
      FinishRun, RecordRun, PlugTarget, UnplugTarget

(* Only a stage leads into or out of the stages, or to finish_run(). *)
LEMMA ProgStutters ==
    ASSUME [Next]_vars, ~InitRun, ~RunStage, prog' \in {"stages", "finish"}
    PROVE  UNCHANGED progVars
  BY DEF Next, vars, SidpRequest, SidpTask, ProgTask, Environment, OpAssetCommit, AssetCommitEnd,
      OpJobSet, JobSetStep, OpJobRunOnce, SetRunBit, OpJobCancel, OpLogAck, WakeUp, OfferTarget,
      FinishRun, RecordRun, ReleaseRun, Restart, PlugTarget, UnplugTarget

(* handle_states() names the stage it leaves for ERROR, and a cancelled one. *)
LEMMA FailedStage ==
    ASSUME TypeOK, FailedInv, RunStage
    PROVE  FailedInv'
<1> DEFINE s == check_cancel(cancel_flag)
<1>1. /\ prog = "stages" /\ handle_states(s) /\ cancel_flag' = cancel_flag
      /\ reached' = IF state \in Stage THEN state ELSE reached
      /\ s \in Finished => prog' = "finish" /\ ret' = (IF s = "DONE" THEN "OK" ELSE "FAIL")
      /\ s \notin Finished => prog' = prog /\ ret' = ret
  BY DEF RunStage
<1>2. s = state \/ (s = "CANCELLED" /\ state \notin Finished /\ cancel_flag)
  BY DEF check_cancel
<1>3. state \in Stage \cup Finished
  BY DEF TypeOK, FlasherTypeOK
<1> HIDE DEF s
<1>4. CASE s # state
  <2>1. s = "CANCELLED" /\ failed_state' = state /\ state \in Stage /\ state' = "CANCELLED"
    BY <1>1, <1>2, <1>3, <1>4 DEF handle_states, run_state, on_finished
  <2>2. prog' = "finish" /\ ret' = "FAIL" /\ reached' = state /\ cancel_flag
    BY <1>1, <1>2, <1>4, <2>1 DEF Finished
  <2>. QED
    BY <1>1, <2>1, <2>2 DEF FailedInv
<1>5. CASE s = state /\ s \in Finished
  <2>1. state' = s /\ failed_state' = failed_state
    BY <1>1, <1>5 DEF handle_states, run_state, on_finished, Finished
  <2>2. reached' = reached /\ prog' = "finish" /\ ret' = (IF s = "DONE" THEN "OK" ELSE "FAIL")
    BY <1>1, <1>5 DEF Stage, Finished
  <2>3. s \in {"DONE", "ERROR"} /\ (s = "ERROR" => failed_state = reached)
    BY <1>1, <1>5 DEF FailedInv, Finished
  <2>. QED
    BY <1>5, <2>1, <2>2, <2>3 DEF FailedInv
<1>6. CASE s = state /\ s \notin Finished
  <2>1. state' # "CANCELLED"
    BY <1>1, <1>6
    DEF handle_states, run_state, on_load_asset, on_pre_program, on_detect, on_erase, on_program,
        on_verify, on_self_test, on_post_program, on_current_test, AfterPostProgram
  <2>2. state \in Stage /\ reached' = state
    BY <1>1, <1>3, <1>6
  <2>3. state' = "ERROR" => failed_state' = state
    BY <1>1, <1>6 DEF handle_states, Finished
  <2>. QED
    BY <1>1, <1>6, <2>1, <2>2, <2>3 DEF FailedInv
<1>. QED
  BY <1>4, <1>5, <1>6

(* Until its result is written nothing but the stages touches what a run will report. *)
LEMMA FailedStep == IInv /\ FailedInv /\ [Next]_vars => FailedInv'
<1> SUFFICES ASSUME IInv, FailedInv, [Next]_vars PROVE FailedInv'
  OBVIOUS
<1>1. CASE InitRun
  BY <1>1 DEF InitRun, StartStages, FailedInv
<1>2. CASE RunStage
  BY <1>2, FailedStage DEF IInv
<1>3. CASE ReleaseRun \/ Restart
  BY <1>3 DEF ReleaseRun, Restart, FailedInv
<1>4. CASE ~(InitRun \/ RunStage \/ ReleaseRun \/ Restart) /\ prog' \in {"stages", "finish"}
  <2>1. UNCHANGED <<flasherVars, progVars>>
    BY <1>4, FlasherStutters, ProgStutters
  <2>2. cancel_flag => cancel_flag'
    <3>1. ~OpJobRunOnce /\ ~OfferTarget
      BY <1>4, <2>1 DEF OpJobRunOnce, RequestRun, OfferTarget, IInv, OneOwner, InRun
    <3>. QED
      BY <1>4, <3>1
      DEF Next, vars, SidpRequest, SidpTask, ProgTask, Environment, OpAssetCommit, CommitAsset,
          AssetCommitEnd, CommitAssetEnd, OpJobSet, SetJob, JobSetStep, SetJobInstall, SetJobTrigger,
          SetRunBit, OpJobCancel, Cancel, OpLogAck, WakeUp, FinishRun, FinishResult, RecordRun,
          PlugTarget, UnplugTarget
  <2>. QED
    BY <2>1, <2>2 DEF FailedInv
<1>5. CASE prog' \notin {"stages", "finish"}
  BY <1>5 DEF FailedInv
<1>. QED
  BY <1>1, <1>2, <1>3, <1>4, <1>5

(* The result of a failed run names its stage, the result of a passed one none. *)
LEMMA NamedStep == IInv /\ FailedInv /\ FailureNamesStage /\ [Next]_vars => FailureNamesStage'
<1> SUFFICES ASSUME IInv, FailedInv, FailureNamesStage, [Next]_vars PROVE FailureNamesStage'
  OBVIOUS
<1>1. CASE FinishRun
  <2>1. last_result'.outcome = IF ret = "OK" THEN "PASS" ELSE IF cancel_flag THEN "CANCELLED" ELSE "FAIL"
    BY <1>1 DEF FinishRun, FinishResult
  <2>2. last_result'.failed_stage = IF ret = "OK" THEN "NONE" ELSE to_stage(failed_state)
    BY <1>1 DEF FinishRun, FinishResult
  <2>3. prog = "finish" /\ UNCHANGED <<state, reached, cancel_flag>>
    BY <1>1 DEF FinishRun, FinishResult
  <2>4. ret # "OK" => to_stage(failed_state) = reached
    BY <2>3 DEF FailedInv, to_stage, IInv, TypeOK
  <2>5. ret = "OK" <=> state = "DONE"
    BY <2>3 DEF FailedInv
  <2>6. state = "CANCELLED" => cancel_flag /\ ret # "OK"
    BY <2>3, <2>5 DEF FailedInv
  <2>7. ret # "OK" /\ ~cancel_flag => state = "ERROR"
    BY <2>3 DEF FailedInv
  <2>. QED
    BY <2>1, <2>2, <2>3, <2>4, <2>5, <2>6, <2>7 DEF FailureNamesStage
<1>2. CASE Restart
  BY <1>2 DEF Restart, ControlRestart, NoResult, FailureNamesStage
<1>3. CASE OpJobRunOnce
  <2>1. running' /\ prog' \notin {"record", "release"}
    BY <1>3 DEF OpJobRunOnce, RequestRun, start_run_locked, IInv, OneOwner, InRun
  <2>. QED
    BY <2>1 DEF FailureNamesStage
<1>4. CASE OfferTarget /\ running'
  BY <1>4 DEF OfferTarget, start_run_locked, FailureNamesStage, IInv, OneOwner, InRun
<1>5. CASE InitRun \/ RunStage
  <2>1. running' /\ prog' \notin {"record", "release"}
    BY <1>5 DEF InitRun, RunStage, IInv, OneOwner, InRun
  <2>. QED
    BY <2>1 DEF FailureNamesStage
<1>6. CASE RecordRun \/ ReleaseRun
  <2>1. /\ prog \in {"record", "release"} /\ UNCHANGED <<state, reached, last_result>>
        /\ running' => UNCHANGED cancel_flag
        /\ running' => running
    BY <1>6 DEF RecordRun, ReleaseRun, FinishRelease
  <2>. QED
    BY <2>1 DEF FailureNamesStage
<1>7. CASE /\ ~(FinishRun \/ Restart \/ OpJobRunOnce \/ InitRun \/ RunStage \/ RecordRun \/ ReleaseRun)
           /\ ~(OfferTarget /\ running')
  <2>1. UNCHANGED <<flasherVars, last_result, reached>>
    BY <1>7
    DEF Next, vars, SidpRequest, SidpTask, ProgTask, Environment, OpAssetCommit, CommitAsset,
        AssetCommitEnd, CommitAssetEnd, OpJobSet, SetJob, JobSetStep, SetJobInstall, SetJobTrigger,
        SetRunBit, OpJobCancel, Cancel, OpLogAck, WakeUp, OfferTarget, start_run_locked, PlugTarget,
        UnplugTarget
  <2>2. UNCHANGED running /\ (cancel_flag => cancel_flag')
    BY <1>7
    DEF Next, vars, SidpRequest, SidpTask, ProgTask, Environment, OpAssetCommit, CommitAsset,
        AssetCommitEnd, CommitAssetEnd, OpJobSet, SetJob, JobSetStep, SetJobInstall, SetJobTrigger,
        SetRunBit, OpJobCancel, Cancel, OpLogAck, WakeUp, OfferTarget, start_run_locked, PlugTarget,
        UnplugTarget
  <2>3. prog' \in {"record", "release"} => prog \in {"record", "release"}
    BY <1>7
    DEF Next, vars, SidpRequest, SidpTask, ProgTask, Environment, OpAssetCommit, AssetCommitEnd,
        OpJobSet, JobSetStep, SetRunBit, OpJobCancel, OpLogAck, WakeUp, OfferTarget, PlugTarget,
        UnplugTarget
  <2>. QED
    BY <2>1, <2>2, <2>3 DEF FailureNamesStage
<1>. QED
  BY <1>1, <1>2, <1>3, <1>4, <1>5, <1>6, <1>7

(* A backend is selected with nothing open, and every way out of the stages releases it. *)
LEMMA TransportStep == TransportInv /\ [Next]_vars => TransportInv'
<1> SUFFICES ASSUME TransportInv, [Next]_vars PROVE TransportInv'
  OBVIOUS
<1> USE DEF TransportInv
<1>1. CASE InitRun
  BY <1>1 DEF InitRun, StartStages, release_transport
<1>2. CASE RunStage
  <2> DEFINE s == check_cancel(cancel_flag)
  <2>1. /\ prog = "stages" /\ run_state(s)
        /\ s \in Finished => prog' = "finish"
        /\ s \notin Finished => prog' = prog
    BY <1>2 DEF RunStage, handle_states
  <2>2. s = state \/ s = "CANCELLED"
    BY DEF check_cancel
  <2> HIDE DEF s
  <2>3. CASE s \in Finished
    <3>1. connected' = connected \ {backend} /\ UNCHANGED backend
      BY <2>1, <2>3 DEF run_state, on_finished, release_transport, Finished
    <3>. QED
      BY <3>1
  <2>4. CASE s = "LOAD_ASSET"
    <3>1. connected' = connected /\ connected = {}
      BY <2>1, <2>2, <2>4 DEF run_state, on_load_asset, Finished
    <3>. QED
      BY <3>1
  <2>5. CASE s \notin Finished /\ s # "LOAD_ASSET"
    <3>1. UNCHANGED backend
      BY <2>1, <2>5 DEF run_state, on_pre_program, on_detect, on_erase, on_program, on_verify,
          on_self_test, on_post_program, on_current_test
    <3>2. connected' \subseteq {backend}
      BY <2>1, <2>5 DEF run_state, on_pre_program, on_detect, on_erase, on_program, on_verify,
          on_self_test, on_post_program, on_current_test, release_transport
    <3>3. state' # "LOAD_ASSET"
      BY <2>1, <2>5 DEF run_state, on_pre_program, on_detect, on_erase, on_program, on_verify,
          on_self_test, on_post_program, on_current_test, AfterPostProgram
    <3>. QED
      BY <2>1, <2>5, <3>1, <3>2, <3>3
  <2>. QED
    BY <2>3, <2>4, <2>5
<1>3. CASE ReleaseRun \/ Restart
  BY <1>3 DEF ReleaseRun, Restart
<1>4. CASE ~(InitRun \/ RunStage \/ ReleaseRun \/ Restart)
  <2>1. UNCHANGED flasherVars
    BY <1>4, FlasherStutters
  <2>2. prog' = "stages" \/ prog # "stages" 
    BY <1>4
    DEF Next, vars, SidpRequest, SidpTask, ProgTask, Environment, OpAssetCommit, AssetCommitEnd,
        OpJobSet, JobSetStep, OpJobRunOnce, SetRunBit, OpJobCancel, OpLogAck, WakeUp, OfferTarget,
        FinishRun, RecordRun, PlugTarget, UnplugTarget
  <2>. QED
    BY <2>1, <2>2
<1>. QED
  BY <1>1, <1>2, <1>3, <1>4

(* Unlinking job.pb takes none of the images the staged job pins with it. *)
LEMMA StagedStep == TypeOK /\ InstallInv /\ StagedInv /\ [Next]_vars => StagedInv'
<1> SUFFICES ASSUME TypeOK, InstallInv, StagedInv, [Next]_vars, sidp' = "install_job"
             PROVE  verify_job_images(files[StagedName])'
  BY DEF StagedInv
<1>1. CASE OpJobSet
  <2>1. PICK j \in Job, t \in Trigger : SetJob(Sha256(j), t)
    BY <1>1 DEF OpJobSet
  <2>2. ActivateUnlink(Sha256(j))
    BY <2>1 DEF SetJob
  <2>3. verify_job_images(files[StagedName]) /\ files[StagedName] \in Job /\ files' \in Unlink(files, JobName)
    BY <2>2 DEF ActivateUnlink, StagedUsable, InstallUnlink
  <2>4. \A n \in Name : files'[n] = files[n]
    BY <2>3, FilesAssumption DEF Unlink, TypeOK, AssetTypeOK, FilesTypeOK, File
  <2>. QED
    BY <2>3, <2>4, JobAssumption DEF verify_job_images, Holds
<1>2. CASE ~OpJobSet
  <2>1. sidp = "install_job" /\ UNCHANGED files
    BY <1>2
    DEF Next, vars, SidpRequest, SidpTask, ProgTask, Environment, OpAssetCommit, CommitAsset,
        AssetCommitEnd, CommitAssetEnd, JobSetStep, SetJobInstall, SetJobTrigger, OpJobRunOnce,
        RequestRun, SetRunBit, OpJobCancel, Cancel, OpLogAck, WakeUp, OfferTarget, InitRun, RunStage,
        FinishRun, RecordRun, ReleaseRun, Restart, ControlRestart, PlugTarget, UnplugTarget
  <2>. QED
    BY <2>1 DEF StagedInv, verify_job_images
<1>. QED
  BY <1>1, <1>2

(* A job is published by the rename of a verified staged file, or read back at boot. *)
LEMMA PublishStep ==
    ASSUME TypeOK, InstallInv, StagedInv, [Next]_vars, job' \notin {job, None}
    PROVE  files'[JobName] = job' /\ verify_job_images(job)'
<1>1. CASE SetJobInstall /\ ActivateRename
  <2>1. /\ installing.from = StagedName /\ installing.to = JobName
        /\ files[StagedName] \in Job /\ installing.sha256 = Sha256(files[StagedName])
        /\ verify_job_images(files[StagedName])
    BY <1>1 DEF SetJobInstall, InstallInv, StagedInv
  <2>2. PICK b \in Content :
          /\ Sha256(b) = installing.sha256
          /\ files' = [f \in File |-> IF f = installing.to THEN b
                                     ELSE IF f = installing.from THEN None ELSE files[f]]
    BY <1>1 DEF ActivateRename, InstallRename
  <2>3. b = files[StagedName] /\ job' = files[StagedName]
    BY <1>1, <2>1, <2>2 DEF Sha256, ActivateRename
  <2>4. files'[JobName] = b
    BY <2>1, <2>2 DEF File
  <2>5. \A n \in Name \ {StagedName} : files'[n] = files[n]
    BY <2>1, <2>2, FilesAssumption DEF File
  <2>. QED
    BY <2>1, <2>3, <2>4, <2>5, JobAssumption DEF verify_job_images, Holds
<1>2. CASE Restart
  BY <1>2 DEF Restart, AssetRestart, verify_job_images
<1>3. CASE ~(SetJobInstall /\ ActivateRename) /\ ~Restart
  <2>1. UNCHANGED job
    BY <1>3
    DEF Next, vars, SidpRequest, SidpTask, ProgTask, Environment, OpAssetCommit, CommitAsset,
        AssetCommitEnd, CommitAssetEnd, OpJobSet, SetJob, ActivateUnlink, JobSetStep, SetJobInstall,
        ActivateFail, SetJobTrigger, OpJobRunOnce, RequestRun, SetRunBit, OpJobCancel, Cancel,
        OpLogAck, WakeUp, OfferTarget, InitRun, RunStage, FinishRun, RecordRun, ReleaseRun,
        PlugTarget, UnplugTarget
  <2>. QED
    BY <2>1
<1>. QED
  BY <1>1, <1>2, <1>3

(* What the result, the transport and the install need besides IInv. *)
AfterInv == ResultInv /\ FailedInv /\ FailureNamesStage /\ TransportInv /\ StagedInv

LEMMA AfterInvariance == Spec => []AfterInv
<1>1. Init => AfterInv
  BY DEF Init, FlasherInit, ControlInit, NoResult, AfterInv, ResultInv, FailedInv,
      FailureNamesStage, TransportInv, StagedInv
<1>2. IInv /\ AfterInv /\ [Next]_vars => AfterInv'
  BY ResultStep, FailedStep, NamedStep, TransportStep, StagedStep DEF AfterInv, IInv
<1>. QED
  BY <1>1, <1>2, Invariance, PTL DEF Spec

(* A host that polls until the device is idle reads the result of the last run. *)
THEOREM IdleResult == Spec => []IdleShowsLastRun
<1>1. AfterInv => IdleShowsLastRun
  BY DEF AfterInv, ResultInv, IdleShowsLastRun
<1>. QED
  BY <1>1, AfterInvariance, PTL

(***************************************************************************)
(* The stage a result names is the one the run failed or was cancelled in, *)
(* a passed run names none, and the outcome is how the stages ended.       *)
(***************************************************************************)
THEOREM FailureNamed == Spec => []FailureNamesStage
<1>1. AfterInv => FailureNamesStage
  BY DEF AfterInv
<1>. QED
  BY <1>1, AfterInvariance, PTL

(* Whatever fails, no transport is open when a run starts, ends or is not under way. *)
THEOREM TransportsReleased == Spec => []NoStaleTransport
<1>1. AfterInv => NoStaleTransport
  BY DEF AfterInv, TransportInv, NoStaleTransport
<1>. QED
  BY <1>1, AfterInvariance, PTL

(* A job is published only when it is saved in job.pb and its images verify. *)
THEOREM PublishVerified == Spec => PublishedIsVerified
<1>1. IInv /\ AfterInv /\ [Next]_vars =>
        [job' \notin {job, None} => files'[JobName] = job' /\ verify_job_images(job)']_vars
  BY PublishStep DEF IInv, AfterInv
<1>. QED
  BY <1>1, Invariance, AfterInvariance, PTL DEF Spec, PublishedIsVerified

===============================================================================
