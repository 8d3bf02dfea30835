---------------------------- MODULE OfflineFlasher ----------------------------
(***************************************************************************)
(* offline_flasher: the stages of one programming run against one target   *)
(* backend.  Each call of handle_states() looks at the cancel flag, then   *)
(* runs the handler of the current stage.                                  *)
(*                                                                         *)
(* A handler's calls into the backend succeed or fail nondeterministically *)
(* and are described by what they leave behind: whether the transport is   *)
(* open and what the target's flash holds.  Display and LED calls are left *)
(* out.                                                                    *)
(***************************************************************************)
EXTENDS FwAssetManager

CONSTANTS Family,    \* Family[j]: the backend job j is for, "swd" or "esp32"
          ProgRig    \* CONFIG_SI_SG_PROG_RIG: the current test stage is built in

ASSUME FlasherAssumption ==
    /\ Family \in [Job -> {"swd", "esp32"}]
    /\ ProgRig \in BOOLEAN
    /\ None \notin {"swd", "esp32"}

Stage == {"LOAD_ASSET", "PRE_PROGRAM", "DETECT", "ERASE", "PROGRAM", "VERIFY",
          "SELF_TEST", "POST_PROGRAM", "SG_CURRENT_TEST"}
Finished == {"DONE", "ERROR", "CANCELLED"}

VARIABLES state,          \* pg_state
          failed_state,   \* the stage that failed or was cancelled, DONE otherwise
          backend,        \* the backend select_backend() chose last, or None
          connected,      \* the backends whose transport is open
          flash           \* the target: image name -> what is stored there, None if unknown

flasherVars == <<state, failed_state, backend, connected, flash>>

FlasherTypeOK ==
    /\ state \in Stage \cup Finished
    /\ failed_state \in Stage \cup {"DONE"}
    /\ backend \in {"swd", "esp32", None}
    /\ connected \subseteq {"swd", "esp32"}
    /\ flash \in [Name -> Content \cup {None}]

NoFlash == [n \in Name |-> None]

FlasherInit ==
    /\ state = "DETECT"
    /\ failed_state = "DONE"
    /\ backend = None
    /\ connected = {}
    /\ flash = NoFlash

(* backend->release_transport(), when a backend has been selected. *)
release_transport == connected' = connected \ {backend}

(* init(): start a run from the first stage. *)
StartStages ==
    /\ release_transport
    /\ state' = "LOAD_ASSET"
    /\ failed_state' = "DONE"
    /\ UNCHANGED <<backend, flash>>

(***************************************************************************)
(* The stage handlers.  Each one moves to the next stage or to ERROR.      *)
(***************************************************************************)

(* Mutant: the images are not hashed again at the start of the run. *)
on_load_asset_trusting ==
    /\ \/ /\ has_job
          /\ backend' = Family[job]
          /\ state' = "PRE_PROGRAM"
       \/ /\ state' = "ERROR"
          /\ UNCHANGED backend
    /\ UNCHANGED <<connected, flash>>

on_load_asset ==
    /\ \/ /\ has_job
          /\ verify_job_images(job)
          /\ backend' = Family[job]
          /\ state' = "PRE_PROGRAM"
       \/ /\ state' = "ERROR"   \* no job, an image differs, or a file cannot be read
          /\ UNCHANGED backend
    /\ UNCHANGED <<connected, flash>>

(***************************************************************************)
(* begin_session() takes the SWD pins; on an ESP32 it only drives the      *)
(* reset and boot pins and leaves opening the UART to detect().            *)
(***************************************************************************)
on_pre_program ==
    /\ state' \in {"DETECT", "ERROR"}
    /\ connected' = connected \cup ({backend} \cap {"swd"})
    /\ UNCHANGED <<backend, flash>>

(***************************************************************************)
(* detect() is tried up to eleven times.  A failed ESP32 connect closes    *)
(* the port again; the SWD pins stay taken.                                *)
(***************************************************************************)
on_detect ==
    /\ \/ state' = "ERASE" /\ connected' = connected \cup {backend}
       \/ state' = "ERROR" /\ connected' = connected \cup ({backend} \cap {"swd"})
    /\ flash' = NoFlash
    /\ UNCHANGED backend

(* The ESP32 loader erases while it programs: its erase() does nothing and cannot fail. *)
on_erase ==
    /\ \/ state' = "PROGRAM"
       \/ backend = "swd" /\ state' = "ERROR"
    /\ flash' = IF backend = "swd" THEN NoFlash ELSE flash
    /\ UNCHANGED <<backend, connected>>

(* program() may report success although the flash did not take every byte. *)
on_program ==
    /\ \/ /\ state' = "VERIFY"
          /\ \E good \in SUBSET DOMAIN Image[job] :
                flash' = [n \in Name |-> IF n \in good THEN files[n] ELSE None]
       \/ /\ state' = "ERROR"
          /\ flash' = NoFlash
    /\ UNCHANGED <<backend, connected>>

(* Mutant: a mismatch is logged but not reported. *)
on_verify_lenient ==
    /\ state' \in {"SELF_TEST", "ERROR"}
    /\ UNCHANGED <<backend, connected, flash>>

(* verify() reads the target back and compares it with the image files. *)
on_verify ==
    /\ \/ /\ \A n \in DOMAIN Image[job] : flash[n] # None /\ flash[n] = files[n]
          /\ state' = "SELF_TEST"
       \/ state' = "ERROR"
    /\ UNCHANGED <<backend, connected, flash>>

(* An ESP32 has no self tests: they are skipped, never failed. *)
on_self_test ==
    /\ \/ state' = "POST_PROGRAM"
       \/ backend = "swd" /\ state' = "ERROR"
    /\ UNCHANGED <<backend, connected, flash>>

AfterPostProgram == IF ProgRig THEN "SG_CURRENT_TEST" ELSE "DONE"

on_post_program ==
    /\ \/ state' = AfterPostProgram /\ release_transport
       \/ state' = "ERROR" /\ connected' = connected \cup ({backend} \cap {"swd"})
    /\ UNCHANGED <<backend, flash>>

on_current_test ==
    /\ state' \in {"DONE", "ERROR"}
    /\ release_transport
    /\ UNCHANGED <<backend, flash>>

(* Mutant: on_error() returns without releasing the transport. *)
on_finished_leaking(s) ==
    /\ state' = s
    /\ IF s = "ERROR" THEN UNCHANGED connected ELSE release_transport
    /\ UNCHANGED <<backend, flash>>

(* on_done(), on_error(), on_cancelled(): the terminal handlers. *)
on_finished(s) ==
    /\ state' = s
    /\ release_transport
    /\ UNCHANGED <<backend, flash>>

(* run_state(): dispatch on the stage s. *)
run_state(s) ==
    \/ s = "LOAD_ASSET" /\ on_load_asset
    \/ s = "PRE_PROGRAM" /\ on_pre_program
    \/ s = "DETECT" /\ on_detect
    \/ s = "ERASE" /\ on_erase
    \/ s = "PROGRAM" /\ on_program
    \/ s = "VERIFY" /\ on_verify
    \/ s = "SELF_TEST" /\ on_self_test
    \/ s = "POST_PROGRAM" /\ on_post_program
    \/ s = "SG_CURRENT_TEST" /\ on_current_test
    \/ s \in Finished /\ on_finished(s)

(* check_cancel(): the stage handle_states() runs. *)
check_cancel(cancel_requested) ==
    IF cancel_requested /\ state \notin Finished THEN "CANCELLED" ELSE state

(* Mutant: the last stage that succeeded is remembered, not the one that failed. *)
handle_states_late(s) ==
    /\ run_state(s)
    /\ failed_state' = IF s # state THEN state
                       ELSE IF state' \in Stage THEN s
                       ELSE failed_state

(* handle_states(): s is the stage check_cancel() left. *)
handle_states(s) ==
    /\ run_state(s)
    /\ failed_state' = IF s # state THEN state
                       ELSE IF state' = "ERROR" /\ s # "ERROR" THEN s
                       ELSE failed_state

===============================================================================
