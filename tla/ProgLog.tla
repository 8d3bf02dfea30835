-------------------------------- MODULE ProgLog -------------------------------
(***************************************************************************)
(* prog_log: the production log.  on9rstore is not part of the repository; *)
(* it is modelled from its use: it never overwrites an entry the host has  *)
(* not acknowledged, so what counts is how many entries are uncollected.   *)
(* Reading the log and setting the clock (which adds a time anchor, not an *)
(* entry) leave that number alone: they are in LogCollect, which keeps the *)
(* entries themselves and implements LogSpec.                              *)
(***************************************************************************)
EXTENDS Naturals

CONSTANT Capacity   \* entries the log partition holds

ASSUME CapacityAssumption == Capacity \in Nat

VARIABLES uncollected,    \* entries after get_acked_entry_id()
          write_failed    \* a record could not be written: no run until a restart

logVars == <<uncollected, write_failed>>

LogTypeOK ==
    /\ uncollected \in 0..Capacity
    /\ write_failed \in BOOLEAN

(* on9rstore::can_append(): with protect_unacked, only collected entries make room. *)
can_append == uncollected < Capacity

(* check_space() = ESP_OK *)
check_space == ~write_failed /\ can_append

(* add_run(): the record is appended and synced. *)
AddRunOk ==
    /\ can_append
    /\ uncollected' = uncollected + 1
    /\ UNCHANGED write_failed

(* add_run(): the store refuses the record, or the write fails and may have left an entry. *)
AddRunFail ==
    /\ uncollected' \in {uncollected, uncollected + 1} \cap 0..Capacity
    /\ write_failed' = TRUE

(* ack(up_to_id): any number of the oldest uncollected entries. *)
Ack ==
    /\ \E kept \in 0..Capacity : kept < uncollected /\ uncollected' = kept
    /\ UNCHANGED write_failed

(***************************************************************************)
(* init() after a restart: the store recovers and adds a boot record when  *)
(* there is room for one.  A partition that does not mount is formatted    *)
(* (format_if_mount_failed), uncollected entries included.                 *)
(***************************************************************************)
LogRestart ==
    /\ uncollected' \in {uncollected, uncollected + 1, 0, 1} \cap 0..Capacity
    /\ write_failed' = FALSE

(* The first boot: the store is empty but for the boot record. *)
LogInit == uncollected \in {0, 1} \cap 0..Capacity /\ write_failed = FALSE
LogNext == AddRunOk \/ AddRunFail \/ Ack \/ LogRestart
LogSpec == LogInit /\ [][LogNext]_logVars

===============================================================================
