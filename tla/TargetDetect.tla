----------------------------- MODULE TargetDetect -----------------------------
(***************************************************************************)
(* bootstrap_fsm's input pins.  A level interrupt masks the pins and       *)
(* starts a debounce timer; the timer's handler samples the pins, sets or  *)
(* clears BIT_TARGET_CONNECTED, takes or gives back the light-sleep lock   *)
(* of USB power, and waits for the opposite level.  All of this runs while *)
(* bootstrap_fsm::init() is still booting.                                 *)
(*                                                                         *)
(* The ISR, the timer task, the main task in init() and the programming    *)
(* task interleave at every access to what they share.                     *)
(***************************************************************************)
EXTENDS Naturals

CONSTANT HasPlugPin   \* PLUG_DET_PIN != GPIO_NUM_NC

ASSUME PlugPinAssumption == HasPlugPin \in BOOLEAN

Pin == {"DET"} \cup (IF HasPlugPin THEN {"USB"} ELSE {})
Level == {0, 1}   \* DET is 0 while a target is plugged in, USB is 1 on USB power

VARIABLES level,      \* gpio_get_level() of each pin
          seen,       \* last_det_state and usb_powered
          armed,      \* the level each pin interrupts at; none while it is masked
          timer,      \* io_debounce_timer is running
          handler,    \* where the timer task is inside io_debounce_handler()
          usb_lock,   \* acquisitions of usb_pm_lock
          boot,       \* where bootstrap_fsm::init() is
          bit,        \* BIT_TARGET_CONNECTED
          fsm,        \* the programming task: not created, waiting, or given a target
          offered     \* history: the target now plugged in has been offered

pinVars == <<level, seen, armed, timer, handler, usb_lock>>
taskVars == <<boot, bit, fsm, offered>>
vars == <<pinVars, taskVars>>

(* One type invariant: pins, tasks and the lock count stay within their types. *)
DetectTypeOK ==
    /\ level \in [Pin -> Level]
    /\ seen \in [Pin -> Level]
    /\ armed \in [Pin -> SUBSET Level]
    /\ timer \in BOOLEAN
    /\ handler \in {"idle", "det", "bit", "arm", "usb"}
    /\ usb_lock \in 0..1
    /\ boot \in {"pins", "usb", "init", "check", "set_bit", "done"}
    /\ bit \in BOOLEAN
    /\ fsm \in {"none", "wait", "offer"}
    /\ offered \in BOOLEAN

(* Power on, after setup_pm_locks(): the lock is held for good without a plug-detect pin. *)
Init ==
    /\ level \in [Pin -> Level]
    /\ seen = [p \in Pin |-> 0]
    /\ armed = [p \in Pin |-> {}]
    /\ timer = FALSE
    /\ handler = "idle"
    /\ usb_lock = IF HasPlugPin THEN 0 ELSE 1
    /\ boot = "pins"
    /\ bit = FALSE
    /\ fsm = "none"
    /\ offered = FALSE

-------------------------------------------------------------------------------
(***************************************************************************)
(* The interrupt, the debounce timer and its handler.                      *)
(***************************************************************************)

(* io_isr_handler(): mask every pin until the handler arms it again. *)
io_isr_handler(p) ==
    /\ level[p] \in armed[p]
    /\ armed' = [q \in Pin |-> {}]
    /\ timer' = TRUE
    /\ UNCHANGED <<level, seen, handler, usb_lock, taskVars>>

(* io_debounce_handler() begins, 50 ms after the last interrupt. *)
Debounced ==
    /\ timer
    /\ handler = "idle"
    /\ timer' = FALSE
    /\ handler' = "det"
    /\ UNCHANGED <<level, seen, armed, usb_lock, taskVars>>

(* arm_io_pin(p, l): what armed becomes; only the opposite of l interrupts. *)
arm_io_pin(p, l) == [armed EXCEPT ![p] = {1 - l}]

(* update_target_detect(): sample the pin and remember an edge. *)
SampleTarget ==
    /\ handler = "det"
    /\ seen' = [seen EXCEPT !["DET"] = level["DET"]]
    /\ handler' = IF level["DET"] # seen["DET"] THEN "bit" ELSE "arm"
    /\ offered' = (offered /\ level["DET"] = seen["DET"])
    /\ UNCHANGED <<level, armed, timer, usb_lock, boot, bit, fsm>>

(* update_target_detect(): set the bit on a connect edge, clear it on a disconnect. *)
ReportTarget ==
    /\ handler = "bit"
    /\ bit' = (seen["DET"] = 0)
    /\ handler' = "arm"
    /\ UNCHANGED <<level, seen, armed, timer, usb_lock, boot, fsm, offered>>

(* Mutant: the pin is armed for the level it already has been seen at. *)
ArmTargetSame ==
    /\ handler = "arm"
    /\ armed' = arm_io_pin("DET", 1 - seen["DET"])
    /\ handler' = IF HasPlugPin THEN "usb" ELSE "idle"
    /\ UNCHANGED <<level, seen, timer, usb_lock, taskVars>>

ArmTarget ==
    /\ handler = "arm"
    /\ armed' = arm_io_pin("DET", seen["DET"])
    /\ handler' = IF HasPlugPin THEN "usb" ELSE "idle"
    /\ UNCHANGED <<level, seen, timer, usb_lock, taskVars>>

(* Mutant: every debounce acquires or releases the lock, edge or not. *)
usb_lock_every_time(powered) ==
    IF powered = 1 THEN usb_lock + 1 ELSE IF usb_lock = 0 THEN 0 ELSE usb_lock - 1

(* update_usb_power(): the lock count once the pin has been sampled. *)
usb_lock_after(powered) ==
    IF powered = seen["USB"] THEN usb_lock
    ELSE IF powered = 1 THEN usb_lock + 1 ELSE usb_lock - 1

(* Mutant: the plug-detect pin is armed on an edge only. *)
update_usb_power_edge ==
    /\ seen' = [seen EXCEPT !["USB"] = level["USB"]]
    /\ usb_lock' = usb_lock_after(level["USB"])
    /\ armed' = IF level["USB"] # seen["USB"] THEN arm_io_pin("USB", level["USB"]) ELSE armed

(* update_usb_power(): sample the pin, follow an edge with the lock, arm the pin. *)
update_usb_power ==
    /\ seen' = [seen EXCEPT !["USB"] = level["USB"]]
    /\ usb_lock' = usb_lock_after(level["USB"])
    /\ armed' = arm_io_pin("USB", level["USB"])

(* io_debounce_handler() ends with the other pin. *)
UpdateUsbPower ==
    /\ handler = "usb"
    /\ update_usb_power
    /\ handler' = "idle"
    /\ UNCHANGED <<level, timer, taskVars>>

-------------------------------------------------------------------------------
(***************************************************************************)
(* bootstrap_fsm::init() in the main task.                                 *)
(***************************************************************************)

(* setup_io_pins(): sample and arm the target pin, which may interrupt from here on. *)
SetupPins ==
    /\ boot = "pins"
    /\ seen' = [seen EXCEPT !["DET"] = level["DET"]]
    /\ armed' = arm_io_pin("DET", level["DET"])
    /\ boot' = IF HasPlugPin THEN "usb" ELSE "init"
    /\ UNCHANGED <<level, timer, handler, usb_lock, bit, fsm, offered>>

(***************************************************************************)
(* setup_io_pins() goes on with the plug-detect pin.  The main task calls  *)
(* update_usb_power() here while the interrupt of the target pin may       *)
(* already have started the timer, whose handler calls it as well; within  *)
(* the 50 ms of the debounce one call is over before the other begins.     *)
(***************************************************************************)
SetupUsb ==
    /\ boot = "usb"
    /\ update_usb_power
    /\ boot' = "init"
    /\ UNCHANGED <<level, timer, handler, bit, fsm, offered>>

(* Storage, log, job and USB are set up; then the programming task is created. *)
CreateTask ==
    /\ boot = "init"
    /\ boot' = "check"
    /\ fsm' = "wait"
    /\ UNCHANGED <<pinVars, bit, offered>>

(* "Now set the initial detection state": read last_det_state ... *)
CheckTarget ==
    /\ boot = "check"
    /\ boot' = IF seen["DET"] = 0 THEN "set_bit" ELSE "done"
    /\ UNCHANGED <<pinVars, bit, fsm, offered>>

(* ... and set the bit if a target was there. *)
SetBootBit ==
    /\ boot = "set_bit"
    /\ boot' = "done"
    /\ bit' = TRUE
    /\ UNCHANGED <<pinVars, fsm, offered>>

-------------------------------------------------------------------------------
(***************************************************************************)
(* The programming task and the pins themselves.                           *)
(***************************************************************************)
WakeUp ==
    /\ fsm = "wait"
    /\ bit
    /\ bit' = FALSE
    /\ fsm' = "offer"
    /\ offered' = TRUE
    /\ UNCHANGED <<pinVars, boot>>

(* The offer is refused, or the run it started is over. *)
OfferDone ==
    /\ fsm = "offer"
    /\ fsm' = "wait"
    /\ UNCHANGED <<pinVars, boot, bit, offered>>

PinChanges(p) ==
    /\ level' = [level EXCEPT ![p] = 1 - @]
    /\ UNCHANGED <<seen, armed, timer, handler, usb_lock, taskVars>>

Interrupt == \E p \in Pin : io_isr_handler(p)
TimerTask == Debounced \/ SampleTarget \/ ReportTarget \/ ArmTarget \/ UpdateUsbPower
MainTask == SetupPins \/ SetupUsb \/ CreateTask \/ CheckTarget \/ SetBootBit
ProgTask == WakeUp \/ OfferDone

Next == Interrupt \/ TimerTask \/ MainTask \/ ProgTask \/ \E p \in Pin : PinChanges(p)

Spec == Init /\ [][Next]_vars

(* Interrupts are taken and every task is scheduled; the pins do what they like. *)
FairSpec ==
    /\ Spec
    /\ WF_vars(Interrupt)
    /\ WF_vars(TimerTask)
    /\ WF_vars(MainTask)
    /\ WF_vars(ProgTask)

-------------------------------------------------------------------------------
(***************************************************************************)
(* Masking both pins in the ISR never leaves one of them deaf: with no     *)
(* debounce under way, each pin setup_io_pins() has come to waits for the  *)
(* level it was not seen at.                                               *)
(***************************************************************************)
NeverDeaf ==
    ~timer /\ handler = "idle" =>
        /\ boot # "pins" => armed["DET"] = {1 - seen["DET"]}
        /\ boot \notin {"pins", "usb"} => \A p \in Pin : armed[p] = {1 - seen[p]}

(***************************************************************************)
(* usb_pm_lock is taken once on USB power and not at all on battery,       *)
(* whatever the contact bounces: light sleep is neither lost for good nor  *)
(* allowed while USB is in use.                                            *)
(***************************************************************************)
UsbLockFollowsPower == HasPlugPin => usb_lock = seen["USB"]

(***************************************************************************)
(* A target that is plugged in and stays is offered to begin_auto_run(),   *)
(* also one that arrives while the device boots; and a pin that settles is *)
(* seen at its level.                                                      *)
(***************************************************************************)
StayingTargetOffered ==
    /\ <>[](level["DET"] = 0) => <>[]offered
    /\ \A p \in Pin, l \in Level : <>[](level[p] = l) => <>[](seen[p] = l)

(***************************************************************************)
(* update_target_detect(): "A connect edge not yet picked up must not      *)
(* start a run later."  After a disconnect the bit is not set.             *)
(***************************************************************************)
DisconnectForgets == bit => seen["DET"] = 0 \/ handler = "bit"

===============================================================================
