-------------------------- MODULE TargetDetectProofs --------------------------
(***************************************************************************)
(* Proofs about TargetDetect, with and without the plug-detect pin: the    *)
(* interrupt, the timer task and the booting main task leave no pin deaf   *)
(* and take the light-sleep lock exactly on USB power.                     *)
(***************************************************************************)
EXTENDS TargetDetect, TLAPS

(* Until setup_io_pins() nothing can interrupt, and only a board with the second pin sets it up. *)
BootInv ==
    /\ boot = "pins" => ~timer /\ handler = "idle" /\ armed = [p \in Pin |-> {}]
    /\ boot = "usb" => HasPlugPin

(* Between the two pins the handler has armed the first, unless it has interrupted again. *)
ArmInv == handler = "usb" => HasPlugPin /\ (timer \/ armed["DET"] = {1 - seen["DET"]})

(* Without a plug-detect pin the lock taken by setup_pm_locks() is kept. *)
LockInv == ~HasPlugPin => usb_lock = 1

IInv ==
    /\ DetectTypeOK
    /\ BootInv
    /\ ArmInv
    /\ LockInv
    /\ NeverDeaf
    /\ UsbLockFollowsPower

USE DEF pinVars, taskVars

(* The board has the target pin in any case. *)
LEMMA Pins == "DET" \in Pin /\ (HasPlugPin <=> "USB" \in Pin) /\ Pin \subseteq {"DET", "USB"}
  BY PlugPinAssumption DEF Pin

(* The opposite of a level is a level. *)
LEMMA Opposite == \A l \in Level : 1 - l \in Level /\ {1 - l} \subseteq Level
  BY DEF Level

(* The lock is taken on the edge to USB power and given back on the other one. *)
LEMMA LockFollows ==
    ASSUME IInv, HasPlugPin, NEW powered \in Level
    PROVE  usb_lock_after(powered) = powered
<1>1. usb_lock = seen["USB"] /\ seen["USB"] \in {0, 1} /\ powered \in {0, 1}
  BY Pins DEF IInv, UsbLockFollowsPower, DetectTypeOK, Level
<1>. QED
  BY <1>1 DEF usb_lock_after

(* update_usb_power() leaves the pin armed and the lock with the power, and the other pin alone. *)
LEMMA UsbUpdated ==
    ASSUME IInv, HasPlugPin, update_usb_power
    PROVE  /\ armed' \in [Pin -> SUBSET Level] /\ seen' \in [Pin -> Level]
           /\ armed'["USB"] = {1 - seen'["USB"]} /\ usb_lock' = seen'["USB"] /\ usb_lock' \in 0..1
           /\ armed'["DET"] = armed["DET"] /\ seen'["DET"] = seen["DET"]
<1>1. level["USB"] \in Level
  BY Pins DEF IInv, DetectTypeOK
<1>2. /\ armed' \in [Pin -> SUBSET Level] /\ armed'["USB"] = {1 - level["USB"]}
      /\ armed'["DET"] = armed["DET"]
  BY <1>1, Pins, Opposite DEF update_usb_power, arm_io_pin, IInv, DetectTypeOK
<1>3. seen' \in [Pin -> Level] /\ seen'["USB"] = level["USB"] /\ seen'["DET"] = seen["DET"]
  BY <1>1, Pins DEF update_usb_power, IInv, DetectTypeOK
<1>4. usb_lock' = level["USB"] /\ usb_lock' \in 0..1
  BY <1>1, LockFollows DEF update_usb_power, Level
<1>. QED
  BY <1>2, <1>3, <1>4

(* io_isr_handler() masks all pins, but starts the timer that arms them again. *)
LEMMA InterruptStep ==
    ASSUME IInv, Interrupt
    PROVE  IInv'
<1>1. PICK p \in Pin : io_isr_handler(p)
  BY DEF Interrupt
<1>2. level[p] \in armed[p] /\ armed' = [q \in Pin |-> {}] /\ timer' = TRUE
      /\ UNCHANGED <<level, seen, handler, usb_lock, taskVars>>
  BY <1>1 DEF io_isr_handler
<1>3. boot # "pins"
  BY <1>2 DEF IInv, BootInv
<1>4. armed' \in [Pin -> SUBSET Level]
  BY <1>2
<1>. QED
  BY <1>2, <1>3, <1>4 DEF IInv, DetectTypeOK, BootInv, ArmInv, LockInv, NeverDeaf, UsbLockFollowsPower

(* io_debounce_handler() samples and arms one pin after the other. *)
LEMMA TimerStep ==
    ASSUME IInv, TimerTask
    PROVE  IInv'
<1>0. boot # "pins" /\ UNCHANGED <<level, boot, fsm>>
  BY DEF TimerTask, Debounced, SampleTarget, ReportTarget, ArmTarget, UpdateUsbPower, IInv, BootInv
<1>1. CASE Debounced
  BY <1>0, <1>1 DEF Debounced, IInv, DetectTypeOK, BootInv, ArmInv, LockInv, NeverDeaf, UsbLockFollowsPower
<1>2. CASE SampleTarget
  <2>1. seen' \in [Pin -> Level] /\ (HasPlugPin => seen'["USB"] = seen["USB"])
    BY <1>2, Pins DEF SampleTarget, IInv, DetectTypeOK
  <2>2. handler' \in {"bit", "arm"} /\ offered' \in BOOLEAN
    BY <1>2 DEF SampleTarget
  <2>. QED
    BY <1>0, <1>2, <2>1, <2>2
    DEF SampleTarget, IInv, DetectTypeOK, BootInv, ArmInv, LockInv, NeverDeaf, UsbLockFollowsPower
<1>3. CASE ReportTarget
  <2>1. bit' \in BOOLEAN
    BY <1>3 DEF ReportTarget
  <2>. QED
    BY <1>0, <1>3, <2>1
    DEF ReportTarget, IInv, DetectTypeOK, BootInv, ArmInv, LockInv, NeverDeaf, UsbLockFollowsPower
<1>4. CASE ArmTarget
  <2>1. armed' \in [Pin -> SUBSET Level] /\ armed'["DET"] = {1 - seen["DET"]}
    BY <1>4, Pins, Opposite DEF ArmTarget, arm_io_pin, IInv, DetectTypeOK
  <2>2. handler' = IF HasPlugPin THEN "usb" ELSE "idle"
    BY <1>4 DEF ArmTarget
  <2>3. ~HasPlugPin => \A p \in Pin : p = "DET"
    BY Pins
  <2>4. UNCHANGED <<seen, timer, usb_lock, bit, offered>>
    BY <1>4 DEF ArmTarget
  <2>. QED
    BY <1>0, <2>1, <2>2, <2>3, <2>4, PlugPinAssumption
    DEF IInv, DetectTypeOK, BootInv, ArmInv, LockInv, NeverDeaf, UsbLockFollowsPower
<1>5. CASE UpdateUsbPower
  <2>1. HasPlugPin /\ (timer \/ armed["DET"] = {1 - seen["DET"]})
    BY <1>5 DEF UpdateUsbPower, IInv, ArmInv
  <2>2. /\ armed' \in [Pin -> SUBSET Level] /\ seen' \in [Pin -> Level]
        /\ armed'["USB"] = {1 - seen'["USB"]} /\ usb_lock' = seen'["USB"] /\ usb_lock' \in 0..1
        /\ armed'["DET"] = armed["DET"] /\ seen'["DET"] = seen["DET"]
    BY <1>5, <2>1, UsbUpdated DEF UpdateUsbPower
  <2>3. handler' = "idle" /\ UNCHANGED <<timer, bit, offered>>
    BY <1>5 DEF UpdateUsbPower
  <2>4. NeverDeaf'
    BY <2>1, <2>2, <2>3, Pins DEF NeverDeaf
  <2>. QED
    BY <1>0, <2>1, <2>2, <2>3, <2>4
    DEF IInv, DetectTypeOK, BootInv, ArmInv, LockInv, UsbLockFollowsPower
<1>. QED
  BY <1>1, <1>2, <1>3, <1>4, <1>5 DEF TimerTask

(* setup_io_pins() samples and arms one pin after the other; the rest of init() only touches the bit. *)
LEMMA MainStep ==
    ASSUME IInv, MainTask
    PROVE  IInv'
<1>1. CASE SetupPins
  <2>1. /\ boot' = (IF HasPlugPin THEN "usb" ELSE "init") /\ handler = "idle"
        /\ UNCHANGED <<level, timer, handler, usb_lock, bit, fsm, offered>>
    BY <1>1 DEF SetupPins, IInv, BootInv
  <2>2. level["DET"] \in Level
    BY Pins DEF IInv, DetectTypeOK
  <2>3. armed' \in [Pin -> SUBSET Level] /\ armed'["DET"] = {1 - level["DET"]}
    BY <1>1, <2>2, Pins, Opposite DEF SetupPins, arm_io_pin, IInv, DetectTypeOK
  <2>4. /\ seen' \in [Pin -> Level] /\ seen'["DET"] = level["DET"]
        /\ HasPlugPin => seen'["USB"] = seen["USB"]
    BY <1>1, <2>2, Pins DEF SetupPins, IInv, DetectTypeOK
  <2>5. ~HasPlugPin => \A p \in Pin : p = "DET"
    BY Pins
  <2>6. NeverDeaf'
    BY <2>1, <2>3, <2>4, <2>5, PlugPinAssumption DEF NeverDeaf
  <2>. QED
    BY <2>1, <2>3, <2>4, <2>6, PlugPinAssumption
    DEF IInv, DetectTypeOK, BootInv, ArmInv, LockInv, UsbLockFollowsPower
<1>2. CASE SetupUsb
  <2>1. /\ boot = "usb" /\ boot' = "init" /\ HasPlugPin
        /\ UNCHANGED <<level, timer, handler, bit, fsm, offered>>
    BY <1>2 DEF SetupUsb, IInv, BootInv
  <2>2. /\ armed' \in [Pin -> SUBSET Level] /\ seen' \in [Pin -> Level]
        /\ armed'["USB"] = {1 - seen'["USB"]} /\ usb_lock' = seen'["USB"] /\ usb_lock' \in 0..1
        /\ armed'["DET"] = armed["DET"] /\ seen'["DET"] = seen["DET"]
    BY <1>2, <2>1, UsbUpdated DEF SetupUsb
  <2>3. ~timer /\ handler = "idle" => armed["DET"] = {1 - seen["DET"]}
    BY <2>1 DEF IInv, NeverDeaf
  <2>4. NeverDeaf'
    BY <2>1, <2>2, <2>3, Pins DEF NeverDeaf
  <2>. QED
    BY <2>1, <2>2, <2>4 DEF IInv, DetectTypeOK, BootInv, ArmInv, LockInv, UsbLockFollowsPower
<1>3. CASE CreateTask \/ CheckTarget \/ SetBootBit
  BY <1>3
  DEF CreateTask, CheckTarget, SetBootBit, IInv, DetectTypeOK, BootInv, ArmInv, LockInv, NeverDeaf,
      UsbLockFollowsPower
<1>. QED
  BY <1>1, <1>2, <1>3 DEF MainTask

(* The programming task and the pins leave all of this alone. *)
LEMMA OtherStep ==
    ASSUME IInv, ProgTask \/ \E p \in Pin : PinChanges(p)
    PROVE  IInv'
<1>1. CASE ProgTask
  <2>1. bit' \in BOOLEAN /\ offered' \in BOOLEAN /\ fsm' \in {"none", "wait", "offer"}
    BY <1>1 DEF ProgTask, WakeUp, OfferDone, IInv, DetectTypeOK
  <2>2. UNCHANGED <<pinVars, boot>>
    BY <1>1 DEF ProgTask, WakeUp, OfferDone
  <2>. QED
    BY <2>1, <2>2
    DEF IInv, DetectTypeOK, BootInv, ArmInv, LockInv, NeverDeaf, UsbLockFollowsPower
<1>2. ASSUME NEW p \in Pin, PinChanges(p)
      PROVE  IInv'
  <2>1. level' \in [Pin -> Level]
    BY <1>2, Opposite DEF PinChanges, IInv, DetectTypeOK
  <2>. QED
    BY <1>2, <2>1
    DEF PinChanges, IInv, DetectTypeOK, BootInv, ArmInv, LockInv, NeverDeaf, UsbLockFollowsPower
<1>. QED
  BY <1>1, <1>2

(* The inductive invariant holds from power on. *)
THEOREM Invariance == Spec => []IInv
<1>1. Init => IInv
  <2> SUFFICES ASSUME Init PROVE IInv
    OBVIOUS
  <2>1. seen \in [Pin -> Level] /\ armed \in [Pin -> SUBSET Level] /\ level \in [Pin -> Level]
    BY DEF Init, Level
  <2>2. usb_lock \in 0..1 /\ LockInv
    BY PlugPinAssumption DEF Init, LockInv
  <2>3. timer \in BOOLEAN /\ bit \in BOOLEAN /\ offered \in BOOLEAN
    BY DEF Init
  <2>4. UsbLockFollowsPower
    BY Pins DEF Init, UsbLockFollowsPower
  <2>. QED
    BY <2>1, <2>2, <2>3, <2>4 DEF Init, IInv, DetectTypeOK, BootInv, ArmInv, NeverDeaf
<1>2. IInv /\ [Next]_vars => IInv'
  <2> SUFFICES ASSUME IInv, [Next]_vars PROVE IInv'
    OBVIOUS
  <2>1. CASE UNCHANGED vars
    BY <2>1
    DEF vars, IInv, DetectTypeOK, BootInv, ArmInv, LockInv, NeverDeaf, UsbLockFollowsPower
  <2>. QED
    BY <2>1, InterruptStep, TimerStep, MainStep, OtherStep DEF Next
<1>. QED
  BY <1>1, <1>2, PTL DEF Spec

(* Pins, tasks and the lock count stay within their types. *)
THEOREM TypeCorrect == Spec => []DetectTypeOK
<1>1. IInv => DetectTypeOK
  BY DEF IInv
<1>. QED
  BY <1>1, Invariance, PTL

(* With no debounce under way, every pin waits for the level it was not seen at. *)
THEOREM NoPinDeaf == Spec => []NeverDeaf
<1>1. IInv => NeverDeaf
  BY DEF IInv
<1>. QED
  BY <1>1, Invariance, PTL

(* The light-sleep lock is held once on USB power and not at all on battery. *)
THEOREM LockIsPower == Spec => []UsbLockFollowsPower
<1>1. IInv => UsbLockFollowsPower
  BY DEF IInv
<1>. QED
  BY <1>1, Invariance, PTL

===============================================================================
