# A TLA+ model of soul-injector

soul-injector is the firmware of a hand-held production programmer. A host
uploads a programming job and its images over USB (the SIDP protocol); the
device then programs targets, Cortex-M parts over SWD or ESP32 parts over their
UART boot loader, by itself: on request, or whenever a target is plugged in.
Every run is recorded in a log that the host collects later.

The modules here model that behaviour from the C++ in `src/main`. TLC checks
them on small instances (`*.cfg`), and the `*Proofs` modules prove the safety
properties of every component, and both refinements, for every instance.
`PROJECT.json` maps each definition to the lines it stands for.

## Inventory

| Component | State | Operations | Who calls it | What is hard |
|---|---|---|---|---|
| `asset_store` | open upload (name, size, running hash), `.part` files, `/data` | begin, write, commit, resume, clean-up at boot | SIDP task | retransmitted and interrupted uploads; unlink and rename are two steps |
| `fw_asset_manager` | the active job and what it pins | activate a staged job, verify images, load at boot | SIDP task under the mutex; read by the programming task | memory and file can differ after a failed install |
| `job_controller` | `running`, run id, trigger (RAM and NVS), cancel flag, last result, one mutex | set job, commit, request run, begin auto run, cancel, finish | both tasks | a run is claimed under the mutex and announced after it |
| `prog_log` | entries with ids, acknowledged id, write-failed latch, clock | check space, add, set time, read a page, acknowledge | both tasks | admission precedes the append by minutes; records arrive between two pages; corrupt entries |
| `offline_flasher` | stage, failed stage, selected backend | one handler per stage | programming task | errors, cancellation and retries from any stage |
| `bootstrap_fsm` | event bits, pin states, locks | boot, programming task, ISR, debounce timer | FreeRTOS | four contexts share the pins while booting |
| `sidp_service` | connection, the request being served | dispatch of requests | its task | answers that are lost, a connection that closes during a request |
| `job_decoder` | the one `target_config`, its algorithm buffers | decode, validate, fill, publish | `fw_asset_manager` | the config is filled again for every job; buffers change hands |
| `swd_prog`, `swd_cortexm_backend` | what the target's RAM holds, buffers, canary | init, load algorithm, erase, program, verify, self test | `offline_flasher` | stale target RAM, double buffering, RAM layout |
| `esp32_serial_backend` | `connected`, `flash_limit` | detect, program, verify, reset, release | `offline_flasher` | rounding to words and sectors, wrong flash sizes, stale connection |
| `procedure_executor` | none | runs pre and post steps on a backend | `offline_flasher` | - |
| `modem_manager` | two event bits, DCE mode | set up, register, dial, recover; event handlers | its task, system event loop | bits and events of an earlier link |
| `current_tester`, `wifi_manager`, `quectel_dte`, UI, LCD drivers, `main` | - | - | - | not modelled, see below |

Two FreeRTOS tasks matter: `flasher` (the programming task) has the higher
priority, `sidp_svc` serves the host. They share `job_controller` under its
mutex, an event group, and read-only access to the active job during a run.

What makes each part correct: files only appear whole and verified; a run has
one owner and immutable inputs; a pass means the pinned images are on the
target; an idle device shows the result of the last run; every run is recorded,
every run ends, a failed one naming the stage it failed in, every target that
stays is offered; no transport or target RAM contents
survive into another run; the config in use is the one of the active job and of
no earlier one; a host that collects the log gets every record; pins are never
left masked. `PROJECT.json` lists the
hazards behind these, each at its line.

## Modules

```
Storage                digests and unlink()
DataFiles              abstract: what may happen to the files in /data
 |- AssetStore         uploads; refines DataFiles
 `- FwAssetManager     the active job
     `- OfflineFlasher stages of a run
ProgLog                abstract: the log as a number of uncollected entries
`- LogCollect          its entries, and a host that collects them; refines ProgLog
JobController          EXTENDS OfflineFlasher, ProgLog
`- SoulInjector        the device: both tasks, targets, power loss
TargetDetect           the pins and the boot race
JobDecoder             from a job file to target_config
`- SwdProg             Cortex-M programming with that config
Esp32Serial            ESP32 programming
ModemManager           the cellular link

<Component>Proofs      theorems about AssetStore, SoulInjector, TargetDetect,
                       SwdProg (with JobDecoder), Esp32Serial, LogCollect, ModemManager
IntegerFacts           lemmas on division, rounding, least and greatest elements
```

`MC*` modules only give constants values (`MCAssetStoreUnplug` adds a history
variable). Definitions whose comment starts with "Mutant" are deliberately wrong
variants of the definition that follows; nothing uses them, and each is listed
in `PROJECT.json` with the property that refutes it.

**Storage, DataFiles, AssetStore.** A file's contents are a value and its
digest is injective (`Sha256`). `install_file()` is `unlink` then `rename`: two
steps with power loss and failure between. An upload is a sequence of chunks;
the `.part` file and the running hash are separate, so that a bug in resuming
or truncating makes them differ. Requests the code refuses without changing
anything are stuttering. `DataFiles` is the abstract promise, and `AssetStore`
is shown to implement it with `installing` computed from the commit under way.
SIDP serialises requests in one task, so there is no second upload at once.

**FwAssetManager, ProgLog, OfflineFlasher, JobController, SoulInjector.** The
composed firmware. `sidp` is where the service task is inside a call that holds
the mutex over several writes (`commit_asset`, `set_job`) or has left it
(`set_run_bit`, between the claim and the event bit); `prog` is where the
programming task is. A stage handler is one action and may succeed, fail or
retry. The mutex is free iff `Unlocked`. `Restart` is power loss at any moment
followed by boot: files, log and the NVS trigger survive, unless a partition does
not mount, which the code formats (`bootstrap_fsm.cpp:165`, `prog_log.cpp:15`;
NVS is erased, `:154-157`) before it goes on. Each of the three may be wiped
without the others. Two history variables serve the properties: `reached` is the
stage the machine was last in, kept apart from `failed_state`, and `pending` is a
plugged-in target that has not been offered yet; it falls when
`begin_auto_run()` is asked, when a requested run is picked up with the target
(both bits at once, `bootstrap_fsm.cpp:227-231`), or when the target is unplugged,
not when the event bit is merely cleared. The target's flash is
a function from image name to contents, filled by the program stage with
whatever the file of that name holds. `on9rstore` (the log) and the FAT file
system are external and modelled from their use.

**TargetDetect.** The ISR, the timer's handler, `init()` and the programming
task interleave at every shared access. `update_usb_power()` is one step in each
of its two callers: the timer's handler, and `setup_io_pins()` in the main task
(`SetupUsb`), by when the target pin is armed and may have started the timer.
The two may follow each other in either order; that one begins inside the other
is ruled out by the 50 ms of the debounce.

**LogCollect.** The programming task appends while the service task serves
DEVICE_INFO, SET_TIME, LOG_READ and LOG_ACK; `read()` takes one step per entry,
so records appear in the middle of a page and between pages. An entry is its
kind and what a read finds of it: all (`intact`), a header only (`corrupt`, or too
large), which is reported as UNKNOWN, or not even that (`unreadable`), which is an
error on every pull. The host
is external: it reads from the last id it got until a page is empty, stores
what it got and only then acknowledges. `on9rstore` is external too. Lost
answers, pulled cables, read errors, power losses and a boot that formats the
partition (`RestartFormatted`: ids start over, and so does the host's file) are
faults, `MaxFaults` of
them in all, at any moment. `LogCollect` implements `ProgLog!LogSpec`, the log
of the composed firmware, with `uncollected` as `Len(log) - acked`.

**JobDecoder.** A job file is a record of what nanopb finds in it: the families
it describes, its RAM regions, algorithm fields and blobs, chip, flash size, baud
rate and pin levels. `decode()` with its
callbacks, `validate()` and `fill_target_config()` are operators;
`Decode`, `InstallFails` and `Publish` are the steps of an activation, with the
two heap buffers (the published algorithm and the one being decoded) counted
explicitly. `cfg` survives from job to job; its fixed arrays are kept up to
their counts, past which nobody reads. A job is only published while no run
uses the config (`job_controller` holds the mutex and refuses during a run,
which `RunFreezesData` of `SoulInjector` shows).

**SwdProg.** The RAM layout is computed from the published config, in 32-bit
arithmetic (`% Word`; sizes and the word are scaled down). Absurd page sizes do
wrap; the properties about the layout are stated for the jobs whose sums do not
(`NoWrap`). The target's core state says which algorithm is loaded and for which
operation it has been initialised; failure and reset lose it. `init()` writes the
stack canary where the previous job's stack ended, before the new layout is
known; loading the algorithm writes it again. A run that is over leaves nothing
of the target behind, as the next one begins with a reset. Programming runs page by page
with two buffers, and the target reads a buffer at some moment between start
and completion.

**Esp32Serial.** Flash is modelled byte by byte, with the code's rounding. The
loader library is external; a chip ignores address bits above its size, so a
write past its end wraps around. `connect_locked()` in program and verify
always finds the connection open (`NoStaleConnection`), so it is not an action.

**ModemManager.** The event loop handles events later than they happen; the
LOST handler is three steps (test, clear, set). AT commands, baud rates and
signal logging are reduced to whether setup or registration succeeds.
`esp_modem` and PPP are external; disposing the DCE is taken to stop PPP like a
mode switch does. Nothing in this build calls `modem_manager::init()`.

## Runs

| Run | Result | Bounds |
|---|---|---|
| `asset_store` | 4 properties hold, 54,880 states | 2 names and `job.pb`, files of up to 2 chunks out of 2: long enough to be interrupted, short enough that all digests occur |
| `asset_store_unplug` | `StoredStaysStored` violated | files of 1 chunk |
| `soul_injector` | 11 properties hold, 2,715,658 states | 2 products (one per target family), log of 1 entry so that it fills up, 2 run ids so that they wrap |
| `soul_injector_live` | 2 liveness properties hold, 180,072 states | 1 product, rig build (with the current test stage) |
| `soul_injector_saved` | `ActivatedIsSaved` violated | as `soul_injector` |
| `target_detect` | 4 properties hold, 7,316 states | both pins; no bounds |
| `target_detect_stale` | `DisconnectForgets` violated | target pin only |
| `swd_prog` | 6 properties hold, 40,347 states | 14 jobs the decoder accepts (RAM too small, just accepted, room for one and for two buffers, two regions, wrap-around, ESP32 with and without a flash size) and 15 it refuses, in any order; 3 pages, so that both buffers are reused; a word of 128 |
| `swd_prog_ram` | `PageBufferInRam` violated | same |
| `esp32_serial` | 5 properties hold, 10,579 states | pairs of images, empty ones too; word 2, sector 4, block 4, chips of 8 and 16 |
| `log_collect` | 5 properties hold, 268,488 states | log of 3 entries and 4 ever written, so that it fills up and the oldest is overwritten; a page holds one run or two small entries; 2 faults |
| `modem_manager` | 3 properties hold, 4,422 states | 2 dial attempts; a queue of 5 events holds those of two links |

Two products are enough for `soul_injector` because the properties compare the
active job with at most one other file or job; scaled sizes are enough for the
arithmetic because each rounding is exercised below, at and above its boundary.
`modem_manager` runs without deadlock checking: a first setup that fails parks
the task for ever, in the code too.

### Fairness

`SoulInjector` assumes weak fairness of both tasks (FreeRTOS schedules what is
ready, nothing else on the device runs for ever) and strong fairness of
`OfferTarget`: the mutex has priority inheritance and goes to the
higher-priority programming task whenever that waits. Nothing is assumed of the
host, the target or the operator. That a stage retries finitely often is in the
code (`on_detect` gives up after ten), so in the model a
stage always ends; within it the drivers' own time-outs end every call. `TargetDetect` assumes the interrupt, the timer and the tasks run;
the pins may bounce for ever. `ModemManager` assumes the event loop runs and the
task wakes when its bit is set, nothing of the network. `LogCollect` assumes
that the service task runs and that the host keeps pulling and goes on with a
pull it has begun; faults end because they are bounded; nothing is assumed of the
programming task.

### What the violations show

- `StoredStaysStored`: a replaced file is missing if power is lost between
  `unlink` and `rename`, whereas the documentation says nothing needs to be
  ejected before unplugging. `ReplacementReady` shows the other half: the
  verified replacement is then complete as `.part`, but boot deletes it.
- `ActivatedIsSaved`: an activation that fails after its `unlink` leaves the old
  job active without `job.pb`; asking for that job again succeeds as a "true
  no-op" and saves nothing.
- `DisconnectForgets`: at boot, an unplug handled between the check of
  `last_det_state` and the setting of the bit is forgotten.
- `PageBufferInRam`: the capacity check counts two pages and a stack behind the
  code, the layout puts two pages, the stack, and then the page buffers.

Smaller deviations have no run of their own:

- A cancel that arrives after a stage has failed but before `finish_run()` reads
  the flag turns the outcome from FAIL to CANCELLED. No document says which of
  the two should win, so `FailureNamesStage` allows it; the stage it names is the
  one that failed.
- An entry whose header cannot be read (`prog_log.cpp:117-119`: any other error, or
  `entry_id` 0) is an error on every pull. The host cannot acknowledge past it, nor
  what it got before it in the same pull, and a log that has filled up stays full:
  the device refuses to program until the partition is formatted. Corrupt entries
  with a header are passed. `EverythingCollected` states this exception (`Stalled`).
- A log partition that does not mount is formatted with the uncollected records in
  it, and ids start over; `NothingLost` is of the log since then. Likewise
  `ReplacementReady` excepts the boot that formats `/data`.
- `set_job()` publishes the job before it saves the trigger, so a job set as
  manual can start automatically if power is lost, or NVS fails, in between.
- A `GOT_IP` that comes after the IP time-out makes the following intentional
  stop look like a loss: `BIT_LINK_DOWN` stays set, and the next good link is
  taken down once.
- Post-program register steps on ESP32 run after `on_self_test()` has reset the
  target into its application, with `connected` still set
  (`docs/en/procedure-yaml.md:184-187` describes register access after
  programming).
- `page_size * 2` wraps in 32 bits; `job_decoder` only refuses 0. With a huge page
  the stack may begin inside the algorithm. `swd_prog.cpp:749` also uses its
  `heap_caps_malloc(page_size)` unchecked.
- The 8 bytes of "alignment slack" in the capacity check are too few when the
  page size is not a whole number of words: the end of the code and the end of
  the two pages above it are both rounded up to 8. With the code ending at 9 and
  a page of 1 byte the stack begins at 24, while the check only asks for
  9 + 2 + 8 = 19 bytes below it. `StackInRam` is therefore stated for pages of
  whole words; the attempt to prove it without that condition showed this.
- The capacity check does not count the halt instruction that is loaded just
  below the algorithm, and the first `init()` writes the canary to address 0.
- `prog_log.hpp:55` says `ack()` writes "any held record"; it does not.
- In `ui_composer_114` a failed allocation returns without `lvgl_port_unlock()`
  (`ui_composer_279` unlocks everywhere). In both, a failed screen leaves
  `screen_state` as it was, so that a later call may use deleted labels.

## Proofs

Every invariant, action property and refinement the passing runs check is also
a theorem, for all values of the constants that satisfy the named assumptions of
the modules (TLC evaluates each of them in some run). Each `*Proofs` module has
an inductive invariant `IInv`, a lemma for each action or group of actions, the
theorem `Invariance` (`Spec => []IInv`), and the theorems that follow from it.
The parts of each `IInv` were checked with TLC before they were proved.

| Module | Theorems (property) |
|---|---|
| `SoulInjectorProofs` | `TypeCorrect` (`TypeOK`), `RunOwnership` (`OneOwner`), `LockExcludesLoads` (`NoLoadDuringRun`), `DataFrozen` (`RunFreezesData`), `RecordFits` (`AdmittedRunFits`), `ImagesPinned` (`ImagesStayPinned`), `PassIsProgrammed` (`PassMeansProgrammed`), `IdleResult` (`IdleShowsLastRun`), `FailureNamed` (`FailureNamesStage`), `TransportsReleased` (`NoStaleTransport`), `PublishVerified` (`PublishedIsVerified`) |
| `AssetStoreProofs` | `TypeCorrect` (`StoreTypeOK`), `HashCoversPart` (`PartIsHashed`), `ReplacementOnDisk` (`ReplacementReady`), `UploadsImplementDataFiles` (`ImplementsDataFiles`) |
| `TargetDetectProofs` | `TypeCorrect` (`DetectTypeOK`), `NoPinDeaf` (`NeverDeaf`), `LockIsPower` (`UsbLockFollowsPower`) |
| `SwdProgProofs` | `TypeCorrect` (`SwdTypeOK`), `CallsInitialised` (`CallsAreInitialised`), `PagesOrdered` (`PagesInOrder`), `StackPlaced` (`StackInRam`), `ConfigOfJob` (`ConfigIsOfJob`), `HeapIsOwned` (`NoLeak`) |
| `Esp32SerialProofs` | `TypeCorrect` (`EspTypeOK`), `ConnectionIsFresh` (`NoStaleConnection`), `ImagesIntact` (`FinishedImagesIntact`), `NoWrapAround` (`WritesStayInFlash`), `ChunkFitsBlock` (`BlockBounded`) |
| `LogCollectProofs` | `TypeCorrect` (`CollectTypeOK`), `LogIsKept` (`NothingLost`), `PullIsComplete` (`PullComplete`), `CollectImplementsProgLog` (`ImplementsProgLog`) |
| `ModemManagerProofs` | `TypeCorrect` (`ModemTypeOK`), `StatusIsLink` (`StatusMatchesLink`) |

The arguments:

**SoulInjector.** `TypeOK` is not inductive: that the published job is a job
rests on what `set_job()` is about to rename, so `InstallInv` says an install is
under way exactly while the service task is inside `commit_asset()` or
`set_job()`, and that the staged file being installed is the decoded one.
`OneOwner` gives "running iff somebody owns the run", and with it
`NoLoadDuringRun` (both loads test `running` under the mutex, and a claim needs
the mutex) and hence `RunFreezesData`. Frozen files make `ImagesStayPinned`
stable after the load stage, `FlashInv` carries "the target holds what the job
pins" from the comparison in the verify stage to the end of the run, and
`BackendInv` says a backend has been selected by then. `AdmittedRunFits` is
stable because only the run itself appends to the log while it is claimed. What
a run leaves behind rests on a second group, `AfterInv`: the result is written
before `running` falls (`ResultInv`), the failed stage is the one the
machine was in when it left the stages, and stays so until the result is made
(`FailedInv`, which also says that the machine is only in CANCELLED with the flag
set), only the selected backend's transport is ever
open, and only during the stages (`TransportInv`), and the staged job has been
verified with the files as they still are (`StagedInv`).

**AssetStore.** The hash and the `.part` file change together or the upload is
given up; `UploadInv` adds that a commit has closed its upload and that neither
is ever about `job.pb`. For the refinement each step of a commit maps to the
install step of `DataFiles` with `installing` computed from `commit`, and a boot,
formatting or not, to `FilesRestart`.

**TargetDetect.** The ISR masks every pin and starts the timer; `ArmInv` says
what the handler has armed between the two pins, `BootInv` that nothing
interrupts before `setup_io_pins()`. `NeverDeaf` is stated by boot stage: between
the two halves of `setup_io_pins()` only the target pin has been armed.

**JobDecoder and SwdProg.** `JobInv` writes the whole configuration out as a
function of the active job (`JobConfig`): that it does not depend on what was in
`cfg` before is the proof of `ConfigIsOfJob`. `HeapInv` says that the heap is
exactly the buffers of the active and the decoded job, which share none.
`InitedInv` says what is in the target's RAM at each stage, `LoopInv` and
`PageInv` which buffer holds which page and which one the target may be reading,
and `LayoutInv` that the stack is where the active job puts it, which the
rounding lemmas relate to the region checked in `init()`.

**Esp32Serial.** `validate_images` refuses images that share an erase sector;
since sectors are rounded outward (`RoundDown`, `RoundUp` of `IntegerFacts`), erasing or
padding one image cannot reach another. `LimitInv` says the limit in force when
images were checked is at most the chip's size once that is known, so that
no address wraps (`NoWrapAround`).

**LogCollect.** The service task has one request at a time, so the
acknowledged id stands still while a pull reads; the entry after it cannot have
been overwritten (`NextEntry`), so pages continue one another without a gap
(`PageInv`, `AnsInv`), and the host has everything up to the last id it got
(`HostInv`), which is the one it acknowledges. An empty page with status OK means
the end of the log: any one entry fits an answer, and an error before the first
entry is not OK. A format starts log and host over together.

**ModemManager.** The last event in the queue is about the link as it is
(`LastInv`), so once the queue is empty and the handler idle the bit is right
(`QuietInv`).

Assumptions a proof needs, and where the code gives them:

- `StoreAssumption`, `FilesAssumption`, `JobAssumption`: `None` is not a file, an
  upload or an install; `job.pb` is not an asset name.
- `EspAssumption`: flash sizes are whole erase sectors (they are powers of two).
  Otherwise erasing the last sector would wrap around.
- `DecoderAssumption`: a blob is only found inside `cortex_m.algorithm`, which is
  the only place `job_decoder.cpp:90` installs its callback.
  `RegionAssumption` states that the regions kept by the filter of `RamRegions`
  are a sequence of regions: the prover knows nothing of `SelectSeq`.
- `CollectAssumption`: any single entry fits an answer (`manage.options` bounds
  the record), and the log holds at least one entry.

Only model-checked: `RunEnds`, `TargetServed`, `StayingTargetOffered`,
`EverythingCollected` and `DropNoticed`, because fairness and ENABLED are beyond
the prover. So are the four violations, which are counterexamples. That nanopb,
`on9rstore`, FAT and the loader library do what the modules say of them is
assumed in both.

## Not modelled

- SIDP framing, protobuf encoding, and `JOB_GET`, which only reads. Lost answers
  to requests other than the log's matter only as repeated requests.
- A boot that fails in another way than a partition that does not mount (display,
  memory, a format that fails, USB): the device stops.
- The queue of FreeRTOS timer commands: the ISR's command is taken to be accepted.
- Whether a file is cut off or garbage is a field of `JobFile`; nanopb itself is
  external. `SoulInjector` takes the set of decodable contents as a constant.
- UI, LCD and LED: drawing, without state that anything else reads. The return
  paths of `ui_composer_114` that keep the LVGL lock are in the hazards.
- `wifi_manager`, `quectel_dte` and the LCD drivers: sequences of commands to
  hardware whose behaviour is not in the repository.
- `current_tester`: a measurement compared with limits; in `SoulInjector` a stage
  that passes or fails.
- Raw memory and halt steps of procedures on Cortex-M targets;
  `swd_prog::program_page()`, which nothing calls.

## Plan

Order so far: the files and the composed firmware first, since a wrong image or
a mixed-up run is the worst the device can do; then the boot race, the two
backends, the modem; then the collection of the log and the way from a job file
to the layout in target RAM. Next:

1. `ProcedureExecutor` over both backends: error and ignore-error paths, and the
   polling time-out.
2. Proofs: action properties that the inductive invariants already support (the
   acknowledged id and the host's file only grow; a page is only filled while the
   target does not read it), and `SoulInjector` as an implementation of
   `DataFiles`.
3. `UiComposer`, should the display ever feed back into the run.
