------------------------------- MODULE SwdProg --------------------------------
(***************************************************************************)
(* swd_prog behind swd_cortexm_backend: a Cortex-M target is erased,       *)
(* programmed and tested by a flash algorithm loaded into its RAM.         *)
(*                                                                         *)
(* The firmware remembers in `state` how far the algorithm is; `core` is   *)
(* what the target really is, which every reset changes behind state's     *)
(* back.  Programming is double buffered: the target programs one page     *)
(* while the next one is written to its RAM.                               *)
(*                                                                         *)
(* SWD transfers and algorithm calls fail nondeterministically.  The       *)
(* stages come in offline_flasher's order; a failed stage ends the run and *)
(* the next run starts over with another target.  Between runs the host    *)
(* may send another job: where things go in the target's RAM, and which    *)
(* functions its algorithm has, is read from the published target_config.  *)
(***************************************************************************)
EXTENDS JobDecoder

CONSTANTS StackSize,   \* init()'s default argument
          Pages        \* pages of firmware.bin, the last one perhaps partial

ASSUME SwdAssumption == StackSize \in Nat \ {0} /\ Pages \in Nat \ {0}

Page == 0..Pages - 1
Mode == {"ERASE", "PROGRAM"}

-------------------------------------------------------------------------------
(***************************************************************************)
(* Where swd_prog::init() puts things in target RAM, in 32-bit arithmetic. *)
(***************************************************************************)
fa == cfg.algo
has(entry) == entry \in fa.entries
ram == algo_ram_region(cfg)

next_multiple_of(x, of) == (((x + of - 1) % Word) \div of) * of
code_end == next_multiple_of(fa.load_address + fa.algo_bin_len, 8)
new_stack_bottom == next_multiple_of((code_end + 2 * fa.page_size) % Word, 8)

(* Mutant: the capacity check forgets the page buffers. *)
has_capacity_for_stack ==
    contains_range(ram, fa.load_address, (fa.algo_bin_len + StackSize + 8) % Word)

(* init(): the capacity check. *)
has_capacity ==
    contains_range(ram, fa.load_address, (fa.algo_bin_len + 2 * fa.page_size + StackSize + 8) % Word)

-------------------------------------------------------------------------------
VARIABLES stage,      \* the backend call offline_flasher is in
          phase,      \* how far that call is
          state,      \* swd_prog::state
          stack_bottom,   \* swd_prog::stack_bottom, of the last init()
          core,       \* the target: reset, algorithm loaded, or Init()ed for a mode
          canary,     \* the word at stack_bottom is the current stack_canary
          intact,     \* the canary was not written into the algorithm
          page_idx,   \* the next page of the programming loop
          curr_buf,   \* the buffer it is written to
          buf,        \* the target's page buffers: a page, "bad" bytes or "none"
          call,       \* the ProgramPage() call under way on the target, if any
          flash,      \* the target's flash, page by page
          test_idx    \* on_self_test(): the next test

swdVars == <<state, stack_bottom, core, canary, intact>>
loopVars == <<page_idx, curr_buf, buf, call>>
vars == <<jobVars, stage, phase, swdVars, loopVars, flash, test_idx>>

Data == Page \cup {-1, -2}
Bad == -1      \* bytes fread() did not deliver
Erased == -2   \* erased, or whatever the target held before

(* One type invariant: the programmer, the target and the loop stay within their types. *)
SwdTypeOK ==
    /\ DecoderTypeOK
    /\ stage \in {"idle", "over", "detect", "erase", "sector", "program", "verify", "test", "post"}
    /\ phase \in {"start", "call", "fill", "wait", "exec", "end"}
    /\ state \in {"UNKNOWN", "INITIALISED", "LOADED", "INITED", "UNINITED"}
    /\ core \in {"reset", "loaded"} \cup Mode
    /\ stack_bottom \in Uint32
    /\ canary \in BOOLEAN /\ intact \in BOOLEAN
    /\ page_idx \in 0..Pages
    /\ curr_buf \in {0, 1}
    /\ buf \in [{0, 1} -> Data]
    /\ call \in [busy : BOOLEAN, page : Page, buf : {0, 1}]
    /\ flash \in [Page -> Data]
    /\ test_idx \in Nat /\ (stage = "test" => test_idx <= Len(cfg.tests))

NoCall == [busy |-> FALSE, page |-> 0, buf |-> 0]

Init ==
    /\ DecoderInit
    /\ stage = "idle" /\ phase = "start"
    /\ state = "UNKNOWN"
    /\ stack_bottom = 0
    /\ core = "reset" /\ canary = FALSE /\ intact = FALSE
    /\ page_idx = 0 /\ curr_buf = 0
    /\ buf = [b \in {0, 1} |-> Bad]
    /\ call = NoCall
    /\ flash = [p \in Page |-> Erased]
    /\ test_idx = 0

(* The run ends, most often because the stage failed (ERROR). *)
Fail == stage' = "over" /\ phase' = "start"

Goto(s) == stage' = s /\ phase' = "start"

-------------------------------------------------------------------------------
(* job_controller::set_job(): another job, under the lock and while no run is under way. *)
SetJob ==
    /\ stage = "idle"
    /\ (\E f \in JobFile : Decode(f)) \/ InstallFails \/ Publish
    /\ UNCHANGED <<stage, phase, swdVars, loopVars, flash, test_idx>>

(***************************************************************************)
(* begin_session() of PRE_PROGRAM: the debug port is brought up on a       *)
(* target that has just been reset, maybe another one than before; then    *)
(* the pre-program steps run.                                              *)
(***************************************************************************)
BeginSession ==
    /\ stage = "idle"
    /\ has_job /\ decoded.job = Null
    /\ cfg.family = "cortex_m"
    /\ Goto("detect") \/ UNCHANGED <<stage, phase>>
    /\ UNCHANGED <<jobVars, swdVars, loopVars, flash, test_idx>>

(***************************************************************************)
(* Between runs only swd_prog's own members count: whatever is left on the *)
(* target, begin_session() finds a target that is reset.                   *)
(***************************************************************************)
RunOver ==
    /\ stage = "over"
    /\ stage' = "idle" /\ phase' = "start"
    /\ core' = "reset" /\ canary' = FALSE /\ intact' = FALSE
    /\ page_idx' = 0 /\ curr_buf' = 0
    /\ buf' = [b \in {0, 1} |-> Bad]
    /\ call' = NoCall
    /\ flash' = [p \in Page |-> Erased]
    /\ test_idx' = 0
    /\ UNCHANGED <<jobVars, state, stack_bottom>>

(* The canary would be written into the halt header or the algorithm. *)
CanaryInCode ==
    stack_bottom + 4 > fa.load_address - 4 /\ stack_bottom < fa.load_address + fa.algo_bin_len

(* init(): there is a region for the algorithm, and it is large enough. *)
Placeable == has_algo_ram_region(cfg) /\ has_capacity

(* Mutant: init() leaves the state of the previous session. *)
SwdInitStale ==
    /\ stage = "detect"
    /\ Placeable /\ has("data_section_offset")
    /\ state' = IF state = "INITED" THEN state ELSE "INITIALISED"
    /\ core' = "loaded"
    /\ intact' = ~CanaryInCode
    /\ stack_bottom' = new_stack_bottom
    /\ canary' = FALSE
    /\ Goto("erase")
    /\ UNCHANGED <<jobVars, loopVars, flash, test_idx>>

(***************************************************************************)
(* init() succeeds.  The algorithm is loaded before the new layout is      *)
(* known: the old canary goes to where the last job had its stack, and     *)
(* only then is a new one drawn.                                           *)
(***************************************************************************)
SwdInit ==
    /\ stage = "detect"
    /\ Placeable /\ has("data_section_offset")
    /\ state' = "INITIALISED"
    /\ core' = "loaded"
    /\ intact' = ~CanaryInCode
    /\ stack_bottom' = new_stack_bottom
    /\ canary' = FALSE
    /\ Goto("erase")
    /\ UNCHANGED <<jobVars, loopVars, flash, test_idx>>

(***************************************************************************)
(* init() fails: on the layout without touching state, on the bus, or      *)
(* because the job lacks an entry.  on_detect() tries again or gives up.   *)
(***************************************************************************)
SwdInitFail ==
    /\ stage = "detect"
    /\ \/ ~Placeable /\ UNCHANGED swdVars
       \/ /\ Placeable
          /\ state' \in {state, "UNKNOWN"}
          /\ core' \in {core, "reset"}
          /\ canary' \in {canary, FALSE}
          /\ UNCHANGED <<intact, stack_bottom>>
       \/ /\ Placeable /\ ~has("data_section_offset")
          /\ state' = "LOADED"
          /\ core' = "loaded"
          /\ canary' = TRUE
          /\ intact' = ~CanaryInCode
          /\ UNCHANGED stack_bottom
    /\ Fail \/ UNCHANGED <<stage, phase>>
    /\ UNCHANGED <<jobVars, loopVars, flash, test_idx>>

(***************************************************************************)
(* run_algo_init(mode), unless the algorithm is believed to be running:    *)
(* reset, load (which writes the canary) and call Init(), three times at   *)
(* most.  goal is the phase that follows, giveup the stage after a failure.*)
(***************************************************************************)
run_algo_init(mode, goal, giveup) ==
    \/ /\ state = "INITED"
       /\ phase' = goal
       /\ UNCHANGED <<stage, swdVars>>
    \/ /\ state # "INITED"
       /\ has("pc_init") /\ has("flash_start")
       /\ state' = "INITED"
       /\ core' = mode
       /\ canary' = TRUE
       /\ intact' = ~CanaryInCode
       /\ phase' = goal
       /\ UNCHANGED <<stage, stack_bottom>>
    \/ /\ state # "INITED"
       /\ state' \in {state, "UNKNOWN", "INITIALISED", "LOADED"}
       /\ core' \in {core, "reset", "loaded"}
       /\ canary' \in BOOLEAN
       /\ intact' \in {intact, ~CanaryInCode}
       /\ Goto(giveup)
       /\ UNCHANGED stack_bottom

(* run_algo_uninit(): UnInit() and the check of the stack canary. *)
run_algo_uninit(next, giveup) ==
    /\ \/ /\ has("pc_uninit") /\ canary
          /\ state' = "UNINITED"
          /\ core' = "loaded"
          /\ Goto(next)
       \/ /\ ~has("pc_uninit")
          /\ Goto(giveup)
          /\ UNCHANGED <<state, core>>
       \/ /\ state' = "UNKNOWN"
          /\ core' \in {core, "loaded"}
          /\ Goto(giveup)
    /\ UNCHANGED <<stack_bottom, canary, intact>>

-------------------------------------------------------------------------------
(***************************************************************************)
(* erase(): erase_chip(), and erase_sector() when that fails ("sector").   *)
(***************************************************************************)
RangeConfigured == has("flash_start") /\ has("flash_end")

(* erase_sector(): the range is a whole number of sectors, which are as large as pages. *)
SectorsAligned == fa.flash_len % fa.page_size = 0 /\ fa.flash_len >= fa.page_size

EraseSupported ==
    IF stage = "erase" THEN RangeConfigured /\ has("pc_erase_all")
    ELSE has("pc_erase_sector") /\ SectorsAligned

EraseStart ==
    /\ stage \in {"erase", "sector"}
    /\ phase = "start"
    /\ EraseSupported
    /\ run_algo_init("ERASE", "call", IF stage = "erase" THEN "sector" ELSE "over")
    /\ UNCHANGED <<jobVars, loopVars, flash, test_idx>>

EraseUnsupported ==
    /\ stage \in {"erase", "sector"}
    /\ phase = "start"
    /\ ~EraseSupported
    /\ Goto(IF stage = "erase" /\ RangeConfigured THEN "sector" ELSE "over")
    /\ UNCHANGED <<jobVars, swdVars, loopVars, flash, test_idx>>

(* EraseChip() or every EraseSector() succeeds. *)
EraseCall ==
    /\ stage \in {"erase", "sector"}
    /\ phase = "call"
    /\ phase' = "end"
    /\ flash' = [p \in Page |-> Erased]
    /\ UNCHANGED <<jobVars, stage, swdVars, loopVars, test_idx>>

(* A failed EraseChip() is uninitialised, a failed EraseSector() is not; halting can fail too. *)
EraseCallFail ==
    /\ stage \in {"erase", "sector"}
    /\ phase = "call"
    /\ \/ stage = "erase" /\ run_algo_uninit("sector", "sector")
       \/ stage = "sector" /\ Fail /\ UNCHANGED swdVars
       \/ /\ Goto(IF stage = "erase" THEN "sector" ELSE "over")
          /\ state' = "UNKNOWN"
          /\ UNCHANGED <<core, stack_bottom, canary, intact>>
    /\ UNCHANGED <<jobVars, loopVars, flash, test_idx>>

EraseEnd ==
    /\ stage \in {"erase", "sector"}
    /\ phase = "end"
    /\ run_algo_uninit("program", IF stage = "erase" THEN "sector" ELSE "over")
    /\ UNCHANGED <<jobVars, loopVars, flash, test_idx>>

-------------------------------------------------------------------------------
(***************************************************************************)
(* program_file().                                                         *)
(***************************************************************************)
ProgramStart ==
    /\ stage = "program"
    /\ phase = "start"
    /\ run_algo_init("PROGRAM", "fill", "over")
    /\ page_idx' = 0
    /\ curr_buf' = 0
    /\ UNCHANGED <<jobVars, buf, call, flash, test_idx>>

page_buffer(i) == (stack_bottom + 2 * StackSize + i * fa.page_size) % Word

(* program_file(): both page buffers lie inside the region. *)
double_buffered == ram.end >= page_buffer(2)

(* Mutant: one page too many. *)
more_pages_inclusive == page_idx <= Pages

(* The loop condition: a partial last page counts. *)
more_pages == page_idx < Pages

(* fread() the page, perhaps short, and write it to the buffer in target RAM. *)
FillBuffer ==
    /\ stage = "program"
    /\ phase = "fill"
    /\ has("pc_program_page")
    /\ more_pages
    /\ \E data \in {page_idx, Bad} : buf' = [buf EXCEPT ![curr_buf] = data]
    /\ phase' = IF double_buffered THEN "wait" ELSE "exec"
    /\ UNCHANGED <<jobVars, stage, swdVars, page_idx, curr_buf, call, flash, test_idx>>

(* swd_flash_syscall_wait_result(): the previous ProgramPage() returned 0. *)
WaitPage ==
    /\ stage = "program"
    /\ phase = "wait"
    /\ ~call.busy
    /\ phase' = "exec"
    /\ UNCHANGED <<jobVars, stage, swdVars, loopVars, flash, test_idx>>

(* Mutant: both pages go through the first buffer. *)
ExecPageSameBuffer ==
    /\ stage = "program"
    /\ phase = "exec"
    /\ call' = [busy |-> TRUE, page |-> page_idx, buf |-> curr_buf]
    /\ page_idx' = page_idx + 1
    /\ phase' = IF double_buffered THEN "fill" ELSE "end"
    /\ UNCHANGED <<jobVars, stage, swdVars, curr_buf, buf, flash, test_idx>>

(***************************************************************************)
(* ProgramPage() starts on the target.  Double buffered, the loop goes on  *)
(* with the other buffer; otherwise it waits for the call (phase "end").   *)
(***************************************************************************)
ExecPage ==
    /\ stage = "program"
    /\ phase = "exec"
    /\ call' = [busy |-> TRUE, page |-> page_idx, buf |-> curr_buf]
    /\ page_idx' = page_idx + 1
    /\ IF double_buffered
       THEN curr_buf' = 1 - curr_buf /\ phase' = "fill"
       ELSE phase' = "end" /\ UNCHANGED curr_buf
    /\ UNCHANGED <<jobVars, stage, swdVars, buf, flash, test_idx>>

(* perform_simple_program(): the synchronous call returned. *)
PageDone ==
    /\ stage = "program"
    /\ phase = "end"
    /\ ~call.busy
    /\ phase' = "fill"
    /\ UNCHANGED <<jobVars, stage, swdVars, loopVars, flash, test_idx>>

(* The target programs the page from the buffer as it finds it. *)
TargetPrograms ==
    /\ call.busy
    /\ flash' = [flash EXCEPT ![call.page] = buf[call.buf]]
    /\ call' = [call EXCEPT !.busy = FALSE]
    /\ UNCHANGED <<jobVars, stage, phase, swdVars, page_idx, curr_buf, buf, test_idx>>

(* All pages are out and the last call has returned. *)
ProgramEnd ==
    /\ stage = "program"
    /\ phase = "fill"
    /\ ~more_pages
    /\ ~call.busy
    /\ run_algo_uninit("verify", "over")
    /\ UNCHANGED <<jobVars, loopVars, flash, test_idx>>

(* The file or the job is unusable, a transfer or ProgramPage() fails. *)
ProgramFail ==
    /\ stage = "program"
    /\ Fail
    /\ state' \in {state} \cup (IF phase = "start" THEN {} ELSE {"UNKNOWN"})
    /\ UNCHANGED <<jobVars, core, stack_bottom, canary, intact, loopVars, flash, test_idx>>

-------------------------------------------------------------------------------
(* verify(): the flash is read back and compared with firmware.bin. *)
Verify ==
    /\ stage = "verify"
    /\ \/ (\A p \in Page : flash[p] = p) /\ Goto("test") /\ UNCHANGED state
       \/ Fail /\ state' \in {state, "UNKNOWN"}
    /\ test_idx' = 0
    /\ UNCHANGED <<jobVars, core, stack_bottom, canary, intact, loopVars, flash>>

(* on_self_test(): only the tests of type 0 call the algorithm. *)
MoreTests == test_idx < Len(cfg.tests)
SimpleTest == MoreTests /\ cfg.tests[test_idx + 1] = 0

(* self_test(): Init() for the first test; the algorithm is never uninitialised. *)
TestStart ==
    /\ stage = "test"
    /\ phase = "start"
    /\ SimpleTest /\ has("pc_verify")
    /\ run_algo_init("ERASE", "call", "over")
    /\ UNCHANGED <<jobVars, loopVars, flash, test_idx>>

TestCall ==
    /\ stage = "test"
    /\ phase = "call"
    /\ \/ phase' = "start" /\ test_idx' = test_idx + 1 /\ UNCHANGED <<stage, state>>
       \/ Fail /\ state' \in {state, "UNKNOWN"} /\ UNCHANGED test_idx
    /\ UNCHANGED <<jobVars, core, stack_bottom, canary, intact, loopVars, flash>>

TestSkip ==
    /\ stage = "test"
    /\ MoreTests /\ ~SimpleTest
    /\ test_idx' = test_idx + 1
    /\ UNCHANGED <<jobVars, stage, phase, swdVars, loopVars, flash>>

(* No more tests, or none supported: reset_target() pulses nRST, which state does not see. *)
ResetTarget ==
    /\ stage = "test"
    /\ phase = "start"
    /\ ~MoreTests \/ (SimpleTest /\ ~has("pc_verify"))
    /\ core' = "reset"
    /\ Goto("post")
    /\ UNCHANGED <<jobVars, state, stack_bottom, canary, intact, loopVars, flash, test_idx>>

(* on_post_program(): another session, the post-program steps, release_transport(). *)
PostProgram ==
    /\ stage = "post"
    /\ core' = "reset"
    /\ Fail
    /\ UNCHANGED <<jobVars, state, stack_bottom, canary, intact, loopVars, flash, test_idx>>

Erase == EraseStart \/ EraseUnsupported \/ EraseCall \/ EraseCallFail \/ EraseEnd
Program == ProgramStart \/ FillBuffer \/ WaitPage \/ ExecPage \/ PageDone \/ ProgramEnd \/ ProgramFail
Test == TestStart \/ TestCall \/ TestSkip \/ ResetTarget

Next == SetJob \/ BeginSession \/ RunOver \/ SwdInit \/ SwdInitFail \/ Erase \/ Program \/ TargetPrograms
        \/ Verify \/ Test \/ PostProgram

Spec == Init /\ [][Next]_vars

-------------------------------------------------------------------------------
(* The phases in which a function of the algorithm runs, and the mode it needs. *)
Needs(mode) ==
    IF mode = "PROGRAM" THEN stage = "program" /\ phase # "start"
    ELSE stage \in {"erase", "sector", "test"} /\ phase # "start"

(* What init() adds up for the job stays below 2^32. *)
NoWrap == fa.load_address + fa.algo_bin_len + 2 * fa.page_size + 2 * StackSize + 16 < Word

(***************************************************************************)
(* No function of the flash algorithm is called unless the algorithm is in *)
(* the target's RAM and Init() was called for that kind of operation since *)
(* the last reset, although failed calls, self tests and resets leave      *)
(* swd_prog::state behind the target; and the canary run_algo_uninit()     *)
(* will compare is the one at stack_bottom, which is not in the midst of   *)
(* the algorithm although init() writes it to the stack of the job before. *)
(***************************************************************************)
CallsAreInitialised ==
    \A mode \in Mode : Needs(mode) => core = mode /\ canary /\ (NoWrap => intact)

(***************************************************************************)
(* Double buffering never mixes pages: a page of flash holds its own page  *)
(* of the file or bytes fread() did not deliver; and when program_file()   *)
(* succeeds every page has been written and no call is under way.          *)
(***************************************************************************)
PagesInOrder ==
    /\ \A p \in Page : flash[p] \in {p, Bad, Erased}
    /\ stage = "verify" => ~call.busy /\ \A p \in Page : flash[p] # Erased

(***************************************************************************)
(* After a successful init() the algorithm and its stack lie inside the    *)
(* RAM region the algorithm is linked to, for every job that decode_job()  *)
(* accepts, whose sizes do not wrap and whose pages are whole words: two   *)
(* roundings up to 8 may need more than the check's 8 bytes of "alignment  *)
(* slack" when they are not.                                               *)
(***************************************************************************)
StackInRam ==
    stage \notin {"idle", "over", "detect"} /\ NoWrap /\ fa.page_size % 4 = 0 =>
        /\ ram.start <= fa.load_address
        /\ code_end <= stack_bottom
        /\ stack_bottom + StackSize <= ram.end

(***************************************************************************)
(* swd_prog::init(): "everything swd_prog places in this region must fit - *)
(* the algorithm blob, the stack, and the RAM page buffer(s) above the     *)
(* stack".  No page is written outside the region.                         *)
(***************************************************************************)
PageBufferInRam ==
    stage = "program" /\ phase \in {"wait", "exec", "end"} /\ NoWrap => page_buffer(1) <= ram.end

===============================================================================
