------------------------------ MODULE JobDecoder ------------------------------
(***************************************************************************)
(* job_decoder and the part of fw_asset_manager that owns its result: a    *)
(* job file is decoded, validated and published into the one target_config *)
(* that the backends read.  The same cfg is filled again for every job, of *)
(* either target family.                                                   *)
(*                                                                         *)
(* A file is what nanopb finds in it: a record of JobFile.  `target` is    *)
(* the set of families it describes ({} without a target at all), `blobs`  *)
(* the lengths of its algorithm.instructions fields, `entries` the         *)
(* optional fields of the algorithm that are present, `flash_size_kb` the  *)
(* set of its value, {} when it is absent.                                 *)
(*                                                                         *)
(* Which file is activated when, and whether its images verify, is         *)
(* FwAssetManager's part; here any file may come next.                     *)
(***************************************************************************)
EXTENDS Integers, Sequences

CONSTANTS Word,              \* 2^32: addresses and sizes are uint32_t
          MAX_RAM_REGIONS,
          JobFile            \* the job files the host may send

Uint32 == 0..Word - 1
Family == {"cortex_m", "esp32"}
Optional == {"pc_init", "pc_uninit", "pc_program_page", "pc_erase_sector", "pc_erase_all",
             "pc_verify", "data_section_offset", "flash_start", "flash_end"}
TestType == 0..2
Region == [start : Uint32, end : Uint32]

ASSUME DecoderAssumption ==
    /\ Word \in Nat \ {0} /\ MAX_RAM_REGIONS \in Nat
    /\ \A f \in JobFile :
          /\ f.parses \in BOOLEAN /\ f.current_schema \in BOOLEAN
          /\ f.target \subseteq Family
          /\ f.blobs \in Seq(Uint32) /\ (f.blobs # <<>> => "cortex_m" \in f.target)
          /\ f.load_address \in Uint32 /\ f.page_size \in Uint32 /\ f.flash_len \in Uint32
          /\ f.entries \subseteq Optional
          /\ \A i \in DOMAIN f.memory_map :
                f.memory_map[i] \in [kind : {"RAM", "NVM"}, start : Uint32, end : Uint32]
          /\ f.baud \in Nat /\ f.images \in Seq(Uint32)
          /\ \E kb \in Uint32 : f.flash_size_kb \in {{}, {kb}}
          /\ f.reset_assert_high \in BOOLEAN /\ f.boot_assert_high \in BOOLEAN
          /\ f.self_tests \in Seq(Nat)

-------------------------------------------------------------------------------
(***************************************************************************)
(* Decoding and validation.                                                *)
(***************************************************************************)

(* decode_algo_blob(): "Present at most once and never empty." *)
decode_algo_blob(f) == Len(f.blobs) <= 1 /\ \A i \in DOMAIN f.blobs : f.blobs[i] > 0

(* The first field is allocated even if the file is refused for a later one. *)
BlobAllocated(f) == f.blobs # <<>> /\ f.blobs[1] > 0

(* decode_file() *)
decode_file(f) == f.parses /\ decode_algo_blob(f)

IsRam(r) == r.kind = "RAM"
RamRegions(f) ==
    LET ram == SelectSeq(f.memory_map, IsRam)
    IN  [i \in DOMAIN ram |-> [start |-> ram[i].start, end |-> ram[i].end]]

(* What DecoderAssumption says of memory_map, said of the entries SelectSeq picks from it. *)
ASSUME RegionAssumption == \A f \in JobFile : RamRegions(f) \in Seq(Region)

validate_regions(f) ==
    /\ \A i \in DOMAIN f.memory_map : f.memory_map[i].start < f.memory_map[i].end
    /\ Len(RamRegions(f)) <= MAX_RAM_REGIONS

validate_cortex_m(f) == f.blobs # <<>> /\ f.page_size # 0 /\ validate_regions(f)

validate_esp32(f) == f.chip # "" /\ f.baud # 0 /\ f.images # <<>>

validate_self_tests(f) == \A i \in DOMAIN f.self_tests : f.self_tests[i] \in TestType

(* validate_procedure(), for the pre-program and the post-program steps. *)
validate_procedure(steps) == \A i \in DOMAIN steps : steps[i] # "unknown"

(* validate_job(): "job must describe exactly one target family". *)
validate_job(f) ==
    /\ f.current_schema
    /\ f.target \in {{"cortex_m"}, {"esp32"}}
    /\ validate_self_tests(f)
    /\ validate_procedure(f.pre_program) /\ validate_procedure(f.post_program)
    /\ IF "cortex_m" \in f.target THEN validate_cortex_m(f) ELSE validate_esp32(f)

-------------------------------------------------------------------------------
(***************************************************************************)
(* Publishing into target_config.  The arrays are kept up to their counts, *)
(* past which nobody reads; nobody reads the generation either.            *)
(***************************************************************************)
Null == 0   \* a null pointer
DefaultBaud == 115200

NoAlgo == [load_address |-> 0, page_size |-> 0, flash_len |-> 0, entries |-> {},
           algo_bin |-> Null, algo_bin_len |-> 0]

(* target_config as it is constructed. *)
DefaultConfig ==
    [family |-> "cortex_m", variant_name |-> "", tests |-> <<>>,
     has_algo |-> FALSE, algo |-> NoAlgo, ram_regions |-> <<>>,
     chip |-> "", flash_size_kb |-> {}, baud |-> DefaultBaud,
     reset_assert_level |-> "low", boot_assert_level |-> "low", images |-> <<>>]

fill_algorithm(f, bin, c) ==
    [c EXCEPT !.algo = [load_address |-> f.load_address, page_size |-> f.page_size,
                        flash_len |-> f.flash_len, entries |-> f.entries,
                        algo_bin |-> bin, algo_bin_len |-> f.blobs[1]]]

fill_ram_regions(f, c) == [c EXCEPT !.ram_regions = RamRegions(f)]

assert_level(high) == IF high THEN "high" ELSE "low"

fill_esp32(f, c) ==
    [c EXCEPT !.chip = f.chip, !.flash_size_kb = f.flash_size_kb, !.baud = f.baud,
              !.reset_assert_level = assert_level(f.reset_assert_high),
              !.boot_assert_level = assert_level(f.boot_assert_high), !.images = f.images]

clear_cortex_m(c) == [c EXCEPT !.has_algo = FALSE, !.algo = NoAlgo, !.ram_regions = <<>>]

(* Mutant: the ESP32 fields of the previous job stay. *)
keep_esp32(c) == c

clear_esp32(c) ==
    [c EXCEPT !.chip = "", !.flash_size_kb = {}, !.baud = DefaultBaud,
              !.reset_assert_level = "low", !.boot_assert_level = "low", !.images = <<>>]

fill_self_tests(f, c) == [c EXCEPT !.tests = f.self_tests]

fill_target_config(f, bin, c) ==
    LET named == fill_self_tests(f, [c EXCEPT !.variant_name = f.variant_name])
    IN  IF "cortex_m" \in f.target
        THEN clear_esp32(fill_ram_regions(f, fill_algorithm(f, bin,
                 [named EXCEPT !.family = "cortex_m", !.has_algo = TRUE])))
        ELSE fill_esp32(f, clear_cortex_m([named EXCEPT !.family = "esp32"]))

-------------------------------------------------------------------------------
(***************************************************************************)
(* target_config's own functions.                                          *)
(***************************************************************************)

(* ram_region::contains_range() *)
contains_range(r, addr, len) == r.start <= addr /\ addr <= r.end /\ len <= r.end - addr

(* algo_ram_region(): the first region that holds the algorithm, if there is one. *)
AlgoRegions(c) ==
    {i \in DOMAIN c.ram_regions : contains_range(c.ram_regions[i], c.algo.load_address, c.algo.algo_bin_len)}
has_algo_ram_region(c) == c.has_algo /\ AlgoRegions(c) # {}
algo_ram_region(c) == c.ram_regions[CHOOSE i \in AlgoRegions(c) : \A k \in AlgoRegions(c) : i <= k]

-------------------------------------------------------------------------------
VARIABLES cfg,       \* fw_asset_manager::cfg
          active,    \* job and algo_bin_storage: the published job
          decoded,   \* activate_staged(): the decoded job that is being installed
          heap       \* the buffers allocated for jobs and algorithms

jobVars == <<cfg, active, decoded, heap>>

(* A job and the job being installed have at most two buffers each; one more shows a leak. *)
Buffer == 1..5
NoJob == [file |-> "none", job |-> Null, algo_bin |-> Null]
has_job == active.job # Null

DecoderTypeOK ==
    /\ cfg.family \in Family
    /\ Len(cfg.ram_regions) <= MAX_RAM_REGIONS
    /\ cfg.has_algo => cfg.algo.page_size # 0 /\ cfg.algo.algo_bin_len # 0
    /\ {active.job, active.algo_bin, decoded.job, decoded.algo_bin} \subseteq Buffer \cup {Null}
    /\ heap \subseteq Buffer

DecoderInit ==
    /\ cfg = DefaultConfig
    /\ active = NoJob
    /\ decoded = NoJob
    /\ heap = {}

(* heap_caps_malloc() *)
Unused(h) == Buffer \ h
NewBuffer(h) == CHOOSE b \in Unused(h) : \A c \in Unused(h) : b <= c

(* Mutant: a job that is refused after its algorithm was read keeps the algorithm. *)
freed_by_decode_job_nothing(bin) == {}

(* decode_job() on failure: heap_caps_free(blob.buf). *)
freed_by_decode_job(bin) == {bin}

(***************************************************************************)
(* decode(): the job record and the algorithm are allocated, or that       *)
(* fails; a refused job, or one whose images do not verify, is freed.      *)
(***************************************************************************)
Decode(f) ==
    /\ decoded.job = Null
    /\ \E job \in {NewBuffer(heap)} :
       \E bin \in IF BlobAllocated(f) THEN {Null, NewBuffer(heap \cup {job})} ELSE {Null} :
          LET held == heap \cup ({job, bin} \ {Null})
              read == decode_file(f) /\ validate_job(f) /\ (BlobAllocated(f) => bin # Null)
          IN  \/ /\ read
                 /\ decoded' = [file |-> f, job |-> job, algo_bin |-> bin]
                 /\ heap' = held
              \/ /\ heap' = held \ (IF read THEN {bin, job} ELSE freed_by_decode_job(bin) \cup {job})
                 /\ UNCHANGED decoded
    /\ UNCHANGED <<cfg, active>>

(* activate_staged(): install_file() fails. *)
InstallFails ==
    /\ decoded.job # Null
    /\ heap' = heap \ {decoded.algo_bin, decoded.job}
    /\ decoded' = NoJob
    /\ UNCHANGED <<cfg, active>>

(* publish(), from activate_staged() and from init() at boot. *)
Publish ==
    /\ decoded.job # Null
    /\ heap' = heap \ {active.algo_bin, active.job}
    /\ active' = decoded
    /\ cfg' = fill_target_config(decoded.file, decoded.algo_bin, cfg)
    /\ decoded' = NoJob

-------------------------------------------------------------------------------
(***************************************************************************)
(* fill_target_config(): "Every field of the selected family is rewritten, *)
(* the other family's fields are cleared."  Whatever jobs came before, of  *)
(* whichever family, cfg is what the active job alone would have made it.  *)
(***************************************************************************)
ConfigIsOfJob ==
    has_job => /\ cfg = fill_target_config(active.file, active.algo_bin, DefaultConfig)
               /\ active.file.target = {cfg.family}
               /\ cfg.has_algo <=> cfg.family = "cortex_m"
               /\ cfg.images = <<>> <=> cfg.family = "cortex_m"

(***************************************************************************)
(* decode_job(): "On failure nothing is left allocated".  The heap holds   *)
(* the published job, its algorithm, and a job being installed, however    *)
(* many jobs were refused or replaced; and the algorithm cfg points to is  *)
(* the one that is still allocated.                                        *)
(***************************************************************************)
NoLeak ==
    /\ heap = {active.job, active.algo_bin, decoded.job, decoded.algo_bin} \ {Null}
    /\ cfg.algo.algo_bin = active.algo_bin

===============================================================================
