---------------------------- MODULE SwdProgProofs -----------------------------
(***************************************************************************)
(* Proofs about the job decoder and the SWD programmer, for every set of   *)
(* job files, stack size and number of pages.                              *)
(***************************************************************************)
EXTENDS SwdProg, IntegerFacts, SequenceTheorems

-------------------------------------------------------------------------------
(***************************************************************************)
(* The configuration a job makes, written out.                             *)
(***************************************************************************)
ConfigOf(family, name, tests, has_algo, algo, regions, chip, kb, baud, reset, boot, images) ==
    [family |-> family, variant_name |-> name, tests |-> tests,
     has_algo |-> has_algo, algo |-> algo, ram_regions |-> regions,
     chip |-> chip, flash_size_kb |-> kb, baud |-> baud,
     reset_assert_level |-> reset, boot_assert_level |-> boot, images |-> images]

AlgoOf(f, bin) ==
    [load_address |-> f.load_address, page_size |-> f.page_size, flash_len |-> f.flash_len,
     entries |-> f.entries, algo_bin |-> bin, algo_bin_len |-> f.blobs[1]]

CortexMConfig(f, bin) ==
    ConfigOf("cortex_m", f.variant_name, f.self_tests, TRUE, AlgoOf(f, bin), RamRegions(f),
             "", {}, DefaultBaud, "low", "low", <<>>)

Esp32Config(f) ==
    ConfigOf("esp32", f.variant_name, f.self_tests, FALSE, NoAlgo, <<>>, f.chip, f.flash_size_kb, f.baud,
             assert_level(f.reset_assert_high), assert_level(f.boot_assert_high), f.images)

JobConfig(f, bin) == IF "cortex_m" \in f.target THEN CortexMConfig(f, bin) ELSE Esp32Config(f)

Fields == {"family", "variant_name", "tests", "has_algo", "algo", "ram_regions", "chip", "flash_size_kb", "baud",
           "reset_assert_level", "boot_assert_level", "images"}
IsConfig(c) == c = [x \in Fields |-> c[x]]

(* Two configurations with the same fields are the same. *)
LEMMA SameConfig ==
    ASSUME NEW c, NEW d, IsConfig(c), IsConfig(d), \A x \in Fields : c[x] = d[x]
    PROVE  c = d
<1>1. [x \in Fields |-> c[x]] = [x \in Fields |-> d[x]]
  OBVIOUS
<1>. QED
  BY <1>1, Zenon DEF IsConfig

LEMMA ConfigOfIs ==
    ASSUME NEW fam, NEW n, NEW t, NEW h, NEW a, NEW r, NEW c, NEW kb, NEW b, NEW rl, NEW bl, NEW im
    PROVE  IsConfig(ConfigOf(fam, n, t, h, a, r, c, kb, b, rl, bl, im))
BY DEF IsConfig, ConfigOf, Fields

(* The values put into a configuration, in the order of the two families. *)
PutCortexM(c, fam, n, t, h, a, r, ch, kb, b, rl, bl, im) ==
    [[[[[[c EXCEPT !.variant_name = n] EXCEPT !.tests = t] EXCEPT !.family = fam, !.has_algo = h] EXCEPT
      !.algo = a] EXCEPT !.ram_regions = r] EXCEPT !.chip = ch, !.flash_size_kb = kb, !.baud = b,
      !.reset_assert_level = rl, !.boot_assert_level = bl, !.images = im]

LEMMA FillCortexM ==
    ASSUME NEW c, IsConfig(c), NEW fam, NEW n, NEW t, NEW h, NEW a, NEW r, NEW ch, NEW kb, NEW b,
           NEW rl, NEW bl, NEW im
    PROVE  PutCortexM(c, fam, n, t, h, a, r, ch, kb, b, rl, bl, im)
               = ConfigOf(fam, n, t, h, a, r, ch, kb, b, rl, bl, im)
<1> DEFINE d1 == [c EXCEPT !.variant_name = n]
           d2 == [d1 EXCEPT !.tests = t]
           d3 == [d2 EXCEPT !.family = fam, !.has_algo = h]
           d4 == [d3 EXCEPT !.algo = a]
           d5 == [d4 EXCEPT !.ram_regions = r]
           d6 == [d5 EXCEPT !.chip = ch, !.flash_size_kb = kb, !.baud = b,
      !.reset_assert_level = rl, !.boot_assert_level = bl, !.images = im]
<1>1. IsConfig(d1) /\ d1.variant_name = n
  BY DEF IsConfig, Fields
<1> HIDE DEF d1
<1>2. IsConfig(d2) /\ d2.variant_name = n /\ d2.tests = t
  BY <1>1 DEF IsConfig, Fields
<1> HIDE DEF d2
<1>3. IsConfig(d3) /\ d3.variant_name = n /\ d3.tests = t /\ d3.family = fam
      /\ d3.has_algo = h
  BY <1>2 DEF IsConfig, Fields
<1> HIDE DEF d3
<1>4. IsConfig(d4) /\ d4.variant_name = n /\ d4.tests = t /\ d4.family = fam
      /\ d4.has_algo = h /\ d4.algo = a
  BY <1>3 DEF IsConfig, Fields
<1> HIDE DEF d4
<1>5. IsConfig(d5) /\ d5.variant_name = n /\ d5.tests = t /\ d5.family = fam
      /\ d5.has_algo = h /\ d5.algo = a /\ d5.ram_regions = r
  BY <1>4 DEF IsConfig, Fields
<1> HIDE DEF d5
<1>6. IsConfig(d6) /\ d6.variant_name = n /\ d6.tests = t /\ d6.family = fam
      /\ d6.has_algo = h /\ d6.algo = a /\ d6.ram_regions = r /\ d6.chip = ch /\ d6.flash_size_kb = kb /\ d6.baud = b
      /\ d6.reset_assert_level = rl /\ d6.boot_assert_level = bl /\ d6.images = im
  BY <1>5 DEF IsConfig, Fields
<1> HIDE DEF d6
<1>7. \A x \in Fields : d6[x] = ConfigOf(fam, n, t, h, a, r, ch, kb, b, rl, bl, im)[x]
  BY <1>6 DEF Fields, ConfigOf
<1>8. d6 = ConfigOf(fam, n, t, h, a, r, ch, kb, b, rl, bl, im)
  BY <1>6, <1>7, ConfigOfIs, SameConfig
<1>. QED
  BY <1>8 DEF d1, d2, d3, d4, d5, d6, PutCortexM

PutEsp32(c, fam, n, t, h, a, r, ch, kb, b, rl, bl, im) ==
    [[[[[c EXCEPT !.variant_name = n] EXCEPT !.tests = t] EXCEPT !.family = fam] EXCEPT !.has_algo = h,
      !.algo = a, !.ram_regions = r] EXCEPT !.chip = ch, !.flash_size_kb = kb, !.baud = b,
      !.reset_assert_level = rl, !.boot_assert_level = bl, !.images = im]

LEMMA FillEsp32 ==
    ASSUME NEW c, IsConfig(c), NEW fam, NEW n, NEW t, NEW h, NEW a, NEW r, NEW ch, NEW kb, NEW b,
           NEW rl, NEW bl, NEW im
    PROVE  PutEsp32(c, fam, n, t, h, a, r, ch, kb, b, rl, bl, im)
               = ConfigOf(fam, n, t, h, a, r, ch, kb, b, rl, bl, im)
<1> DEFINE d1 == [c EXCEPT !.variant_name = n]
           d2 == [d1 EXCEPT !.tests = t]
           d3 == [d2 EXCEPT !.family = fam]
           d4 == [d3 EXCEPT !.has_algo = h, !.algo = a, !.ram_regions = r]
           d5 == [d4 EXCEPT !.chip = ch, !.flash_size_kb = kb, !.baud = b,
      !.reset_assert_level = rl, !.boot_assert_level = bl, !.images = im]
<1>1. IsConfig(d1) /\ d1.variant_name = n
  BY DEF IsConfig, Fields
<1> HIDE DEF d1
<1>2. IsConfig(d2) /\ d2.variant_name = n /\ d2.tests = t
  BY <1>1 DEF IsConfig, Fields
<1> HIDE DEF d2
<1>3. IsConfig(d3) /\ d3.variant_name = n /\ d3.tests = t /\ d3.family = fam
  BY <1>2 DEF IsConfig, Fields
<1> HIDE DEF d3
<1>4. IsConfig(d4) /\ d4.variant_name = n /\ d4.tests = t /\ d4.family = fam
      /\ d4.has_algo = h /\ d4.algo = a /\ d4.ram_regions = r
  BY <1>3 DEF IsConfig, Fields
<1> HIDE DEF d4
<1>5. IsConfig(d5) /\ d5.variant_name = n /\ d5.tests = t /\ d5.family = fam
      /\ d5.has_algo = h /\ d5.algo = a /\ d5.ram_regions = r /\ d5.chip = ch /\ d5.flash_size_kb = kb /\ d5.baud = b
      /\ d5.reset_assert_level = rl /\ d5.boot_assert_level = bl /\ d5.images = im
  BY <1>4 DEF IsConfig, Fields
<1> HIDE DEF d5
<1>6. \A x \in Fields : d5[x] = ConfigOf(fam, n, t, h, a, r, ch, kb, b, rl, bl, im)[x]
  BY <1>5 DEF Fields, ConfigOf
<1>7. d5 = ConfigOf(fam, n, t, h, a, r, ch, kb, b, rl, bl, im)
  BY <1>5, <1>6, ConfigOfIs, SameConfig
<1>. QED
  BY <1>7 DEF d1, d2, d3, d4, d5, PutEsp32

(* fill_target_config() leaves nothing of the configuration it is given. *)
LEMMA FillIsJobConfig ==
    ASSUME NEW f, NEW bin, NEW c, IsConfig(c)
    PROVE  fill_target_config(f, bin, c) = JobConfig(f, bin)
<1> DEFINE yes == TRUE
           no == FALSE
           blank == ""
           low == "low"
           reset == assert_level(f.reset_assert_high)
           boot == assert_level(f.boot_assert_high)
<1>1. CASE "cortex_m" \in f.target
  <2>1. fill_target_config(f, bin, c) = PutCortexM(c, "cortex_m", f.variant_name, f.self_tests, yes,
                                                   AlgoOf(f, bin), RamRegions(f),
                                                   blank, {}, DefaultBaud, low, low, <<>>)
    BY <1>1, Zenon DEF fill_target_config, fill_self_tests, fill_algorithm, fill_ram_regions, clear_esp32,
                AlgoOf, PutCortexM
  <2>2. JobConfig(f, bin) = ConfigOf("cortex_m", f.variant_name, f.self_tests, yes,
                                     AlgoOf(f, bin), RamRegions(f), blank, {}, DefaultBaud, low, low, <<>>)
    BY <1>1, Zenon DEF CortexMConfig, JobConfig
  <2> HIDE DEF yes, blank, low
  <2>. QED
    BY <2>1, <2>2, FillCortexM
<1>2. CASE "cortex_m" \notin f.target
  <2>1. fill_target_config(f, bin, c) = PutEsp32(c, "esp32", f.variant_name, f.self_tests, no,
                                                 NoAlgo, <<>>, f.chip, f.flash_size_kb, f.baud, reset, boot, f.images)
    BY <1>2, Zenon DEF fill_target_config, fill_self_tests, clear_cortex_m, fill_esp32, PutEsp32
  <2>2. JobConfig(f, bin) = ConfigOf("esp32", f.variant_name, f.self_tests, no,
                                     NoAlgo, <<>>, f.chip, f.flash_size_kb, f.baud, reset, boot, f.images)
    BY <1>2, Zenon DEF Esp32Config, JobConfig
  <2> HIDE DEF no, reset, boot
  <2>. QED
    BY <2>1, <2>2, FillEsp32
<1>. QED
  BY <1>1, <1>2

LEMMA AllAreConfigs ==
    ASSUME NEW f, NEW bin
    PROVE  IsConfig(DefaultConfig) /\ IsConfig(JobConfig(f, bin))
<1>1. DefaultConfig = ConfigOf("cortex_m", "", <<>>, FALSE, NoAlgo, <<>>,
                                 "", {}, DefaultBaud, "low", "low", <<>>)
  BY Zenon DEF DefaultConfig, ConfigOf
<1>2. IsConfig(CortexMConfig(f, bin)) /\ IsConfig(Esp32Config(f))
  BY ConfigOfIs, Zenon DEF CortexMConfig, Esp32Config
<1>. QED
  BY <1>1, <1>2, ConfigOfIs, Zenon DEF JobConfig

-------------------------------------------------------------------------------
(***************************************************************************)
(* The decoder.  The published configuration is the one of the active job; *)
(* the active job and the one being installed own different buffers, and   *)
(* together all that are allocated.                                        *)
(***************************************************************************)
Accepted(f) == f \in JobFile /\ decode_file(f) /\ validate_job(f)

JobInv ==
    /\ active.job = Null => active = NoJob /\ cfg = DefaultConfig
    /\ active.job # Null => /\ Accepted(active.file)
                            /\ active.algo_bin # Null <=> BlobAllocated(active.file)
                            /\ cfg = JobConfig(active.file, active.algo_bin)
    /\ decoded.job = Null => decoded = NoJob
    /\ decoded.job # Null => /\ Accepted(decoded.file)
                             /\ decoded.algo_bin # Null <=> BlobAllocated(decoded.file)

HeapInv ==
    /\ {active.job, active.algo_bin, decoded.job, decoded.algo_bin} \subseteq Buffer \cup {Null}
    /\ heap = {active.job, active.algo_bin, decoded.job, decoded.algo_bin} \ {Null}
    /\ {active.job, active.algo_bin} \cap {decoded.job, decoded.algo_bin} \subseteq {Null}

LEMMA CortexMFields ==
    ASSUME NEW f, NEW bin
    PROVE  LET c == CortexMConfig(f, bin) IN
           /\ c.family = "cortex_m" /\ c.has_algo /\ c.algo = AlgoOf(f, bin)
           /\ c.tests = f.self_tests /\ c.ram_regions = RamRegions(f) /\ c.images = <<>>
BY DEF CortexMConfig, ConfigOf

LEMMA Esp32Fields ==
    ASSUME NEW f
    PROVE  LET c == Esp32Config(f) IN
           /\ c.family = "esp32" /\ ~c.has_algo /\ c.algo = NoAlgo
           /\ c.tests = f.self_tests /\ c.ram_regions = <<>> /\ c.images = f.images
BY DEF Esp32Config, ConfigOf

LEMMA DefaultFields ==
    /\ DefaultConfig.family = "cortex_m" /\ ~DefaultConfig.has_algo /\ DefaultConfig.algo = NoAlgo
    /\ DefaultConfig.tests = <<>> /\ DefaultConfig.ram_regions = <<>>
BY DEF DefaultConfig

(* An accepted job has one family, and an algorithm exactly if that is Cortex-M. *)
LEMMA AcceptedFacts ==
    ASSUME NEW f, Accepted(f)
    PROVE  \/ /\ f.target = {"cortex_m"} /\ BlobAllocated(f) /\ f.blobs[1] \in Uint32
              /\ f.page_size # 0 /\ Len(RamRegions(f)) <= MAX_RAM_REGIONS
           \/ /\ f.target = {"esp32"} /\ ~BlobAllocated(f) /\ f.images # <<>>
<1>1. f.target \in {{"cortex_m"}, {"esp32"}} /\ decode_algo_blob(f) /\ f \in JobFile
  BY DEF Accepted, decode_file, validate_job
<1>2. f.blobs \in Seq(Uint32) /\ (f.blobs # <<>> => "cortex_m" \in f.target)
  BY <1>1, DecoderAssumption
<1>3. CASE f.target = {"cortex_m"}
  <2>1. f.blobs # <<>> /\ f.page_size # 0 /\ Len(RamRegions(f)) <= MAX_RAM_REGIONS
    BY <1>3 DEF Accepted, validate_job, validate_cortex_m, validate_regions
  <2>2. Len(f.blobs) \in Nat /\ Len(f.blobs) # 0 /\ DOMAIN f.blobs = 1..Len(f.blobs)
    BY <1>2, <2>1, LenProperties, EmptySeq
  <2>3. 1 \in DOMAIN f.blobs /\ 1 \in 1..Len(f.blobs)
    BY <2>2
  <2>4. f.blobs[1] > 0 /\ f.blobs[1] \in Uint32
    BY <1>1, <1>2, <2>3, ElementOfSeq DEF decode_algo_blob
  <2>. QED
    BY <1>3, <2>1, <2>4 DEF BlobAllocated
<1>4. CASE f.target = {"esp32"}
  <2>1. "cortex_m" \notin f.target
    BY <1>4
  <2>2. f.images # <<>>
    BY <2>1 DEF Accepted, validate_job, validate_esp32
  <2>. QED
    BY <1>2, <1>4, <2>1, <2>2 DEF BlobAllocated
<1>. QED
  BY <1>1, <1>3, <1>4

(* What the programmer reads of the configuration is well-typed, whatever was published. *)
LEMMA ConfigTyped ==
    ASSUME JobInv
    PROVE  /\ cfg.family \in Family /\ cfg.tests \in Seq(Nat)
           /\ cfg.ram_regions \in Seq(Region) /\ Len(cfg.ram_regions) <= MAX_RAM_REGIONS
           /\ fa.load_address \in Uint32 /\ fa.page_size \in Uint32 /\ fa.algo_bin_len \in Uint32
           /\ cfg.has_algo => cfg.algo.page_size # 0 /\ cfg.algo.algo_bin_len # 0
<1>0. /\ 0 \in Uint32 /\ MAX_RAM_REGIONS \in Nat
      /\ <<>> \in Seq(Region) /\ <<>> \in Seq(Nat) /\ Len(<<>>) = 0
  BY DecoderAssumption DEF Uint32
<1>a. NoAlgo.load_address = 0 /\ NoAlgo.page_size = 0 /\ NoAlgo.algo_bin_len = 0
  BY DEF NoAlgo
<1>1. CASE active.job = Null
  <2>1. cfg = DefaultConfig
    BY <1>1 DEF JobInv
  <2>. QED
    BY <1>0, <1>a, <2>1, DefaultFields DEF fa, Family
<1>2. CASE active.job # Null
  <2> DEFINE f == active.file
  <2>1. Accepted(f) /\ f \in JobFile /\ cfg = JobConfig(f, active.algo_bin)
    BY <1>2 DEF JobInv, Accepted
  <2>2. f.self_tests \in Seq(Nat) /\ RamRegions(f) \in Seq(Region)
        /\ f.load_address \in Uint32 /\ f.page_size \in Uint32
    BY <2>1, DecoderAssumption, RegionAssumption
  <2> HIDE DEF f
  <2>3. CASE f.target = {"cortex_m"}
    <3>1. cfg = CortexMConfig(f, active.algo_bin)
      BY <2>1, <2>3 DEF JobConfig
    <3>2. BlobAllocated(f) /\ f.blobs[1] \in Uint32 /\ f.page_size # 0 /\ Len(RamRegions(f)) <= MAX_RAM_REGIONS
      BY <2>1, <2>3, AcceptedFacts
    <3>3. f.blobs[1] # 0
      BY <3>2 DEF BlobAllocated, Uint32
    <3>4. fa.load_address = f.load_address /\ fa.page_size = f.page_size /\ fa.algo_bin_len = f.blobs[1]
      <4>1. fa = AlgoOf(f, active.algo_bin)
        BY <3>1, CortexMFields DEF fa
      <4>. QED
        BY <4>1 DEF AlgoOf
    <3>. QED
      BY <2>2, <3>1, <3>2, <3>3, <3>4, CortexMFields DEF Family, fa
  <2>4. CASE f.target = {"esp32"}
    <3>1. cfg = Esp32Config(f)
      BY <2>1, <2>4 DEF JobConfig
    <3>2. cfg.family = "esp32" /\ ~cfg.has_algo /\ cfg.algo = NoAlgo /\ cfg.tests = f.self_tests
          /\ cfg.ram_regions = <<>>
      BY <3>1, Esp32Fields, Zenon
    <3>. QED
      BY <1>0, <1>a, <2>2, <3>2 DEF fa, Family
  <2>. QED
    BY <2>1, <2>3, <2>4, AcceptedFacts
<1>. QED
  BY <1>1, <1>2

LEMMA FreshBuffer ==
    ASSUME NEW h, Unused(h) # {}
    PROVE  NewBuffer(h) \in Buffer /\ NewBuffer(h) \notin h /\ NewBuffer(h) # Null
<1>1. Unused(h) \subseteq Nat
  BY DEF Unused, Buffer
<1>2. \E b \in Unused(h) : \A c \in Unused(h) : b <= c
  BY <1>1, Least
<1>3. NewBuffer(h) \in Unused(h)
  BY <1>2 DEF NewBuffer
<1>. QED
  BY <1>3 DEF Unused, Buffer, Null

(* decode(): two free buffers, both owned by the decoded job or both given back. *)
LEMMA DecodeStep ==
    ASSUME JobInv, HeapInv, NEW f \in JobFile, Decode(f)
    PROVE  JobInv' /\ HeapInv'
<1>0. Null \notin Buffer
  BY DEF Null, Buffer
<1>1. decoded = NoJob /\ decoded.job = Null /\ decoded.algo_bin = Null
      /\ heap = {active.job, active.algo_bin} \ {Null} /\ UNCHANGED <<cfg, active>>
  BY DEF Decode, JobInv, HeapInv, NoJob
<1> DEFINE job == NewBuffer(heap)
<1>2. job \in Buffer /\ job \notin heap
  <2>1. Unused(heap) # {}
    BY <1>1 DEF Unused, Buffer
  <2>. QED
    BY <2>1, FreshBuffer
<1>3. NewBuffer(heap \cup {job}) \in Buffer /\ NewBuffer(heap \cup {job}) \notin heap \cup {job}
  <2>1. Unused(heap \cup {job}) # {}
    BY <1>1, <1>2 DEF Unused, Buffer
  <2>. QED
    BY <2>1, FreshBuffer
<1>4. PICK bin \in IF BlobAllocated(f) THEN {Null, NewBuffer(heap \cup {job})} ELSE {Null} :
          LET held == heap \cup ({job, bin} \ {Null})
              read == decode_file(f) /\ validate_job(f) /\ (BlobAllocated(f) => bin # Null)
          IN  \/ /\ read
                 /\ decoded' = [file |-> f, job |-> job, algo_bin |-> bin]
                 /\ heap' = held
              \/ /\ heap' = held \ (IF read THEN {bin, job} ELSE freed_by_decode_job(bin) \cup {job})
                 /\ UNCHANGED decoded
  BY DEF Decode
<1> HIDE DEF job
<1>5. bin \in Buffer \cup {Null} /\ bin \notin heap /\ bin # job /\ (bin # Null => BlobAllocated(f))
  BY <1>0, <1>1, <1>2, <1>3, <1>4
<1>6. CASE /\ decode_file(f) /\ validate_job(f) /\ (BlobAllocated(f) => bin # Null)
           /\ decoded' = [file |-> f, job |-> job, algo_bin |-> bin]
           /\ heap' = heap \cup ({job, bin} \ {Null})
  <2>1. decoded'.file = f /\ decoded'.job = job /\ decoded'.algo_bin = bin
    BY <1>6
  <2>2. job # Null /\ Accepted(f) /\ (bin # Null <=> BlobAllocated(f))
    BY <1>0, <1>2, <1>5, <1>6 DEF Accepted
  <2>3. JobInv'
    BY <1>1, <2>1, <2>2 DEF JobInv
  <2>4. HeapInv'
    BY <1>1, <1>2, <1>5, <1>6, <2>1 DEF HeapInv
  <2>. QED
    BY <2>3, <2>4
<1>7. CASE heap' = heap /\ UNCHANGED decoded
  BY <1>1, <1>7 DEF JobInv, HeapInv
<1>8. (heap \cup ({job, bin} \ {Null})) \ {bin, job} = heap
  BY <1>1, <1>2, <1>5
<1>. QED
  BY <1>4, <1>6, <1>7, <1>8 DEF freed_by_decode_job

(* A job that is not installed goes, and so does the one a published job replaces. *)
LEMMA InstallStep ==
    ASSUME JobInv, HeapInv, InstallFails \/ Publish
    PROVE  JobInv' /\ HeapInv'
<1>0. NoJob.job = Null /\ NoJob.algo_bin = Null
  BY DEF NoJob
<1>1. CASE InstallFails
  <2>1. decoded' = NoJob /\ heap' = heap \ {decoded.algo_bin, decoded.job} /\ UNCHANGED <<cfg, active>>
    BY <1>1 DEF InstallFails
  <2>2. JobInv'
    BY <1>0, <2>1 DEF JobInv
  <2>3. HeapInv'
    BY <1>0, <2>1 DEF HeapInv
  <2>. QED
    BY <2>2, <2>3
<1>2. CASE Publish
  <2>1. /\ decoded.job # Null /\ heap' = heap \ {active.algo_bin, active.job} /\ active' = decoded
        /\ cfg' = fill_target_config(decoded.file, decoded.algo_bin, cfg) /\ decoded' = NoJob
    BY <1>2 DEF Publish
  <2>2. IsConfig(cfg)
    BY AllAreConfigs DEF JobInv
  <2>3. cfg' = JobConfig(decoded.file, decoded.algo_bin)
    BY <2>1, <2>2, FillIsJobConfig
  <2>4. JobInv'
    BY <1>0, <2>1, <2>3 DEF JobInv
  <2>5. HeapInv'
    BY <1>0, <2>1 DEF HeapInv
  <2>. QED
    BY <2>4, <2>5
<1>. QED
  BY <1>1, <1>2

(* The two invariants say what fill_target_config() and decode_job() promise. *)
LEMMA DecoderPromises ==
    ASSUME JobInv, HeapInv
    PROVE  ConfigIsOfJob /\ NoLeak /\ DecoderTypeOK
<1>1. ConfigIsOfJob
  <2> SUFFICES ASSUME active.job # Null
               PROVE  /\ cfg = fill_target_config(active.file, active.algo_bin, DefaultConfig)
                      /\ active.file.target = {cfg.family}
                      /\ cfg.has_algo <=> cfg.family = "cortex_m"
                      /\ cfg.images = <<>> <=> cfg.family = "cortex_m"
    BY DEF ConfigIsOfJob, has_job
  <2> DEFINE f == active.file
             bin == active.algo_bin
  <2>1. Accepted(f) /\ cfg = JobConfig(f, bin)
    BY DEF JobInv
  <2> HIDE DEF f, bin
  <2>2. cfg = fill_target_config(f, bin, DefaultConfig)
    BY <2>1, AllAreConfigs, FillIsJobConfig
  <2>3. CASE f.target = {"cortex_m"}
    <3>1. cfg = CortexMConfig(f, bin)
      BY <2>1, <2>3 DEF JobConfig
    <3>2. cfg.family = "cortex_m" /\ cfg.has_algo /\ cfg.images = <<>>
      BY <3>1, CortexMFields, Zenon
    <3>. QED
      BY <2>2, <2>3, <3>2 DEF f, bin
  <2>4. CASE f.target = {"esp32"}
    <3>1. cfg = Esp32Config(f)
      BY <2>1, <2>4 DEF JobConfig
    <3>2. cfg.family = "esp32" /\ ~cfg.has_algo /\ cfg.images = f.images
      BY <3>1, Esp32Fields, Zenon
    <3>3. "cortex_m" # "esp32" /\ f.images # <<>>
      BY <2>1, <2>4, AcceptedFacts
    <3>. QED
      BY <2>2, <2>4, <3>2, <3>3 DEF f, bin
  <2>. QED
    BY <2>1, <2>3, <2>4, AcceptedFacts
<1>2. cfg.algo.algo_bin = active.algo_bin
  <2>1. NoAlgo.algo_bin = Null /\ NoJob.algo_bin = Null
    BY DEF NoAlgo, NoJob
  <2>2. CASE active.job = Null
    BY <2>1, <2>2, DefaultFields DEF JobInv
  <2>3. CASE active.job # Null
    <3> DEFINE f == active.file
               bin == active.algo_bin
    <3>1. Accepted(f) /\ cfg = JobConfig(f, bin) /\ (bin # Null <=> BlobAllocated(f))
      BY <2>3 DEF JobInv
    <3> HIDE DEF f, bin
    <3>2. CASE f.target = {"cortex_m"}
      <4>1. cfg = CortexMConfig(f, bin)
        BY <3>1, <3>2 DEF JobConfig
      <4>2. cfg.algo = AlgoOf(f, bin)
        BY <4>1, CortexMFields, Zenon
      <4>. QED
        BY <4>2 DEF AlgoOf, bin
    <3>3. CASE f.target = {"esp32"}
      <4>1. cfg = Esp32Config(f)
        BY <3>1, <3>3 DEF JobConfig
      <4>2. cfg.algo = NoAlgo
        BY <4>1, Esp32Fields, Zenon
      <4>3. bin = Null
        BY <3>1, <3>3, AcceptedFacts
      <4>. QED
        BY <2>1, <4>2, <4>3 DEF bin
    <3>. QED
      BY <3>1, <3>2, <3>3, AcceptedFacts
  <2>. QED
    BY <2>2, <2>3
<1>3. NoLeak
  BY <1>2 DEF NoLeak, HeapInv
<1>4. heap \subseteq Buffer
  BY DEF HeapInv
<1>5. DecoderTypeOK
  BY <1>4, ConfigTyped DEF DecoderTypeOK, HeapInv
<1>. QED
  BY <1>1, <1>3, <1>5

LEMMA DecoderTyped == JobInv /\ HeapInv => DecoderTypeOK
BY DecoderPromises

-------------------------------------------------------------------------------
(***************************************************************************)
(* The programmer.  While a function of the algorithm may be called, the   *)
(* algorithm is loaded and was Init()ed for that kind of call.             *)
(***************************************************************************)
InitedInv ==
    /\ stage \in {"erase", "sector", "test"} /\ state = "INITED" =>
           core = "ERASE" /\ canary /\ (NoWrap => intact)
    /\ stage \in {"erase", "sector", "test"} /\ phase # "start" => state = "INITED"
    /\ stage = "program" /\ phase # "start" => core = "PROGRAM" /\ canary /\ (NoWrap => intact)
    /\ (stage = "program" /\ phase = "start") \/ stage = "verify" => state # "INITED"
    /\ stage = "test" /\ phase # "start" => SimpleTest

(* After init() the stack is where the job puts it, until another job is published. *)
LayoutInv ==
    stage \notin {"idle", "over", "detect"} => Placeable /\ stack_bottom = new_stack_bottom

(* The programming loop: what is written, what is being written, and from which buffer. *)
LoopInv ==
    /\ phase \in {"fill", "wait", "exec", "end"}
    /\ \A p \in 0..page_idx - 1 : flash[p] # Erased \/ (call.busy /\ call.page = p)
    /\ phase \in {"fill", "wait"} /\ call.busy => double_buffered /\ call.buf # curr_buf
    /\ phase = "exec" => ~call.busy
    /\ phase \in {"wait", "exec"} => page_idx < Pages /\ buf[curr_buf] \in {page_idx, Bad}

PageInv ==
    /\ call.busy => stage \in {"program", "over"} /\ buf[call.buf] \in {call.page, Bad}
    /\ stage = "program" /\ phase = "start" => ~call.busy
    /\ stage = "program" /\ phase # "start" => LoopInv

IInv == SwdTypeOK /\ JobInv /\ HeapInv /\ InitedInv /\ LayoutInv /\ PageInv /\ PagesInOrder

(***************************************************************************)
(* Where things lie in target RAM, when nothing wraps.                     *)
(***************************************************************************)
LEMMA MultipleOf8 ==
    ASSUME NEW x \in Nat, x + 7 < Word
    PROVE  /\ next_multiple_of(x, 8) = ((x + 8 - 1) \div 8) * 8
           /\ next_multiple_of(x, 8) \in Nat /\ x <= next_multiple_of(x, 8)
           /\ next_multiple_of(x, 8) <= x + 7 /\ next_multiple_of(x, 8) % 8 = 0
<1>1. x + 8 - 1 \in 0..Word - 1 /\ Word \in Nat \ {0}
  BY DecoderAssumption
<1>2. (x + 8 - 1) % Word = x + 8 - 1
  BY <1>1, ModSmall
<1>3. next_multiple_of(x, 8) = ((x + 8 - 1) \div 8) * 8
  BY <1>2 DEF next_multiple_of
<1>4. /\ ((x + 8 - 1) \div 8) * 8 \in Nat /\ x <= ((x + 8 - 1) \div 8) * 8
      /\ ((x + 8 - 1) \div 8) * 8 < x + 8
  BY RoundUp
<1>5. (((x + 8 - 1) \div 8) * 8) % 8 = 0
  OBVIOUS
<1>. QED
  BY <1>3, <1>4, <1>5

LEMMA Layout ==
    ASSUME JobInv, NoWrap
    PROVE  /\ fa.load_address \in Nat /\ fa.algo_bin_len \in Nat /\ fa.page_size \in Nat
           /\ code_end \in Nat /\ new_stack_bottom \in Nat
           /\ fa.load_address + fa.algo_bin_len <= code_end
           /\ code_end <= fa.load_address + fa.algo_bin_len + 7
           /\ code_end <= new_stack_bottom
           /\ fa.page_size % 4 = 0 => new_stack_bottom = code_end + 2 * fa.page_size
<1> DEFINE la == fa.load_address
           len == fa.algo_bin_len
           ps == fa.page_size
<1>1. la \in Nat /\ len \in Nat /\ ps \in Nat /\ StackSize \in Nat /\ Word \in Nat \ {0}
  BY ConfigTyped, DecoderAssumption, SwdAssumption DEF Uint32
<1>2. la + len + 2 * ps + 2 * StackSize + 16 < Word
  BY DEF NoWrap
<1> HIDE DEF la, len, ps
<1>3. la + len \in Nat /\ la + len + 7 < Word
  BY <1>1, <1>2
<1>4. code_end = next_multiple_of(la + len, 8)
  BY DEF code_end, la, len
<1>5. code_end \in Nat /\ la + len <= code_end /\ code_end <= la + len + 7 /\ code_end % 8 = 0
  BY <1>3, <1>4, MultipleOf8
<1>6. code_end + 2 * ps \in 0..Word - 1 /\ code_end + 2 * ps + 7 < Word
  BY <1>1, <1>2, <1>5
<1>7. new_stack_bottom = next_multiple_of(code_end + 2 * ps, 8)
  <2>1. (code_end + 2 * ps) % Word = code_end + 2 * ps
    BY <1>1, <1>6, ModSmall
  <2>. QED
    BY <2>1 DEF new_stack_bottom, ps
<1> DEFINE x == code_end + 2 * ps
<1>8. x \in Nat /\ x + 7 < Word /\ code_end <= x
  BY <1>1, <1>5, <1>6
<1> HIDE DEF x
<1>9. new_stack_bottom \in Nat /\ x <= new_stack_bottom /\ new_stack_bottom = ((x + 8 - 1) \div 8) * 8
  BY <1>7, <1>8, MultipleOf8 DEF x
<1>10. ASSUME ps % 4 = 0
       PROVE  new_stack_bottom = x
  <2>1. (2 * ps) % 8 = 0 /\ 2 * ps \in Nat
    BY <1>1, <1>10
  <2>2. x % 8 = 0
    BY <1>5, <2>1, ModSum DEF x
  <2>3. new_stack_bottom <= x
    BY <1>8, <1>9, <2>2, RoundUpLeast
  <2>. QED
    BY <1>8, <1>9, <2>3
<1>. QED
  BY <1>1, <1>5, <1>8, <1>9, <1>10 DEF la, len, ps, x

(* The region init() works in holds the algorithm, the buffers and the stack it has checked. *)
LEMMA RegionFacts ==
    ASSUME JobInv, Placeable, NoWrap
    PROVE  /\ ram.start \in Nat /\ ram.end \in Nat /\ ram.start <= fa.load_address
           /\ fa.load_address + fa.algo_bin_len + 2 * fa.page_size + StackSize + 8 <= ram.end
<1>1. AlgoRegions(cfg) # {} /\ AlgoRegions(cfg) \subseteq DOMAIN cfg.ram_regions
  BY DEF Placeable, has_algo_ram_region, AlgoRegions
<1>2. cfg.ram_regions \in Seq(Region)
  BY ConfigTyped
<1>3. DOMAIN cfg.ram_regions = 1..Len(cfg.ram_regions) /\ Len(cfg.ram_regions) \in Nat
  BY <1>2, LenProperties
<1>4. AlgoRegions(cfg) \subseteq Nat
  BY <1>1, <1>3
<1> DEFINE i == CHOOSE i \in AlgoRegions(cfg) : \A k \in AlgoRegions(cfg) : i <= k
<1>5. i \in AlgoRegions(cfg)
  BY <1>1, <1>4, Least
<1>6. ram = cfg.ram_regions[i]
  BY DEF ram, algo_ram_region
<1> HIDE DEF i
<1>7. ram \in Region
  BY <1>1, <1>2, <1>3, <1>5, <1>6, ElementOfSeq
<1>8. ram.start \in Nat /\ ram.end \in Nat
  BY <1>7, DecoderAssumption DEF Region, Uint32
<1> DEFINE need == fa.algo_bin_len + 2 * fa.page_size + StackSize + 8
<1>9. fa.load_address \in Nat /\ fa.algo_bin_len \in Nat /\ fa.page_size \in Nat /\ StackSize \in Nat
  BY Layout, SwdAssumption
<1>10. need \in 0..Word - 1 /\ need % Word = need
  <2>1. need \in 0..Word - 1
    <3> DEFINE la == fa.load_address
               len == fa.algo_bin_len
               ps == fa.page_size
    <3>1. la \in Nat /\ len \in Nat /\ ps \in Nat /\ Word \in Nat
      BY <1>9, DecoderAssumption
    <3>2. la + len + 2 * ps + 2 * StackSize + 16 < Word
      BY DEF NoWrap
    <3> HIDE DEF la, len, ps
    <3>3. len + 2 * ps + StackSize + 8 \in 0..Word - 1
      BY <1>9, <3>1, <3>2
    <3>. QED
      BY <3>3 DEF len, ps
  <2> HIDE DEF need
  <2>. QED
    BY <2>1, ModSmall, DecoderAssumption
<1>11. ram.start <= fa.load_address /\ need <= ram.end - fa.load_address
  BY <1>10 DEF Placeable, has_capacity, contains_range
<1>. QED
  BY <1>8, <1>9, <1>11

(* The canary written once the layout is known is not in the algorithm. *)
LEMMA CanaryOutside ==
    ASSUME JobInv, NoWrap, stack_bottom = new_stack_bottom
    PROVE  ~CanaryInCode
BY Layout DEF CanaryInCode

LEMMA StackTyped ==
    ASSUME JobInv
    PROVE  new_stack_bottom \in Uint32
<1>1. Word \in Nat \ {0} /\ fa.load_address \in Nat /\ fa.algo_bin_len \in Nat /\ fa.page_size \in Nat
  BY ConfigTyped, DecoderAssumption DEF Uint32
<1>2. ASSUME NEW x \in Nat
      PROVE  next_multiple_of(x, 8) \in Uint32
  <2>1. (x + 8 - 1) % Word \in 0..Word - 1
    BY <1>1, DivMod
  <2> DEFINE y == (x + 8 - 1) % Word
  <2>2. y \in Nat /\ y < Word
    BY <1>1, <2>1
  <2> HIDE DEF y
  <2>3. (y \div 8) * 8 \in Nat /\ (y \div 8) * 8 <= y
    BY <2>2, RoundDown
  <2>4. next_multiple_of(x, 8) = (y \div 8) * 8
    BY DEF next_multiple_of, y
  <2>. QED
    BY <1>1, <2>2, <2>3, <2>4 DEF Uint32
<1>3. code_end \in Nat
  <2>1. fa.load_address + fa.algo_bin_len \in Nat
    BY <1>1
  <2>. QED
    BY <1>1, <1>2, <2>1 DEF code_end, Uint32
<1>4. (code_end + 2 * fa.page_size) % Word \in Nat
  <2>1. code_end + 2 * fa.page_size \in Nat
    BY <1>1, <1>3
  <2> DEFINE y == code_end + 2 * fa.page_size
  <2> HIDE DEF y
  <2>2. y \in Nat => (y % Word) \in Nat
    BY <1>1
  <2>. QED
    BY <2>1, <2>2 DEF y
<1>. QED
  BY <1>2, <1>4 DEF new_stack_bottom

-------------------------------------------------------------------------------
(***************************************************************************)
(* What stays as it is while the job, or the loop, does.                   *)
(***************************************************************************)
USE DEF jobVars, swdVars, loopVars

LEMMA ConfigKept ==
    ASSUME UNCHANGED cfg
    PROVE  /\ NoWrap' <=> NoWrap
           /\ Placeable' <=> Placeable
           /\ new_stack_bottom' = new_stack_bottom
BY DEF NoWrap, Placeable, has_algo_ram_region, has_capacity, contains_range, ram, algo_ram_region,
       AlgoRegions, new_stack_bottom, code_end, next_multiple_of, fa

LEMMA BuffersKept ==
    ASSUME UNCHANGED <<cfg, stack_bottom>>
    PROVE  double_buffered' <=> double_buffered
BY DEF double_buffered, page_buffer, ram, algo_ram_region, AlgoRegions, contains_range, fa

LEMMA TestsKept ==
    ASSUME UNCHANGED <<cfg, test_idx>>
    PROVE  SimpleTest' <=> SimpleTest
BY DEF SimpleTest, MoreTests

LEMMA JobKept ==
    ASSUME IInv, UNCHANGED jobVars
    PROVE  JobInv' /\ HeapInv' /\ DecoderTypeOK'
<1>1. JobInv'
  BY DEF IInv, JobInv, NoJob
<1>2. HeapInv'
  BY DEF IInv, HeapInv
<1>3. DecoderTypeOK'
  BY DEF IInv, SwdTypeOK, DecoderTypeOK
<1>. QED
  BY <1>1, <1>2, <1>3

LEMMA LayoutKept ==
    ASSUME IInv, UNCHANGED <<cfg, stack_bottom>>,
           stage \in {"idle", "over", "detect"} => stage' \in {"idle", "over", "detect"}
    PROVE  LayoutInv'
BY ConfigKept DEF IInv, LayoutInv

LEMMA TypesKept ==
    ASSUME IInv, UNCHANGED <<jobVars, loopVars>>, flash' \in [Page -> Data],
           stage' \in {"idle", "over", "detect", "erase", "sector", "program", "verify", "test", "post"},
           phase' \in {"start", "call", "fill", "wait", "exec", "end"},
           state' \in {"UNKNOWN", "INITIALISED", "LOADED", "INITED", "UNINITED"},
           core' \in {"reset", "loaded"} \cup Mode,
           stack_bottom' \in Uint32, canary' \in BOOLEAN, intact' \in BOOLEAN,
           test_idx' \in Nat, stage' = "test" => test_idx' <= Len(cfg.tests)
    PROVE  SwdTypeOK'
BY JobKept DEF IInv, SwdTypeOK

(* Outside the loop no call is under way, and the pages stay as they are. *)
LEMMA PagesKept ==
    ASSUME IInv, UNCHANGED <<loopVars, flash>>, stage \notin {"program", "over"},
           stage' # "verify" \/ stage = "verify", stage' = "program" => phase' = "start"
    PROVE  PageInv' /\ PagesInOrder'
<1>1. call' = call /\ ~call.busy
  BY DEF IInv, PageInv
<1>2. PageInv'
  BY <1>1 DEF PageInv
<1>3. PagesInOrder'
  BY <1>1 DEF IInv, PagesInOrder
<1>. QED
  BY <1>2, <1>3

-------------------------------------------------------------------------------
(***************************************************************************)
(* One lemma per group of actions.  Another job; a run begins or ends.     *)
(***************************************************************************)
LEMMA SetJobStep ==
    ASSUME IInv, SetJob
    PROVE  IInv'
<1>1. stage = "idle" /\ UNCHANGED <<stage, phase, swdVars, loopVars, flash, test_idx>>
  BY DEF SetJob
<1>2. JobInv' /\ HeapInv'
  BY DecodeStep, InstallStep DEF SetJob, IInv
<1>3. DecoderTypeOK'
  BY <1>2, DecoderTyped, PTL
<1>4. SwdTypeOK'
  BY <1>1, <1>3 DEF IInv, SwdTypeOK
<1>5. InitedInv' /\ LayoutInv'
  BY <1>1 DEF InitedInv, LayoutInv
<1>6. PageInv' /\ PagesInOrder'
  BY <1>1, PagesKept
<1>. QED
  BY <1>2, <1>4, <1>5, <1>6 DEF IInv

LEMMA OutsideStep ==
    ASSUME IInv, BeginSession \/ SwdInitFail \/ ResetTarget \/ PostProgram
    PROVE  IInv'
<1>1. /\ UNCHANGED <<jobVars, stack_bottom, loopVars, flash, test_idx>>
      /\ stage \notin {"program", "over"} /\ stage' \in {"idle", "detect", "over", "post"}
      /\ stage \in {"idle", "over", "detect"} => stage' \in {"idle", "over", "detect"}
  BY DEF BeginSession, SwdInitFail, ResetTarget, PostProgram, Goto, Fail
<1>2. phase' \in {phase, "start"} /\ state' \in {state, "UNKNOWN", "LOADED"} /\ core' \in {core, "reset", "loaded"}
  BY DEF BeginSession, SwdInitFail, ResetTarget, PostProgram, Goto, Fail
<1>3. canary' \in BOOLEAN /\ intact' \in BOOLEAN
  BY DEF BeginSession, SwdInitFail, ResetTarget, PostProgram, IInv, SwdTypeOK
<1>4. SwdTypeOK'
  <2>1. UNCHANGED <<jobVars, loopVars>> /\ flash' \in [Page -> Data] /\ stack_bottom' \in Uint32 /\ test_idx' \in Nat
    BY <1>1 DEF IInv, SwdTypeOK
  <2>2. /\ stage' \in {"idle", "over", "detect", "erase", "sector", "program", "verify", "test", "post"}
        /\ phase' \in {"start", "call", "fill", "wait", "exec", "end"}
        /\ state' \in {"UNKNOWN", "INITIALISED", "LOADED", "INITED", "UNINITED"}
        /\ core' \in {"reset", "loaded"} \cup Mode /\ stage' # "test"
    BY <1>1, <1>2 DEF IInv, SwdTypeOK
  <2>. QED
    BY <1>3, <2>1, <2>2, TypesKept
<1>5. InitedInv'
  BY <1>1 DEF InitedInv
<1>6. LayoutInv' /\ PageInv' /\ PagesInOrder'
  BY <1>1, LayoutKept, PagesKept
<1>. QED
  BY <1>1, <1>4, <1>5, <1>6, JobKept DEF IInv

LEMMA RunOverStep ==
    ASSUME IInv, RunOver
    PROVE  IInv'
<1>1. /\ stage' = "idle" /\ phase' = "start" /\ core' = "reset" /\ canary' = FALSE /\ intact' = FALSE
      /\ page_idx' = 0 /\ curr_buf' = 0 /\ buf' = [b \in {0, 1} |-> Bad] /\ call' = NoCall
      /\ flash' = [p \in Page |-> Erased] /\ test_idx' = 0 /\ UNCHANGED <<jobVars, state, stack_bottom>>
  BY DEF RunOver
<1>2. Pages \in Nat \ {0} /\ 0 \in Page /\ 0 \in 0..Pages
  BY SwdAssumption DEF Page
<1>3. Bad \in Data /\ Erased \in Data
  BY DEF Bad, Erased, Data
<1>4. NoCall \in [busy : BOOLEAN, page : Page, buf : {0, 1}] /\ ~NoCall.busy
  BY <1>2 DEF NoCall
<1>5. buf' \in [{0, 1} -> Data] /\ flash' \in [Page -> Data] /\ call' \in [busy : BOOLEAN, page : Page, buf : {0, 1}]
  BY <1>1, <1>3, <1>4
<1>6. SwdTypeOK'
  BY <1>1, <1>2, <1>5, JobKept DEF IInv, SwdTypeOK
<1>7. InitedInv' /\ LayoutInv'
  BY <1>1 DEF InitedInv, LayoutInv
<1>8. PageInv' /\ PagesInOrder'
  BY <1>1, <1>4 DEF PageInv, PagesInOrder
<1>. QED
  BY <1>1, <1>6, <1>7, <1>8, JobKept DEF IInv

(* init() succeeds: the layout is the job's. *)
LEMMA SwdInitStep ==
    ASSUME IInv, SwdInit
    PROVE  IInv'
<1>1. /\ stage = "detect" /\ Placeable /\ state' = "INITIALISED" /\ core' = "loaded" /\ canary' = FALSE
      /\ stack_bottom' = new_stack_bottom /\ stage' = "erase" /\ phase' = "start"
      /\ UNCHANGED <<jobVars, loopVars, flash, test_idx>> /\ intact' \in BOOLEAN
  BY DEF SwdInit, Goto
<1>2. SwdTypeOK'
  <2>1. flash' \in [Page -> Data] /\ test_idx' \in Nat /\ stack_bottom' \in Uint32
    BY <1>1, StackTyped DEF IInv, SwdTypeOK
  <2>. QED
    BY <1>1, <2>1, TypesKept
<1>3. InitedInv'
  BY <1>1 DEF InitedInv
<1>4. LayoutInv'
  BY <1>1, ConfigKept DEF LayoutInv
<1>5. PageInv' /\ PagesInOrder'
  BY <1>1, PagesKept
<1>. QED
  BY <1>1, <1>2, <1>3, <1>4, <1>5, JobKept DEF IInv

(***************************************************************************)
(* Starting and ending the algorithm.                                      *)
(***************************************************************************)
LEMMA Started ==
    ASSUME IInv, UNCHANGED cfg, NEW mode \in Mode, NEW goal, NEW giveup,
           stage \in {"erase", "sector", "program", "test"}, run_algo_init(mode, goal, giveup)
    PROVE  /\ stack_bottom' = stack_bottom
           /\ state' \in {"UNKNOWN", "INITIALISED", "LOADED", "INITED", "UNINITED"}
           /\ core' \in {"reset", "loaded"} \cup Mode /\ canary' \in BOOLEAN /\ intact' \in BOOLEAN
           /\ \/ /\ stage' = stage /\ phase' = goal /\ state' = "INITED"
                 /\ \/ state = "INITED" /\ UNCHANGED swdVars
                    \/ core' = mode /\ canary' /\ (NoWrap => intact')
              \/ stage' = giveup /\ phase' = "start" /\ state' # "INITED"
<1>1. NoWrap => ~CanaryInCode
  BY CanaryOutside DEF IInv, LayoutInv
<1>2. CASE state = "INITED" /\ phase' = goal /\ UNCHANGED <<stage, swdVars>>
  BY <1>2 DEF IInv, SwdTypeOK
<1>3. CASE /\ state' = "INITED" /\ core' = mode /\ canary' = TRUE /\ intact' = ~CanaryInCode
           /\ phase' = goal /\ UNCHANGED <<stage, stack_bottom>>
  BY <1>1, <1>3
<1>4. CASE /\ state # "INITED" /\ state' \in {state, "UNKNOWN", "INITIALISED", "LOADED"}
           /\ core' \in {core, "reset", "loaded"} /\ canary' \in BOOLEAN
           /\ intact' \in {intact, ~CanaryInCode} /\ Goto(giveup) /\ UNCHANGED stack_bottom
  BY <1>4 DEF IInv, SwdTypeOK, Goto
<1>. QED
  BY <1>2, <1>3, <1>4 DEF run_algo_init

LEMMA Ended ==
    ASSUME IInv, NEW next, NEW giveup, run_algo_uninit(next, giveup)
    PROVE  /\ UNCHANGED <<stack_bottom, canary, intact>> /\ phase' = "start"
           /\ state' \in {"UNKNOWN", "INITIALISED", "LOADED", "INITED", "UNINITED"}
           /\ core' \in {"reset", "loaded"} \cup Mode
           /\ \/ stage' = next /\ state' = "UNINITED"
              \/ stage' = giveup /\ (state' = "UNKNOWN" \/ UNCHANGED <<state, core>>)
BY DEF run_algo_uninit, Goto, IInv, SwdTypeOK

-------------------------------------------------------------------------------
(***************************************************************************)
(* erase().                                                                *)
(***************************************************************************)
LEMMA EraseStep ==
    ASSUME IInv, EraseStart \/ EraseUnsupported \/ EraseCallFail \/ EraseEnd
    PROVE  IInv'
<1>0. "ERASE" \in Mode
  BY DEF Mode
<1>1. stage \in {"erase", "sector"} /\ UNCHANGED <<jobVars, loopVars, flash, test_idx>>
  BY DEF EraseStart, EraseUnsupported, EraseCallFail, EraseEnd
<1>2. /\ stack_bottom' = stack_bottom /\ canary' \in BOOLEAN /\ intact' \in BOOLEAN
      /\ stage' \in {"erase", "sector", "program", "over"} /\ phase' \in {"start", "call"}
      /\ state' \in {"UNKNOWN", "INITIALISED", "LOADED", "INITED", "UNINITED"}
      /\ core' \in {"reset", "loaded"} \cup Mode
      /\ stage' = "program" => phase' = "start" /\ state' # "INITED"
      /\ phase' # "start" => state' = "INITED"
      /\ state' = "INITED" => core' = "ERASE" /\ canary' /\ (NoWrap => intact')
  <2>0. state = "INITED" => core = "ERASE" /\ canary /\ (NoWrap => intact)
    BY <1>1 DEF IInv, InitedInv
  <2>t. canary \in BOOLEAN /\ intact \in BOOLEAN
        /\ state \in {"UNKNOWN", "INITIALISED", "LOADED", "INITED", "UNINITED"}
        /\ core \in {"reset", "loaded"} \cup Mode
    BY DEF IInv, SwdTypeOK
  <2>1. CASE EraseStart
    <3>1. run_algo_init("ERASE", "call", IF stage = "erase" THEN "sector" ELSE "over")
      BY <2>1 DEF EraseStart
    <3>. QED
      BY <1>0, <1>1, <2>0, <3>1, Started
  <2>2. CASE EraseUnsupported
    <3>1. stage' \in {"sector", "over"} /\ phase' = "start" /\ UNCHANGED swdVars
      BY <2>2 DEF EraseUnsupported, Goto
    <3>. QED
      BY <2>0, <2>t, <3>1
  <2>3. CASE EraseCallFail
    <3>1. CASE run_algo_uninit("sector", "sector")
      BY <2>0, <2>t, <3>1, Ended
    <3>2. CASE Fail /\ UNCHANGED swdVars
      BY <2>0, <2>t, <3>2 DEF Fail
    <3>3. CASE /\ Goto(IF stage = "erase" THEN "sector" ELSE "over")
               /\ state' = "UNKNOWN" /\ UNCHANGED <<core, stack_bottom, canary, intact>>
      BY <2>t, <3>3 DEF Goto
    <3>. QED
      BY <2>3, <3>1, <3>2, <3>3 DEF EraseCallFail
  <2>4. CASE EraseEnd
    <3>1. run_algo_uninit("program", IF stage = "erase" THEN "sector" ELSE "over")
      BY <2>4 DEF EraseEnd
    <3>. QED
      BY <2>0, <2>t, <3>1, Ended
  <2>. QED
    BY <2>1, <2>2, <2>3, <2>4
<1>3. SwdTypeOK'
  <2>1. flash' \in [Page -> Data] /\ test_idx' \in Nat /\ stack_bottom' \in Uint32
    BY <1>1, <1>2 DEF IInv, SwdTypeOK
  <2>. QED
    BY <1>1, <1>2, <2>1, TypesKept
<1>4. InitedInv'
  <2>1. NoWrap' <=> NoWrap
    BY <1>1, ConfigKept
  <2>. QED
    BY <1>2, <2>1 DEF InitedInv
<1>5. LayoutInv' /\ PageInv' /\ PagesInOrder'
  BY <1>1, <1>2, LayoutKept, PagesKept
<1>. QED
  BY <1>1, <1>3, <1>4, <1>5, JobKept DEF IInv

LEMMA EraseCallStep ==
    ASSUME IInv, EraseCall
    PROVE  IInv'
<1>1. /\ stage \in {"erase", "sector"} /\ phase = "call" /\ phase' = "end"
      /\ flash' = [p \in Page |-> Erased] /\ UNCHANGED <<jobVars, stage, swdVars, loopVars, test_idx>>
  BY DEF EraseCall
<1>2. SwdTypeOK'
  <2>1. Erased \in Data
    BY DEF Erased, Data
  <2>2. flash' \in [Page -> Data]
    BY <1>1, <2>1
  <2>3. /\ stage' \in {"erase", "sector"} /\ test_idx' \in Nat /\ stack_bottom' \in Uint32
        /\ state' \in {"UNKNOWN", "INITIALISED", "LOADED", "INITED", "UNINITED"}
        /\ core' \in {"reset", "loaded"} \cup Mode /\ canary' \in BOOLEAN /\ intact' \in BOOLEAN
    BY <1>1 DEF IInv, SwdTypeOK
  <2>. QED
    BY <1>1, <2>2, <2>3, TypesKept
<1>3. InitedInv'
  <2>1. NoWrap' <=> NoWrap
    BY <1>1, ConfigKept
  <2>. QED
    BY <1>1, <2>1 DEF IInv, InitedInv
<1>4. LayoutInv'
  BY <1>1, LayoutKept
<1>5. PageInv' /\ PagesInOrder'
  BY <1>1 DEF IInv, PageInv, PagesInOrder
<1>. QED
  BY <1>1, <1>2, <1>3, <1>4, <1>5, JobKept DEF IInv

-------------------------------------------------------------------------------
(***************************************************************************)
(* verify() and the self tests.                                            *)
(***************************************************************************)
LEMMA TestStep ==
    ASSUME IInv, Verify \/ TestStart \/ TestCall \/ TestSkip
    PROVE  IInv'
<1>0. "ERASE" \in Mode
  BY DEF Mode
<1>c. Len(cfg.tests) \in Nat
  BY ConfigTyped, LenProperties DEF IInv
<1>1. stage \in {"verify", "test"} /\ UNCHANGED <<jobVars, loopVars, flash>>
  BY DEF Verify, TestStart, TestCall, TestSkip
<1>t. /\ canary \in BOOLEAN /\ intact \in BOOLEAN /\ test_idx \in Nat /\ stack_bottom \in Uint32
      /\ state \in {"UNKNOWN", "INITIALISED", "LOADED", "INITED", "UNINITED"}
      /\ core \in {"reset", "loaded"} \cup Mode
      /\ phase \in {"start", "call", "fill", "wait", "exec", "end"}
      /\ stage = "test" => test_idx <= Len(cfg.tests)
  BY DEF IInv, SwdTypeOK
<1>i. /\ stage = "verify" => state # "INITED"
      /\ stage = "test" /\ state = "INITED" => core = "ERASE" /\ canary /\ (NoWrap => intact)
      /\ stage = "test" /\ phase # "start" => state = "INITED" /\ SimpleTest
  BY DEF IInv, InitedInv
<1>2. /\ stack_bottom' = stack_bottom /\ canary' \in BOOLEAN /\ intact' \in BOOLEAN
      /\ stage' \in {"test", "over"} /\ phase' \in {"start", "call", "fill", "wait", "exec", "end"}
      /\ state' \in {"UNKNOWN", "INITIALISED", "LOADED", "INITED", "UNINITED"}
      /\ core' \in {"reset", "loaded"} \cup Mode
      /\ test_idx' \in Nat /\ (stage' = "test" => test_idx' <= Len(cfg.tests))
      /\ phase' # "start" => state' = "INITED" /\ SimpleTest /\ test_idx' = test_idx
      /\ stage' = "test" /\ state' = "INITED" => core' = "ERASE" /\ canary' /\ (NoWrap => intact')
  <2>1. CASE Verify
    <3>1. stage = "verify" /\ test_idx' = 0 /\ UNCHANGED <<core, stack_bottom, canary, intact>>
          /\ stage' \in {"test", "over"} /\ phase' = "start"
          /\ (stage' = "test" => state' = state) /\ state' \in {state, "UNKNOWN"}
      BY <2>1 DEF Verify, Goto, Fail
    <3>. QED
      BY <1>c, <1>t, <1>i, <3>1
  <2>2. CASE TestStart
    <3>1. stage = "test" /\ SimpleTest /\ run_algo_init("ERASE", "call", "over") /\ test_idx' = test_idx
          /\ UNCHANGED cfg
      BY <2>2 DEF TestStart
    <3>. QED
      BY <1>0, <1>t, <1>i, <3>1, Started
  <2>3. CASE TestCall
    <3>1. stage = "test" /\ phase = "call" /\ UNCHANGED <<core, stack_bottom, canary, intact>>
          /\ \/ phase' = "start" /\ test_idx' = test_idx + 1 /\ stage' = stage /\ state' = state
             \/ phase' = "start" /\ stage' = "over" /\ state' \in {state, "UNKNOWN"} /\ test_idx' = test_idx
      BY <2>3 DEF TestCall, Fail
    <3>2. test_idx + 1 <= Len(cfg.tests)
      BY <1>c, <1>t, <1>i, <3>1 DEF SimpleTest, MoreTests
    <3>. QED
      BY <1>t, <1>i, <3>1, <3>2
  <2>4. CASE TestSkip
    <3>1. stage = "test" /\ MoreTests /\ ~SimpleTest /\ test_idx' = test_idx + 1
          /\ UNCHANGED <<stage, phase, swdVars>>
      BY <2>4 DEF TestSkip
    <3>2. test_idx + 1 <= Len(cfg.tests) /\ phase = "start"
      BY <1>c, <1>t, <1>i, <3>1 DEF MoreTests
    <3>. QED
      BY <1>t, <1>i, <3>1, <3>2
  <2>. QED
    BY <2>1, <2>2, <2>3, <2>4
<1>3. SwdTypeOK'
  <2>1. flash' \in [Page -> Data] /\ stack_bottom' \in Uint32
    BY <1>1, <1>2, <1>t DEF IInv, SwdTypeOK
  <2>. QED
    BY <1>1, <1>2, <2>1, TypesKept
<1>4. InitedInv'
  <2>1. NoWrap' <=> NoWrap
    BY <1>1, ConfigKept
  <2>2. phase' # "start" => SimpleTest'
    BY <1>1, <1>2, TestsKept
  <2>. QED
    BY <1>2, <2>1, <2>2 DEF InitedInv
<1>5. LayoutInv' /\ PageInv' /\ PagesInOrder'
  BY <1>1, <1>2, LayoutKept, PagesKept
<1>. QED
  BY <1>1, <1>3, <1>4, <1>5, JobKept DEF IInv

-------------------------------------------------------------------------------
(***************************************************************************)
(* program_file().  A step inside the loop.                                *)
(***************************************************************************)
CallRecord == [busy : BOOLEAN, page : Page, buf : {0, 1}]

LEMMA LoopFrame ==
    ASSUME IInv, stage = "program", phase # "start", UNCHANGED <<jobVars, stage, swdVars, test_idx>>,
           page_idx' \in 0..Pages, curr_buf' \in {0, 1}, buf' \in [{0, 1} -> Data],
           call' \in CallRecord, flash' \in [Page -> Data],
           LoopInv', call'.busy => buf'[call'.buf] \in {call'.page, Bad},
           \A p \in Page : flash'[p] \in {p, Bad, Erased}
    PROVE  IInv'
<1>1. phase' \in {"fill", "wait", "exec", "end"} /\ stage' = "program"
  BY DEF LoopInv
<1>2. SwdTypeOK'
  BY <1>1, JobKept DEF IInv, SwdTypeOK, CallRecord
<1>3. InitedInv'
  BY <1>1, ConfigKept DEF IInv, InitedInv
<1>4. LayoutInv'
  BY <1>1, LayoutKept
<1>5. PageInv' /\ PagesInOrder'
  BY <1>1 DEF PageInv, PagesInOrder
<1>. QED
  BY <1>2, <1>3, <1>4, <1>5, JobKept DEF IInv

LEMMA LoopTypes ==
    ASSUME IInv
    PROVE  /\ page_idx \in 0..Pages /\ curr_buf \in {0, 1} /\ buf \in [{0, 1} -> Data]
           /\ call \in CallRecord /\ flash \in [Page -> Data] /\ Pages \in Nat
           /\ \A p \in Page : flash[p] \in {p, Bad, Erased}
           /\ Bad # Erased /\ \A p \in Page : p # Erased
BY SwdAssumption DEF IInv, SwdTypeOK, CallRecord, PagesInOrder, Bad, Erased, Page

LEMMA FillStep ==
    ASSUME IInv, FillBuffer
    PROVE  IInv'
<1>1. PICK data \in {page_idx, Bad} : buf' = [buf EXCEPT ![curr_buf] = data]
  BY DEF FillBuffer
<1>2. /\ stage = "program" /\ phase = "fill" /\ page_idx < Pages
      /\ phase' = (IF double_buffered THEN "wait" ELSE "exec")
      /\ UNCHANGED <<jobVars, stage, swdVars, page_idx, curr_buf, call, flash, test_idx>>
  BY DEF FillBuffer, more_pages
<1>3. LoopInv /\ (call.busy => buf[call.buf] \in {call.page, Bad})
  BY <1>2 DEF IInv, PageInv
<1>4. data \in Data /\ buf' \in [{0, 1} -> Data] /\ buf'[curr_buf] = data
      /\ \A b \in {0, 1} : b # curr_buf => buf'[b] = buf[b]
  <2>1. data \in Data
    BY <1>2, LoopTypes DEF Data, Page, Bad
  <2>. QED
    BY <1>1, <2>1, LoopTypes
<1>5. call.busy => call.buf # curr_buf /\ call.buf \in {0, 1} /\ double_buffered
  BY <1>2, <1>3, LoopTypes DEF LoopInv, CallRecord
<1>6. LoopInv'
  <2>1. double_buffered' <=> double_buffered
    BY <1>2, BuffersKept
  <2>. QED
    BY <1>1, <1>2, <1>3, <1>4, <1>5, <2>1 DEF LoopInv
<1>7. call'.busy => buf'[call'.buf] \in {call'.page, Bad}
  BY <1>2, <1>3, <1>4, <1>5
<1>. QED
  BY <1>2, <1>4, <1>6, <1>7, LoopTypes, LoopFrame

LEMMA WaitStep ==
    ASSUME IInv, WaitPage \/ PageDone
    PROVE  IInv'
<1>1. /\ stage = "program" /\ phase \in {"wait", "end"} /\ ~call.busy
      /\ (phase = "wait" => phase' = "exec") /\ (phase = "end" => phase' = "fill")
      /\ UNCHANGED <<jobVars, stage, swdVars, loopVars, flash, test_idx>>
  BY DEF WaitPage, PageDone
<1>2. LoopInv
  BY <1>1 DEF IInv, PageInv
<1>3. LoopInv'
  BY <1>1, <1>2 DEF LoopInv
<1>. QED
  BY <1>1, <1>3, LoopTypes, LoopFrame

LEMMA ExecStep ==
    ASSUME IInv, ExecPage
    PROVE  IInv'
<1>1. /\ stage = "program" /\ phase = "exec" /\ call' = [busy |-> TRUE, page |-> page_idx, buf |-> curr_buf]
      /\ page_idx' = page_idx + 1 /\ UNCHANGED <<jobVars, stage, swdVars, buf, flash, test_idx>>
      /\ IF double_buffered THEN curr_buf' = 1 - curr_buf /\ phase' = "fill"
                            ELSE phase' = "end" /\ UNCHANGED curr_buf
  BY DEF ExecPage
<1>2. LoopInv
  BY <1>1 DEF IInv, PageInv
<1>3. page_idx < Pages /\ ~call.busy /\ buf[curr_buf] \in {page_idx, Bad}
      /\ \A p \in 0..page_idx - 1 : flash[p] # Erased
  BY <1>1, <1>2 DEF LoopInv
<1>4. /\ page_idx \in Page /\ page_idx' \in 0..Pages /\ curr_buf' \in {0, 1}
      /\ double_buffered => curr_buf' # curr_buf
  BY <1>1, <1>3, LoopTypes DEF Page
<1>5. call' \in CallRecord /\ call'.busy /\ call'.page = page_idx /\ call'.buf = curr_buf
  BY <1>1, <1>4, LoopTypes DEF CallRecord
<1>6. LoopInv'
  <2>1. double_buffered' <=> double_buffered
    BY <1>1, BuffersKept
  <2>2. \A p \in 0..page_idx' - 1 : flash'[p] # Erased \/ (call'.busy /\ call'.page = p)
    BY <1>1, <1>3, <1>5, LoopTypes
  <2>. QED
    BY <1>1, <1>4, <1>5, <2>1, <2>2 DEF LoopInv
<1>7. buf'[call'.buf] \in {call'.page, Bad}
  BY <1>1, <1>3, <1>5
<1>. QED
  BY <1>1, <1>4, <1>5, <1>6, <1>7, LoopTypes, LoopFrame

(* The target finishes a page, in the loop or after the run was given up. *)
LEMMA TargetStep ==
    ASSUME IInv, TargetPrograms
    PROVE  IInv'
<1>1. /\ call.busy /\ flash' = [flash EXCEPT ![call.page] = buf[call.buf]] /\ call' = [call EXCEPT !.busy = FALSE]
      /\ UNCHANGED <<jobVars, stage, phase, swdVars, page_idx, curr_buf, buf, test_idx>>
  BY DEF TargetPrograms
<1>2. buf[call.buf] \in {call.page, Bad} /\ stage \in {"program", "over"} /\ call.page \in Page /\ call.buf \in {0, 1}
  BY <1>1, LoopTypes DEF IInv, PageInv, CallRecord
<1>3. call' \in CallRecord /\ ~call'.busy
  BY <1>1, LoopTypes DEF CallRecord
<1>4. /\ flash' \in [Page -> Data] /\ flash'[call.page] \in {call.page, Bad}
      /\ \A p \in Page : p # call.page => flash'[p] = flash[p]
  <2>1. buf[call.buf] \in Data
    BY <1>2, LoopTypes
  <2>. QED
    BY <1>1, <1>2, <2>1, LoopTypes
<1>5. \A p \in Page : flash'[p] \in {p, Bad, Erased}
  BY <1>4, LoopTypes
<1>6. CASE stage = "program"
  <2>1. LoopInv /\ phase # "start"
    BY <1>1, <1>6 DEF IInv, PageInv
  <2>2. \A p \in 0..page_idx - 1 : flash'[p] # Erased
    <3> SUFFICES ASSUME NEW p \in 0..page_idx - 1 PROVE flash'[p] # Erased
      OBVIOUS
    <3>1. p \in Page
      BY LoopTypes DEF Page
    <3>2. flash[p] # Erased \/ call.page = p
      BY <2>1 DEF LoopInv
    <3>. QED
      BY <1>2, <1>4, <3>1, <3>2, LoopTypes
  <2>3. LoopInv'
    BY <1>1, <1>3, <2>1, <2>2 DEF LoopInv
  <2>. QED
    BY <1>1, <1>3, <1>4, <1>5, <1>6, <2>1, <2>3, LoopTypes, LoopFrame
<1>7. CASE stage = "over"
  <2>1. SwdTypeOK'
    BY <1>1, <1>3, <1>4, <1>7, JobKept DEF IInv, SwdTypeOK, CallRecord
  <2>2. InitedInv' /\ LayoutInv' /\ PageInv' /\ PagesInOrder'
    BY <1>1, <1>3, <1>5, <1>7 DEF InitedInv, LayoutInv, PageInv, PagesInOrder
  <2>. QED
    BY <1>1, <2>1, <2>2, JobKept DEF IInv
<1>. QED
  BY <1>2, <1>6, <1>7

(* The loop begins with the first page and ends, well or not, with the algorithm gone. *)
LEMMA ProgramStartStep ==
    ASSUME IInv, ProgramStart
    PROVE  IInv'
<1>0. "PROGRAM" \in Mode
  BY DEF Mode
<1>1. /\ stage = "program" /\ phase = "start" /\ run_algo_init("PROGRAM", "fill", "over")
      /\ page_idx' = 0 /\ curr_buf' = 0 /\ UNCHANGED <<jobVars, buf, call, flash, test_idx>>
  BY DEF ProgramStart
<1>2. state # "INITED" /\ ~call.busy
  BY <1>1 DEF IInv, InitedInv, PageInv
<1>3. /\ stack_bottom' = stack_bottom
      /\ state' \in {"UNKNOWN", "INITIALISED", "LOADED", "INITED", "UNINITED"}
      /\ core' \in {"reset", "loaded"} \cup Mode /\ canary' \in BOOLEAN /\ intact' \in BOOLEAN
      /\ \/ stage' = "program" /\ phase' = "fill" /\ core' = "PROGRAM" /\ canary' /\ (NoWrap => intact')
         \/ stage' = "over" /\ phase' = "start"
  BY <1>0, <1>1, <1>2, Started
<1>4. SwdTypeOK'
  <2>1. page_idx' \in 0..Pages
    BY <1>1, LoopTypes
  <2>. QED
    BY <1>1, <1>3, <2>1, JobKept DEF IInv, SwdTypeOK
<1>5. InitedInv'
  BY <1>1, <1>3, ConfigKept DEF InitedInv
<1>6. LayoutInv'
  BY <1>1, <1>3, LayoutKept
<1>7. PageInv'
  <2>1. call' = call /\ ~call'.busy /\ \A p \in 0..page_idx' - 1 : flash'[p] # Erased
    BY <1>1, <1>2
  <2>. QED
    BY <1>3, <2>1 DEF PageInv, LoopInv
<1>8. PagesInOrder'
  BY <1>1, <1>3, LoopTypes DEF PagesInOrder
<1>. QED
  BY <1>1, <1>4, <1>5, <1>6, <1>7, <1>8, JobKept DEF IInv

LEMMA ProgramEndStep ==
    ASSUME IInv, ProgramEnd \/ ProgramFail
    PROVE  IInv'
<1>1. stage = "program" /\ UNCHANGED <<jobVars, loopVars, flash, test_idx>>
  BY DEF ProgramEnd, ProgramFail
<1>2. /\ UNCHANGED <<stack_bottom, canary, intact>> /\ stage' \in {"verify", "over"} /\ phase' = "start"
      /\ state' \in {"UNKNOWN", "INITIALISED", "LOADED", "INITED", "UNINITED"}
      /\ core' \in {"reset", "loaded"} \cup Mode /\ (stage' = "verify" => state' # "INITED")
  <2>1. CASE ProgramEnd
    BY <2>1, Ended DEF ProgramEnd
  <2>2. CASE ProgramFail
    BY <2>2 DEF ProgramFail, Fail, IInv, SwdTypeOK
  <2>. QED
    BY <2>1, <2>2
<1>3. SwdTypeOK'
  <2>1. flash' \in [Page -> Data] /\ test_idx' \in Nat /\ stack_bottom' \in Uint32
        /\ canary' \in BOOLEAN /\ intact' \in BOOLEAN
    BY <1>1, <1>2 DEF IInv, SwdTypeOK
  <2>. QED
    BY <1>1, <1>2, <2>1, TypesKept
<1>4. InitedInv' /\ LayoutInv'
  BY <1>1, <1>2, LayoutKept DEF InitedInv
<1>5. stage' = "verify" => ~call.busy /\ \A p \in Page : flash[p] # Erased
  <2> SUFFICES ASSUME stage' = "verify" PROVE ~call.busy /\ \A p \in Page : flash[p] # Erased
    OBVIOUS
  <2>1. ProgramEnd
    BY DEF ProgramFail, Fail
  <2>2. phase = "fill" /\ ~(page_idx < Pages) /\ ~call.busy
    BY <2>1 DEF ProgramEnd, more_pages
  <2>3. page_idx = Pages /\ LoopInv
    BY <1>1, <2>2, LoopTypes DEF IInv, PageInv
  <2>. QED
    BY <2>2, <2>3 DEF LoopInv, Page
<1>6. PageInv' /\ PagesInOrder'
  BY <1>1, <1>2, <1>5 DEF IInv, PageInv, PagesInOrder
<1>. QED
  BY <1>1, <1>3, <1>4, <1>6, JobKept DEF IInv

-------------------------------------------------------------------------------
(* The inductive invariant holds from the start. *)
THEOREM Invariance == Spec => []IInv
<1>1. Init => IInv
  <2> SUFFICES ASSUME Init PROVE IInv
    OBVIOUS
  <2>0. NoJob.job = Null /\ NoJob.algo_bin = Null
    BY DEF NoJob
  <2>1. JobInv
    BY <2>0 DEF Init, DecoderInit, JobInv
  <2>2. HeapInv
    BY <2>0 DEF Init, DecoderInit, HeapInv
  <2>3. DecoderTypeOK
    BY <2>1, <2>2, DecoderTyped
  <2>4. Pages \in Nat \ {0} /\ 0 \in Page /\ 0 \in 0..Pages /\ 0 \in Uint32
    BY SwdAssumption, DecoderAssumption DEF Page, Uint32
  <2>5. Bad \in Data /\ Erased \in Data
    BY DEF Bad, Erased, Data
  <2>6. NoCall \in [busy : BOOLEAN, page : Page, buf : {0, 1}] /\ ~NoCall.busy
    BY <2>4 DEF NoCall
  <2>7. buf \in [{0, 1} -> Data] /\ flash \in [Page -> Data]
    BY <2>5 DEF Init
  <2>8. SwdTypeOK
    BY <2>3, <2>4, <2>6, <2>7 DEF Init, SwdTypeOK
  <2>9. InitedInv /\ LayoutInv
    BY DEF Init, InitedInv, LayoutInv
  <2>10. PageInv /\ PagesInOrder
    BY <2>6 DEF Init, PageInv, PagesInOrder
  <2>. QED
    BY <2>1, <2>2, <2>8, <2>9, <2>10 DEF IInv
<1>2. IInv /\ [Next]_vars => IInv'
  <2> SUFFICES ASSUME IInv, [Next]_vars PROVE IInv'
    OBVIOUS
  <2>1. CASE UNCHANGED vars
    <3>1. UNCHANGED <<jobVars, stage, phase, swdVars, loopVars, flash, test_idx>>
      BY <2>1 DEF vars
    <3>2. SwdTypeOK'
      BY <3>1, JobKept DEF IInv, SwdTypeOK
    <3>3. InitedInv' /\ LayoutInv'
      BY <3>1, ConfigKept, TestsKept, LayoutKept DEF IInv, InitedInv
    <3>4. LoopInv => LoopInv'
      BY <3>1, BuffersKept DEF LoopInv
    <3>5. PageInv' /\ PagesInOrder'
      BY <3>1, <3>4 DEF IInv, PageInv, PagesInOrder
    <3>. QED
      BY <3>1, <3>2, <3>3, <3>5, JobKept DEF IInv
  <2>2. CASE SetJob \/ BeginSession \/ RunOver \/ SwdInit \/ SwdInitFail \/ PostProgram
    BY <2>2, SetJobStep, OutsideStep, RunOverStep, SwdInitStep
  <2>3. CASE Erase \/ Verify \/ Test
    BY <2>3, EraseStep, EraseCallStep, TestStep, OutsideStep DEF Erase, Test
  <2>4. CASE Program \/ TargetPrograms
    BY <2>4, ProgramStartStep, FillStep, WaitStep, ExecStep, ProgramEndStep, TargetStep DEF Program
  <2>. QED
    BY <2>1, <2>2, <2>3, <2>4 DEF Next
<1>. QED
  BY <1>1, <1>2, PTL DEF Spec

(* The programmer, the target and the loop keep their types. *)
THEOREM TypeCorrect == Spec => []SwdTypeOK
<1>1. IInv => SwdTypeOK
  BY DEF IInv
<1>. QED
  BY <1>1, Invariance, PTL

(***************************************************************************)
(* A function of the algorithm is only called on a target on which the     *)
(* algorithm is intact and was Init()ed for that kind of call.             *)
(***************************************************************************)
THEOREM CallsInitialised == Spec => []CallsAreInitialised
<1>1. IInv => CallsAreInitialised
  BY DEF IInv, InitedInv, CallsAreInitialised, Needs, Mode
<1>. QED
  BY <1>1, Invariance, PTL

(* Double buffering never mixes pages, whatever fails and whenever the target gets to a page. *)
THEOREM PagesOrdered == Spec => []PagesInOrder
<1>1. IInv => PagesInOrder
  BY DEF IInv
<1>. QED
  BY <1>1, Invariance, PTL

(* The stack init() lays out lies in the region it has checked, above the algorithm. *)
THEOREM StackPlaced == Spec => []StackInRam
<1>1. IInv => StackInRam
  <2> SUFFICES ASSUME IInv, stage \notin {"idle", "over", "detect"}, NoWrap, fa.page_size % 4 = 0
               PROVE  /\ ram.start <= fa.load_address /\ code_end <= stack_bottom
                      /\ stack_bottom + StackSize <= ram.end
    BY DEF StackInRam
  <2>1. JobInv /\ Placeable /\ stack_bottom = new_stack_bottom
    BY DEF IInv, LayoutInv
  <2> DEFINE la == fa.load_address
             len == fa.algo_bin_len
             ps == fa.page_size
  <2>2. /\ la \in Nat /\ len \in Nat /\ ps \in Nat /\ code_end \in Nat /\ StackSize \in Nat
        /\ code_end <= la + len + 7 /\ stack_bottom = code_end + 2 * ps
    BY <2>1, Layout, SwdAssumption
  <2>3. /\ ram.start <= la /\ ram.end \in Nat /\ la + len + 2 * ps + StackSize + 8 <= ram.end
    BY <2>1, RegionFacts
  <2> HIDE DEF la, len, ps
  <2>4. code_end <= stack_bottom /\ stack_bottom + StackSize <= ram.end
    BY <2>2, <2>3
  <2>. QED
    BY <2>3, <2>4 DEF la
<1>. QED
  BY <1>1, Invariance, PTL

(* The configuration is the active job's alone, whatever was published before. *)
THEOREM ConfigOfJob == Spec => []ConfigIsOfJob
<1>1. IInv => ConfigIsOfJob
  BY DecoderPromises DEF IInv
<1>. QED
  BY <1>1, Invariance, PTL

(* Refused, failed and replaced jobs leave nothing allocated. *)
THEOREM HeapIsOwned == Spec => []NoLeak
<1>1. IInv => NoLeak
  BY DecoderPromises DEF IInv
<1>. QED
  BY <1>1, Invariance, PTL

===============================================================================
