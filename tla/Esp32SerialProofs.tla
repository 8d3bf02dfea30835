-------------------------- MODULE Esp32SerialProofs ---------------------------
(***************************************************************************)
(* Proofs about the ESP32 backend, for every job, flash size, sector and   *)
(* block size: the arithmetic of sectors and padding, and with it that     *)
(* programming one image leaves the others alone.                          *)
(***************************************************************************)
EXTENDS Esp32Serial, IntegerFacts, SequenceTheorems

(* The loop of program(): idle, inside an image that fits, or past the last one. *)
LoopInv ==
    /\ stage \in {"idle", "pre", "detect"} => img = 1 /\ sent = -1
    /\ stage \in {"verify", "test"} => img = Len(cfg.images) + 1
    /\ sent # -1 => stage = "program" /\ fits(img, flash_limit)
    /\ sent # -1 /\ sent < real_len(img) => sent % Word = 0

(* Past detect() every image has been checked, against the chip when its size is known. *)
LimitInv ==
    stage \in {"program", "verify", "test"} =>
        validate_images(flash_limit) /\ (sized => flash_limit <= size)

(* Nothing is written to a target before detect() has succeeded. *)
FreshInv == stage \in {"pre", "detect"} => \A a \in Address : flash[a] = Other

IInv == /\ EspTypeOK /\ NoStaleConnection /\ LoopInv /\ LimitInv /\ FreshInv
        /\ FinishedImagesIntact /\ WritesStayInFlash

-------------------------------------------------------------------------------
(***************************************************************************)
(* Facts about one image, about two, and about the cells of the chip.      *)
(***************************************************************************)
LEMMA ImageFacts ==
    ASSUME EspTypeOK, NEW i \in Images
    PROVE  /\ Len(cfg.images) \in Nat /\ i \in 1..MaxImages
           /\ offset(i) \in Nat /\ real_len(i) \in Nat /\ padded_len(i) \in Nat
           /\ real_len(i) <= padded_len(i)
           /\ sector_start(i) \in Nat /\ sector_end(i) \in Nat
           /\ sector_start(i) <= offset(i) /\ offset(i) + padded_len(i) <= sector_end(i)
<1>1. cfg.images \in Seq([offset : Nat, len : Nat]) /\ Len(cfg.images) <= MaxImages /\ MaxImages \in Nat
  BY EspAssumption DEF EspTypeOK
<1>2. Len(cfg.images) \in Nat /\ i \in 1..Len(cfg.images) /\ cfg.images[i] \in [offset : Nat, len : Nat]
  BY <1>1, LenProperties, ElementOfSeq DEF Images
<1>3. offset(i) \in Nat /\ real_len(i) \in Nat /\ i \in 1..MaxImages
  BY <1>1, <1>2 DEF offset, real_len
<1>4. padded_len(i) \in Nat /\ real_len(i) <= padded_len(i)
  BY <1>3, RoundUp, EspAssumption DEF padded_len
<1>5. sector_start(i) \in Nat /\ sector_start(i) <= offset(i)
  BY <1>3, RoundDown, EspAssumption DEF sector_start
<1>6. offset(i) + padded_len(i) \in Nat
  BY <1>3, <1>4
<1>7. sector_end(i) \in Nat /\ offset(i) + padded_len(i) <= sector_end(i)
  BY <1>6, RoundUp, EspAssumption DEF sector_end
<1>. QED
  BY <1>2, <1>3, <1>4, <1>5, <1>7

LEMMA SizeFacts ==
    ASSUME EspTypeOK
    PROVE  /\ size \in Nat \ {0} /\ size <= FlashEnd /\ FlashEnd \in Nat /\ size % Sector = 0
           /\ flash_limit \in Nat /\ flash_limit <= FlashEnd
BY EspAssumption DEF EspTypeOK

(* A chip has room for a byte of each kind. *)
LEMMA BytesFit ==
    ASSUME NEW s \in Size
    PROVE  Other \in Byte /\ Erased \in Byte
<1>1. FlashEnd \in Nat \ {0} /\ MaxImages \in Nat
  BY EspAssumption
<1>2. 0 \in 0..MaxImages /\ 0 \in 0..FlashEnd /\ 1 \in 0..FlashEnd
  BY <1>1
<1>. QED
  BY <1>2 DEF Other, Erased, Byte

(* No address of the chip wraps around. *)
LEMMA CellIsAddress ==
    ASSUME EspTypeOK, NEW a \in Nat, a < size
    PROVE  Cell(a) = a /\ a \in Address
BY SizeFacts, ModSmall DEF Cell, Address

(* The sectors of an image that fits the limit are sectors of the chip. *)
LEMMA SectorsInChip ==
    ASSUME EspTypeOK, NEW i \in Images, fits(i, flash_limit), flash_limit <= size
    PROVE  sector_end(i) <= size /\ offset(i) + padded_len(i) <= flash_limit
<1>1. offset(i) + padded_len(i) \in Nat /\ offset(i) + padded_len(i) <= flash_limit
  BY ImageFacts, SizeFacts DEF fits
<1>2. offset(i) + padded_len(i) <= size
  BY <1>1, ImageFacts, SizeFacts
<1>. QED
  BY <1>1, <1>2, SizeFacts, RoundUpLeast, EspAssumption DEF sector_end

(* validate_images(): no two images share an erase sector. *)
LEMMA SectorsDisjoint ==
    ASSUME EspTypeOK, validate_images(flash_limit), NEW i \in Images, NEW j \in Images, i # j
    PROVE  sector_end(i) <= sector_start(j) \/ sector_end(j) <= sector_start(i)
<1>1. CASE i < j
  <2>1. i \in 1..j - 1
    BY <1>1, ImageFacts
  <2>2. ~(sector_start(j) < sector_end(i) /\ sector_start(i) < sector_end(j))
    BY <2>1 DEF validate_images
  <2>. QED
    BY <2>2, ImageFacts
<1>2. CASE j < i
  <2>1. j \in 1..i - 1
    BY <1>2, ImageFacts
  <2>2. ~(sector_start(i) < sector_end(j) /\ sector_start(j) < sector_end(i))
    BY <2>1 DEF validate_images
  <2>. QED
    BY <2>2, ImageFacts
<1>. QED
  BY <1>1, <1>2, ImageFacts

(* The next chunk: whole words up to the last one, which takes the padding along. *)
LEMMA Chunk ==
    ASSUME EspTypeOK, LoopInv, sent # -1, sent < real_len(img)
    PROVE  /\ img \in Images /\ sent \in Nat /\ want \in Nat /\ send_len \in Nat
           /\ sent + want <= real_len(img) /\ sent + send_len <= padded_len(img)
           /\ sent + want < real_len(img) => (sent + want) % Word = 0
           /\ send_len <= Block
<1>1. img \in Images /\ sent \in Nat /\ sent \in 0..real_len(img)
  BY ImageFacts DEF EspTypeOK
<1>2. /\ real_len(img) \in Nat /\ padded_len(img) \in Nat /\ real_len(img) <= padded_len(img)
      /\ Block \in Nat /\ Word \in Nat \ {0} /\ Block % Word = 0 /\ sent % Word = 0
  BY <1>1, ImageFacts, EspAssumption DEF LoopInv
<1>3. want \in Nat /\ want <= Block /\ sent + want <= real_len(img)
      /\ (sent + want < real_len(img) => want = Block)
  BY <1>1, <1>2 DEF want
<1>4. (sent + Block) % Word = 0
  BY <1>1, <1>2, ModSum
<1>5. send_len \in Nat /\ sent + send_len <= padded_len(img)
  BY <1>1, <1>2, <1>3 DEF send_len, pad_len
<1>6. send_len <= Block
  <2>1. CASE sent + want = real_len(img)
    <3>1. real_len(img) <= sent + Block
      BY <1>1, <1>2, <1>3, <2>1
    <3>2. padded_len(img) <= sent + Block
      <4>1. sent + Block \in Nat
        BY <1>1, <1>2
      <4>. QED
        BY <1>2, <1>4, <3>1, <4>1, RoundUpLeast DEF padded_len
    <3>. QED
      BY <1>1, <1>2, <1>3, <2>1, <3>2 DEF send_len, pad_len
  <2>2. CASE sent + want # real_len(img)
    BY <1>3, <2>2 DEF send_len
  <2>. QED
    BY <2>1, <2>2
<1>. QED
  BY <1>1, <1>3, <1>4, <1>5, <1>6

(* An image stays as it is when the cells it occupies do. *)
LEMMA MatchesKept ==
    ASSUME EspTypeOK, UNCHANGED <<cfg, size>>, NEW i, Matches(i),
           \A k \in 0..padded_len(i) - 1 :
               flash'[Cell(offset(i) + k)] = flash[Cell(offset(i) + k)]
    PROVE  Matches(i)'
BY DEF Matches, padded_len, real_len, offset, Cell

LEMMA MatchesSame ==
    ASSUME UNCHANGED <<cfg, size, flash>>, NEW i, Matches(i)
    PROVE  Matches(i)'
BY DEF Matches, padded_len, real_len, offset, Cell

LEMMA ValidSame ==
    ASSUME UNCHANGED cfg, NEW limit, validate_images(limit)
    PROVE  validate_images(limit)'
BY DEF validate_images, fits, sector_start, sector_end, padded_len, real_len, offset, Images

USE DEF linkVars, loopVars

-------------------------------------------------------------------------------
(***************************************************************************)
(* One lemma per group of actions.  A run ends and another begins.         *)
(***************************************************************************)
LEMMA EndStep ==
    ASSUME IInv, Fail \/ PostProgrammed
    PROVE  IInv'
<1>1. /\ stage' = "idle" /\ img' = 1 /\ sent' = -1 /\ connected' = FALSE /\ flash_limit' = 0
      /\ sized' = FALSE /\ target' \in {"app", target} /\ UNCHANGED <<cfg, size, flash>>
  BY DEF Fail, PostProgrammed, release_transport
<1>2. EspTypeOK'
  <2>1. Len(cfg.images) \in Nat
    BY EspAssumption, LenProperties DEF IInv, EspTypeOK
  <2>2. 0 \in 0..FlashEnd /\ img' \in 1..Len(cfg.images) + 1
    BY <1>1, <2>1, EspAssumption
  <2>. QED
    BY <1>1, <2>2 DEF IInv, EspTypeOK
<1>3. LoopInv' /\ LimitInv' /\ FreshInv' /\ NoStaleConnection'
  BY <1>1 DEF LoopInv, LimitInv, FreshInv, NoStaleConnection
<1>4. FinishedImagesIntact' /\ WritesStayInFlash'
  BY <1>1 DEF FinishedImagesIntact, WritesStayInFlash
<1>. QED
  BY <1>2, <1>3, <1>4 DEF IInv

LEMMA BeginStep ==
    ASSUME IInv, BeginSession
    PROVE  IInv'
<1>1. /\ stage = "idle" /\ stage' = "pre" /\ cfg' \in Config /\ size' \in Size /\ target' = "app"
      /\ flash' = [a \in Address |-> Other] /\ UNCHANGED <<connected, flash_limit, sized, img, sent>>
      /\ img = 1 /\ sent = -1
  BY DEF BeginSession, IInv, LoopInv
<1>2. EspTypeOK'
  <2>1. Other \in Byte
    BY <1>1, BytesFit
  <2>2. Len(cfg'.images) \in Nat
    BY <1>1, EspAssumption, LenProperties
  <2>3. img' \in 1..Len(cfg'.images) + 1
    BY <1>1, <2>2
  <2>4. flash' \in [Address -> Byte]
    BY <1>1, <2>1
  <2>. QED
    BY <1>1, <2>3, <2>4 DEF IInv, EspTypeOK
<1>3. LoopInv' /\ LimitInv' /\ FreshInv' /\ NoStaleConnection'
  BY <1>1 DEF IInv, LoopInv, LimitInv, FreshInv, NoStaleConnection
<1>4. FinishedImagesIntact' /\ WritesStayInFlash'
  BY <1>1 DEF FinishedImagesIntact, WritesStayInFlash
<1>. QED
  BY <1>2, <1>3, <1>4 DEF IInv

(* Steps outside programming, which at most reset the target or run the stub. *)
LEMMA OtherStep ==
    ASSUME IInv, reset_target \/ PreProgrammed \/ DetectRetry \/ SelfTest
    PROVE  IInv'
<1>1. /\ stage' \in {"pre", "detect", "post"} /\ target' \in {"app", "stub"}
      /\ UNCHANGED <<cfg, size, connected, flash_limit, sized, img, sent, flash>>
      /\ (stage' \in {"pre", "detect"} => stage \in {"pre", "detect"})
      /\ stage # "program"
  BY DEF reset_target, PreProgrammed, DetectRetry, SelfTest, IInv, EspTypeOK
<1>2. EspTypeOK'
  BY <1>1 DEF IInv, EspTypeOK, Images, real_len
<1>3. LoopInv' /\ LimitInv' /\ FreshInv' /\ NoStaleConnection'
  BY <1>1 DEF IInv, LoopInv, LimitInv, FreshInv, NoStaleConnection
<1>4. FinishedImagesIntact' /\ WritesStayInFlash'
  BY <1>1 DEF FinishedImagesIntact, WritesStayInFlash
<1>. QED
  BY <1>2, <1>3, <1>4 DEF IInv

(* detect(): the limit is the smaller of the two sizes, and every image has been checked. *)
LEMMA DetectStep ==
    ASSUME IInv, Detect
    PROVE  IInv'
<1>1. ~connected /\ img = 1 /\ sent = -1
  BY DEF Detect, IInv, NoStaleConnection, LoopInv
<1>2. PICK detects \in BOOLEAN : /\ cfg.flash_size = 0 => detects
                                /\ validate_images(accessible(detects))
                                /\ flash_limit' = accessible(detects)
                                /\ sized' = detects
  BY <1>1 DEF Detect
<1>3. /\ stage' = "program" /\ connected' = TRUE /\ target' = "stub"
      /\ UNCHANGED <<cfg, size, img, sent, flash>>
  BY <1>1 DEF Detect
<1>4. flash_limit' \in 0..FlashEnd /\ (detects => flash_limit' <= size)
  <2>1. cfg.flash_size \in 0..FlashEnd
    BY EspAssumption DEF IInv, EspTypeOK
  <2>. QED
    BY <1>2, <2>1, SizeFacts DEF accessible, IInv
<1>5. EspTypeOK'
  BY <1>2, <1>3, <1>4 DEF IInv, EspTypeOK, Images, real_len
<1>6. LoopInv' /\ FreshInv' /\ NoStaleConnection'
  BY <1>1, <1>3 DEF LoopInv, FreshInv, NoStaleConnection
<1>7. LimitInv'
  BY <1>2, <1>3, <1>4, ValidSame DEF LimitInv
<1>8. FinishedImagesIntact' /\ WritesStayInFlash'
  BY <1>1, <1>3 DEF Detect, IInv, FreshInv, FinishedImagesIntact, WritesStayInFlash
<1>. QED
  BY <1>5, <1>6, <1>7, <1>8 DEF IInv

(* program() and verify() are done. *)
LEMMA StageStep ==
    ASSUME IInv, Programmed \/ Verify
    PROVE  IInv'
<1>1. /\ stage' \in {"verify", "test"} /\ stage \in {"program", "verify"} /\ img = Len(cfg.images) + 1
      /\ UNCHANGED <<cfg, size, connected, flash_limit, sized, target, img, sent, flash>>
      /\ (stage' = "verify" => stage = "program")
  BY DEF Programmed, Verify, IInv, LoopInv
<1>2. Len(cfg.images) \in Nat
  BY EspAssumption, LenProperties DEF IInv, EspTypeOK
<1>3. sent = -1
  BY <1>1, <1>2 DEF IInv, EspTypeOK, Images
<1>4. EspTypeOK'
  BY <1>1 DEF IInv, EspTypeOK, Images, real_len
<1>5. LoopInv' /\ FreshInv' /\ NoStaleConnection'
  BY <1>1, <1>3 DEF IInv, LoopInv, FreshInv, NoStaleConnection
<1>6. LimitInv'
  BY <1>1, ValidSame DEF IInv, LimitInv
<1>7. FinishedImagesIntact'
  <2>1. CASE Programmed
    BY <2>1, <1>1, MatchesSame DEF Programmed, IInv, FinishedImagesIntact
  <2>2. CASE Verify
    <3>1. \A i \in 1..img - 1 : Matches(i)
      BY <2>2, <1>1, <1>2 DEF Verify, Images
    <3>. QED
      BY <3>1, <1>1, MatchesSame DEF FinishedImagesIntact
  <2>. QED
    BY <2>1, <2>2
<1>8. WritesStayInFlash'
  BY <1>1 DEF IInv, WritesStayInFlash, offset
<1>. QED
  BY <1>4, <1>5, <1>6, <1>7, <1>8 DEF IInv

-------------------------------------------------------------------------------
(***************************************************************************)
(* Programming an image.  Whatever touches only cells between the sectors  *)
(* of the current image leaves the images before it alone.                 *)
(***************************************************************************)
LEMMA EarlierImagesKept ==
    ASSUME IInv, img \in Images, stage = "program", UNCHANGED <<cfg, size, stage, sized, img>>,
           sized => \A a \in Address :
                        \/ a \in sector_start(img)..sector_end(img) - 1
                        \/ flash'[a] = flash[a]
    PROVE  FinishedImagesIntact'
<1> SUFFICES ASSUME sized, NEW i \in 1..img - 1
             PROVE  Matches(i)'
  BY DEF FinishedImagesIntact
<1>0. EspTypeOK
  BY DEF IInv
<1>1. i \in Images /\ i # img /\ Matches(i)
  <2>1. img \in 1..Len(cfg.images) /\ Len(cfg.images) \in Nat
    BY <1>0, ImageFacts DEF Images
  <2>2. i \in 1..Len(cfg.images) /\ i # img
    BY <2>1
  <2>. QED
    BY <2>2 DEF IInv, FinishedImagesIntact, Images
<1>2. validate_images(flash_limit) /\ flash_limit <= size /\ fits(i, flash_limit)
  BY <1>1 DEF IInv, LimitInv, validate_images
<1>3. sector_end(i) <= size /\ (sector_end(i) <= sector_start(img) \/ sector_end(img) <= sector_start(i))
  BY <1>0, <1>1, <1>2, SectorsInChip, SectorsDisjoint
<1>4. ASSUME NEW k \in 0..padded_len(i) - 1
      PROVE  flash'[Cell(offset(i) + k)] = flash[Cell(offset(i) + k)]
  <2>1. /\ offset(i) \in Nat /\ padded_len(i) \in Nat /\ sector_start(i) \in Nat /\ sector_end(i) \in Nat
        /\ sector_start(i) <= offset(i) /\ offset(i) + padded_len(i) <= sector_end(i)
    BY <1>0, <1>1, ImageFacts
  <2>2. sector_start(img) \in Nat /\ sector_end(img) \in Nat /\ size \in Nat
    BY <1>0, ImageFacts, SizeFacts
  <2>3. offset(i) + k \in Nat /\ offset(i) + k < size /\ offset(i) + k \notin sector_start(img)..sector_end(img) - 1
    BY <1>3, <2>1, <2>2
  <2>4. Cell(offset(i) + k) = offset(i) + k /\ offset(i) + k \in Address
    BY <1>0, <2>3, CellIsAddress
  <2>. QED
    BY <2>3, <2>4
<1>. QED
  BY <1>0, <1>1, <1>4, MatchesKept

(* flash_start() erases the sectors of the image and nothing else. *)
LEMMA StartStep ==
    ASSUME IInv, FlashStart
    PROVE  IInv'
<1>0. EspTypeOK
  BY DEF IInv
<1>1. /\ stage = "program" /\ img \in Images /\ fits(img, flash_limit) /\ sent' = 0
      /\ UNCHANGED <<cfg, size, stage, connected, flash_limit, sized, target, img>>
      /\ flash' = [a \in Address |->
                      IF \E b \in sector_start(img)..sector_end(img) - 1 : Cell(b) = a
                      THEN Erased ELSE flash[a]]
  BY DEF FlashStart
<1>2. /\ real_len(img) \in Nat /\ sector_start(img) \in Nat /\ sector_end(img) \in Nat
      /\ Word \in Nat \ {0} /\ sent' \in 0..real_len(img)
  BY <1>0, <1>1, ImageFacts, EspAssumption
<1>3. \A a \in Address : flash'[a] \in {Erased, flash[a]}
  BY <1>1
<1>4. EspTypeOK'
  <2>1. Erased \in Byte
    BY <1>0, BytesFit DEF EspTypeOK
  <2>2. flash' \in [Address -> Byte]
    BY <1>0, <1>1, <2>1 DEF EspTypeOK
  <2>. QED
    BY <1>0, <1>1, <1>2, <2>2 DEF EspTypeOK, Images, real_len
<1>5. LoopInv'
  <2>1. 0 % Word = 0
    BY <1>2
  <2>2. fits(img, flash_limit)'
    BY <1>1 DEF fits, offset, padded_len, real_len
  <2>. QED
    BY <1>1, <2>1, <2>2 DEF LoopInv
<1>6. LimitInv' /\ FreshInv' /\ NoStaleConnection'
  BY <1>1, ValidSame DEF IInv, LimitInv, FreshInv, NoStaleConnection
<1>7. FinishedImagesIntact'
  <2>1. ASSUME sized, NEW a \in Address, a \notin sector_start(img)..sector_end(img) - 1
        PROVE  flash'[a] = flash[a]
    <3>1. sector_end(img) <= size
      BY <1>0, <1>1, <2>1, SectorsInChip DEF IInv, LimitInv
    <3>2. \A b \in sector_start(img)..sector_end(img) - 1 : Cell(b) = b
      BY <1>0, <1>2, <3>1, SizeFacts, CellIsAddress
    <3>. QED
      BY <1>1, <2>1, <3>2
  <2>. QED
    BY <1>1, <2>1, EarlierImagesKept
<1>8. WritesStayInFlash'
  BY <1>1, <1>3 DEF IInv, WritesStayInFlash, offset
<1>. QED
  BY <1>4, <1>5, <1>6, <1>7, <1>8 DEF IInv

(* flash_finish() accepts the image. *)
LEMMA FinishStep ==
    ASSUME IInv, FlashFinish
    PROVE  IInv'
<1>0. EspTypeOK
  BY DEF IInv
<1>1. /\ stage = "program" /\ img \in Images /\ Matches(img) /\ img' = img + 1 /\ sent' = -1
      /\ UNCHANGED <<cfg, size, stage, connected, flash_limit, sized, target, flash>>
  BY DEF FlashFinish
<1>2. Len(cfg.images) \in Nat /\ img \in 1..Len(cfg.images)
  BY <1>0, <1>1, ImageFacts DEF Images
<1>3. EspTypeOK'
  <2>1. img' \in 1..Len(cfg.images) + 1
    BY <1>1, <1>2
  <2>. QED
    BY <1>0, <1>1, <2>1 DEF EspTypeOK
<1>4. LoopInv' /\ FreshInv' /\ NoStaleConnection'
  BY <1>1 DEF IInv, LoopInv, FreshInv, NoStaleConnection
<1>5. LimitInv'
  BY <1>1, ValidSame DEF IInv, LimitInv
<1>6. FinishedImagesIntact'
  <2> SUFFICES ASSUME sized, NEW i \in 1..img' - 1
               PROVE  Matches(i)'
    BY <1>1 DEF FinishedImagesIntact
  <2>1. i \in 1..img - 1 \/ i = img
    BY <1>1, <1>2
  <2>2. Matches(i)
    BY <1>1, <2>1 DEF IInv, FinishedImagesIntact
  <2>. QED
    BY <1>1, <2>2, MatchesSame
<1>7. WritesStayInFlash'
  BY <1>1 DEF IInv, WritesStayInFlash, offset
<1>. QED
  BY <1>3, <1>4, <1>5, <1>6, <1>7 DEF IInv

(* The bytes of the chunk that land on a cell. *)
Landing(a) == {k \in sent..sent + send_len - 1 : Cell(offset(img) + k) = a}

(***************************************************************************)
(* One block: a cell the chunk does not reach keeps its byte, the others   *)
(* take a byte of the image, padding, or a wrong byte.                     *)
(***************************************************************************)
LEMMA BlockWritten ==
    ASSUME IInv, FlashWrite, NEW a \in Address
    PROVE  \/ flash'[a] = flash[a] /\ Landing(a) = {}
           \/ flash'[a] \in {Other, Erased} /\ Landing(a) # {}
           \/ \E k \in Landing(a) : k < real_len(img) /\ flash'[a] = <<img, k>>
<1>1. PICK stored \in BOOLEAN :
          flash' = [c \in Address |->
                      IF Landing(c) = {} THEN flash[c]
                      ELSE IF ~stored THEN Other
                      ELSE LET k == CHOOSE k \in Landing(c) : \A j \in Landing(c) : j <= k IN
                           IF k < real_len(img) THEN <<img, k>> ELSE Erased]
  BY DEF FlashWrite, Landing
<1>2. Landing(a) # {} => \E k \in Landing(a) : \A j \in Landing(a) : j <= k
  <2>1. sent \in Int /\ sent + send_len - 1 \in Int
    BY Chunk DEF FlashWrite, IInv
  <2>2. Landing(a) \subseteq sent..sent + send_len - 1
    BY DEF Landing
  <2>. QED
    BY <2>1, <2>2, Greatest
<1> DEFINE last == CHOOSE k \in Landing(a) : \A j \in Landing(a) : j <= k
<1>3. Landing(a) # {} => last \in Landing(a)
  BY <1>2
<1>4. flash'[a] = IF Landing(a) = {} THEN flash[a]
                  ELSE IF ~stored THEN Other
                  ELSE IF last < real_len(img) THEN <<img, last>> ELSE Erased
  BY <1>1
<1> HIDE DEF last
<1>. QED
  BY <1>3, <1>4

LEMMA WriteStep ==
    ASSUME IInv, FlashWrite
    PROVE  IInv'
<1>0. EspTypeOK /\ LoopInv /\ LimitInv
  BY DEF IInv
<1>1. /\ stage = "program" /\ sent # -1 /\ sent < real_len(img) /\ sent' = sent + want
      /\ UNCHANGED <<cfg, size, stage, connected, flash_limit, sized, target, img>>
  BY DEF FlashWrite
<1>2. /\ img \in Images /\ sent \in Nat /\ want \in Nat /\ send_len \in Nat
      /\ sent + want <= real_len(img) /\ sent + send_len <= padded_len(img)
      /\ sent + want < real_len(img) => (sent + want) % Word = 0
  BY <1>0, <1>1, Chunk
<1>3. fits(img, flash_limit)
  BY <1>0, <1>1 DEF LoopInv
<1>4. /\ img \in 1..MaxImages /\ offset(img) \in Nat /\ real_len(img) \in Nat /\ padded_len(img) \in Nat
      /\ sector_start(img) \in Nat /\ sector_end(img) \in Nat /\ sector_start(img) <= offset(img)
      /\ offset(img) + padded_len(img) <= sector_end(img) /\ real_len(img) <= padded_len(img)
  BY <1>0, <1>2, ImageFacts
<1>5. flash_limit \in Nat /\ flash_limit <= FlashEnd /\ FlashEnd \in Nat /\ MaxImages \in Nat
  BY <1>0, SizeFacts, EspAssumption
<1>6. \A k \in sent..sent + send_len - 1 : k \in 0..FlashEnd
  BY <1>2, <1>3, <1>4, <1>5 DEF fits
<1>7. EspTypeOK'
  <2>1. Other \in Byte /\ Erased \in Byte
    BY <1>0, BytesFit DEF EspTypeOK
  <2>2. \A a \in Address : flash'[a] \in Byte
    <3> SUFFICES ASSUME NEW a \in Address PROVE flash'[a] \in Byte
      OBVIOUS
    <3>1. ASSUME NEW k \in Landing(a), flash'[a] = <<img, k>>
          PROVE  flash'[a] \in Byte
      <4>1. k \in 0..FlashEnd /\ img \in 0..MaxImages
        BY <1>4, <1>5, <1>6 DEF Landing
      <4>. QED
        BY <3>1, <4>1 DEF Byte
    <3>2. flash[a] \in Byte
      BY <1>0 DEF EspTypeOK
    <3>. QED
      BY <2>1, <3>1, <3>2, BlockWritten
  <2>3. flash' \in [Address -> Byte]
    <3>1. PICK stored \in BOOLEAN :
            flash' = [a \in Address |->
                        LET ks == {k \in sent..sent + send_len - 1 : Cell(offset(img) + k) = a} IN
                        IF ks = {} THEN flash[a]
                        ELSE IF ~stored THEN Other
                        ELSE LET k == CHOOSE k \in ks : \A j \in ks : j <= k IN
                             IF k < real_len(img) THEN <<img, k>> ELSE Erased]
      BY DEF FlashWrite
    <3>. QED
      BY <2>2, <3>1
  <2>4. sent' \in 0..real_len(img)
    BY <1>1, <1>2, <1>4
  <2>. QED
    BY <1>0, <1>1, <1>2, <2>3, <2>4 DEF EspTypeOK, Images, real_len
<1>8. LoopInv'
  <2>1. fits(img, flash_limit)'
    BY <1>1, <1>3 DEF fits, offset, padded_len, real_len
  <2>. QED
    BY <1>0, <1>1, <1>2, <2>1 DEF LoopInv, real_len
<1>9. LimitInv' /\ FreshInv' /\ NoStaleConnection'
  BY <1>0, <1>1, ValidSame DEF IInv, LimitInv, FreshInv, NoStaleConnection
<1>10. ASSUME sized, NEW a \in Address, NEW k \in Landing(a)
       PROVE  a = offset(img) + k /\ a < flash_limit /\ a \in sector_start(img)..sector_end(img) - 1
  <2>1. offset(img) + padded_len(img) <= flash_limit /\ flash_limit <= size
    BY <1>0, <1>1, <1>2, <1>3, <1>10, SectorsInChip DEF LimitInv
  <2>2. k \in Nat /\ k < padded_len(img)
    BY <1>2, <1>4 DEF Landing
  <2>3. offset(img) + k \in Nat /\ offset(img) + k < flash_limit /\ offset(img) + k < size
        /\ offset(img) + k \in sector_start(img)..sector_end(img) - 1
    BY <1>0, <1>4, <1>5, <2>1, <2>2, SizeFacts
  <2>4. a = offset(img) + k
    BY <1>0, <2>3, CellIsAddress DEF Landing
  <2>. QED
    BY <2>3, <2>4
<1>11. FinishedImagesIntact'
  <2>1. ASSUME sized, NEW a \in Address, flash'[a] # flash[a]
        PROVE  a \in sector_start(img)..sector_end(img) - 1
    <3>1. PICK k \in Landing(a) : TRUE
      BY <2>1, BlockWritten
    <3>. QED
      BY <1>10, <2>1, <3>1
  <2>. QED
    BY <1>1, <1>2, <2>1, EarlierImagesKept
<1>12. WritesStayInFlash'
  <2> SUFFICES ASSUME sized, NEW a \in Address, flash'[a] \notin {Other, Erased}
               PROVE  a = offset(flash'[a][1]) + flash'[a][2] /\ a < flash_limit
    BY <1>1 DEF WritesStayInFlash, offset
  <2>1. CASE flash'[a] = flash[a]
    BY <1>1, <2>1 DEF IInv, WritesStayInFlash
  <2>2. CASE \E k \in Landing(a) : flash'[a] = <<img, k>>
    BY <1>10, <2>2
  <2>. QED
    BY <2>1, <2>2, BlockWritten
<1>. QED
  BY <1>7, <1>8, <1>9, <1>11, <1>12 DEF IInv

-------------------------------------------------------------------------------
(* The inductive invariant holds from the start. *)
THEOREM Invariance == Spec => []IInv
<1>1. Init => IInv
  <2> SUFFICES ASSUME Init PROVE IInv
    OBVIOUS
  <2>1. Len(cfg.images) \in Nat /\ 0 \in 0..FlashEnd
    BY EspAssumption, LenProperties DEF Init
  <2>2. Other \in Byte
    BY BytesFit DEF Init
  <2>3. img \in 1..Len(cfg.images) + 1
    BY <2>1 DEF Init
  <2>4. flash \in [Address -> Byte]
    BY <2>2 DEF Init
  <2>5. EspTypeOK
    BY <2>1, <2>3, <2>4 DEF Init, EspTypeOK
  <2>6. NoStaleConnection /\ LoopInv /\ LimitInv /\ FreshInv
    BY DEF Init, NoStaleConnection, LoopInv, LimitInv, FreshInv
  <2>7. FinishedImagesIntact /\ WritesStayInFlash
    BY DEF Init, FinishedImagesIntact, WritesStayInFlash
  <2>. QED
    BY <2>5, <2>6, <2>7 DEF IInv
<1>2. IInv /\ [Next]_vars => IInv'
  <2> SUFFICES ASSUME IInv, [Next]_vars PROVE IInv'
    OBVIOUS
  <2>1. CASE UNCHANGED vars
    <3>1. UNCHANGED <<cfg, size, stage, connected, flash_limit, sized, target, img, sent, flash>>
      BY <2>1 DEF vars
    <3>2. EspTypeOK' /\ LoopInv'
      BY <3>1 DEF IInv, EspTypeOK, LoopInv, Images, fits, offset, padded_len, real_len
    <3>3. LimitInv' /\ FreshInv' /\ NoStaleConnection'
      BY <3>1, ValidSame DEF IInv, LimitInv, FreshInv, NoStaleConnection
    <3>4. FinishedImagesIntact' /\ WritesStayInFlash'
      BY <3>1, MatchesSame DEF IInv, FinishedImagesIntact, WritesStayInFlash, offset
    <3>. QED
      BY <3>2, <3>3, <3>4 DEF IInv
  <2>2. CASE Next
    BY <2>2, EndStep, BeginStep, OtherStep, DetectStep, StageStep, StartStep, WriteStep, FinishStep
       DEF Next, Program
  <2>. QED
    BY <2>1, <2>2
<1>. QED
  BY <1>1, <1>2, PTL DEF Spec

(* The backend, its loops and the target's flash keep their types. *)
THEOREM TypeCorrect == Spec => []EspTypeOK
<1>1. IInv => EspTypeOK
  BY DEF IInv
<1>. QED
  BY <1>1, Invariance, PTL

(* connect_locked() never takes the connection of an earlier target for its own. *)
THEOREM ConnectionIsFresh == Spec => []NoStaleConnection
<1>1. IInv => NoStaleConnection
  BY DEF IInv
<1>. QED
  BY <1>1, Invariance, PTL

(***************************************************************************)
(* An image that flash_finish() accepted is neither erased nor overwritten *)
(* by the ones after it, whatever the layout validate_images() lets pass.  *)
(***************************************************************************)
THEOREM ImagesIntact == Spec => []FinishedImagesIntact
<1>1. IInv => FinishedImagesIntact
  BY DEF IInv
<1>. QED
  BY <1>1, Invariance, PTL

(* With the flash size detected, every byte of an image is stored where the job puts it. *)
THEOREM NoWrapAround == Spec => []WritesStayInFlash
<1>1. IInv => WritesStayInFlash
  BY DEF IInv
<1>. QED
  BY <1>1, Invariance, PTL

(* The padded last chunk fits the staging block, for every length and word size. *)
THEOREM ChunkFitsBlock == Spec => []BlockBounded
<1>1. IInv => BlockBounded
  BY Chunk DEF IInv, BlockBounded
<1>. QED
  BY <1>1, Invariance, PTL

===============================================================================
