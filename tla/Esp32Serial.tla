----------------------------- MODULE Esp32Serial ------------------------------
(***************************************************************************)
(* esp32_serial_backend: an ESP32 target is programmed over its UART boot  *)
(* loader.  detect() opens the loader, limits access to the flash that is  *)
(* really there and checks every image against that limit and against the  *)
(* erase sectors of the others; program() streams the images block by      *)
(* block, verify() reads them back.                                        *)
(*                                                                         *)
(* The target's flash is modelled byte by byte.  The loader library and    *)
(* the chip are external: flash_start() erases the sectors of an image, a  *)
(* block may be stored wrongly, flash_finish() compares the MD5 of what    *)
(* was sent, and an address past the end of the chip wraps around.  The    *)
(* stages come in offline_flasher's order; whatever fails ends the run     *)
(* with release_transport(), and the next run has another target.          *)
(***************************************************************************)
EXTENDS Integers, Sequences

CONSTANTS Word,      \* alignment of offsets and sizes: 4
          Sector,    \* FLASH_SECTOR_SIZE
          Block,     \* sizeof(block)
          Config,    \* the jobs: images (offset, len) and flash_size, 0 if absent
          Size,      \* flash sizes of the targets
          FlashEnd,  \* bound: addresses of flash
          MaxImages  \* MAX_IMAGES

Address == 0..FlashEnd - 1

ASSUME EspAssumption ==
    /\ Word \in Nat \ {0} /\ Sector \in Nat \ {0} /\ Block \in Nat \ {0}
    /\ Block % Word = 0
    /\ FlashEnd \in Nat /\ MaxImages \in Nat
    /\ Size \subseteq 1..FlashEnd /\ \A s \in Size : s % Sector = 0
    /\ \A c \in Config :
          /\ c.images \in Seq([offset : Nat, len : Nat]) /\ Len(c.images) <= MaxImages
          /\ c.flash_size \in 0..FlashEnd

VARIABLES cfg,           \* the active job
          size,          \* the target's flash size
          stage,         \* the backend call offline_flasher is in
          connected,     \* connected
          flash_limit,   \* flash_limit
          sized,         \* esp_loader_flash_detect_size() answered
          target,        \* what the target runs: its own "app", or the loader's "stub"
          img,           \* the image being programmed
          sent,          \* bytes of its file sent; -1 before flash_start()
          flash          \* address -> <<image, byte>>, <<0, 0>> erased, <<0, 1>> other

linkVars == <<connected, flash_limit, sized, target>>
loopVars == <<img, sent, flash>>
vars == <<cfg, size, stage, linkVars, loopVars>>

Erased == <<0, 0>>   \* 0xFF, as the padding is
Other == <<0, 1>>    \* what the target held before, or a byte stored wrongly

Images == 1..Len(cfg.images)
offset(i) == cfg.images[i].offset
real_len(i) == cfg.images[i].len

-------------------------------------------------------------------------------
(***************************************************************************)
(* Arithmetic of validate_images(), program_one_image() and verify.        *)
(***************************************************************************)
padded_len(i) == ((real_len(i) + Word - 1) \div Word) * Word

(* Mutant: an aligned image gets a whole word of padding. *)
pad_len_never_zero(i) == Word - (real_len(i) % Word)

pad_len(i) == padded_len(i) - real_len(i)

sector_start(i) == (offset(i) \div Sector) * Sector
sector_end(i) == ((offset(i) + padded_len(i) + Sector - 1) \div Sector) * Sector

(* The checks of one image that program_one_image() and verify_one_image() repeat. *)
fits(i, limit) ==
    /\ real_len(i) > 0
    /\ offset(i) % Word = 0
    /\ offset(i) <= limit /\ padded_len(i) <= limit - offset(i)

(* Mutant: two images may share an erase sector as long as their bytes do not overlap. *)
validate_images_bytewise(limit) ==
    \A i \in Images :
        /\ fits(i, limit)
        /\ \A prev \in 1..i - 1 : ~(/\ offset(i) < offset(prev) + padded_len(prev)
                                    /\ offset(prev) < offset(i) + padded_len(i))

validate_images(limit) ==
    \A i \in Images :
        /\ fits(i, limit)
        /\ \A prev \in 1..i - 1 : ~(/\ sector_start(i) < sector_end(prev)
                                    /\ sector_start(prev) < sector_end(i))

(* Mutant: a configured size is trusted even when the flash turns out to be smaller. *)
accessible_configured(detects) == IF cfg.flash_size = 0 THEN size ELSE cfg.flash_size

(* connect_locked(): the smaller of the configured and the detected size. *)
accessible(detects) ==
    IF cfg.flash_size = 0 THEN size
    ELSE IF detects /\ size < cfg.flash_size THEN size
    ELSE cfg.flash_size

(* Mutant: the last chunk is taken to be as long as the others. *)
want_whole_block == Block

(* The next chunk of an image: want bytes of the file, and the padding after the last one. *)
want == IF real_len(img) - sent < Block THEN real_len(img) - sent ELSE Block
send_len == IF sent + want = real_len(img) THEN want + pad_len(img) ELSE want

(* The cell behind an address: a chip ignores the address bits above its size. *)
Cell(a) == a % size

(* Image i reads back from flash, padding included. *)
Matches(i) ==
    \A k \in 0..padded_len(i) - 1 :
        flash[Cell(offset(i) + k)] = IF k < real_len(i) THEN <<i, k>> ELSE Erased

-------------------------------------------------------------------------------
Byte == {<<i, k>> : i \in 0..MaxImages, k \in 0..FlashEnd}

(* One type invariant: the backend, its loops and the target's flash stay within their types. *)
EspTypeOK ==
    /\ cfg \in Config
    /\ size \in Size
    /\ stage \in {"idle", "pre", "detect", "program", "verify", "test", "post"}
    /\ connected \in BOOLEAN
    /\ flash_limit \in 0..FlashEnd
    /\ sized \in BOOLEAN
    /\ target \in {"app", "stub"}
    /\ img \in 1..Len(cfg.images) + 1
    /\ sent = -1 \/ (img \in Images /\ sent \in 0..real_len(img))
    /\ flash \in [Address -> Byte]

Init ==
    /\ cfg \in Config
    /\ size \in Size
    /\ stage = "idle"
    /\ connected = FALSE
    /\ flash_limit = 0
    /\ sized = FALSE
    /\ target = "app"
    /\ img = 1
    /\ sent = -1
    /\ flash = [a \in Address |-> Other]

(* Mutant: the transport is closed, but still taken for connected. *)
release_transport_leaking ==
    /\ target' = IF connected THEN "app" ELSE target
    /\ flash_limit' = 0
    /\ UNCHANGED <<connected, sized>>

(* release_transport(): the target is reset into normal boot, the UART dropped. *)
release_transport ==
    /\ target' = IF connected THEN "app" ELSE target
    /\ connected' = FALSE
    /\ flash_limit' = 0
    /\ sized' = FALSE

(* A stage fails or the run is cancelled: on_error() or on_cancelled(). *)
Fail ==
    /\ stage # "idle"
    /\ stage' = "idle"
    /\ img' = 1
    /\ sent' = -1
    /\ release_transport
    /\ UNCHANGED <<cfg, size, flash>>

(* PRE_PROGRAM: begin_session() drives the control pins of whatever target is there. *)
BeginSession ==
    /\ stage = "idle"
    /\ cfg' \in Config
    /\ size' \in Size
    /\ target' = "app"
    /\ flash' = [a \in Address |-> Other]
    /\ stage' = "pre"
    /\ UNCHANGED <<connected, flash_limit, sized, img, sent>>

(***************************************************************************)
(* A SWD_RESET_TARGET step.  Delays and register accesses leave this state *)
(* alone; a step that fails and is not ignored is a Fail.                  *)
(***************************************************************************)
reset_target ==
    /\ stage \in {"pre", "post"}
    /\ target' = "app"
    /\ UNCHANGED <<cfg, size, stage, connected, flash_limit, sized, loopVars>>

PreProgrammed ==
    /\ stage = "pre"
    /\ stage' = "detect"
    /\ UNCHANGED <<cfg, size, linkVars, loopVars>>

(***************************************************************************)
(* detect(): connect_locked() returns at once when already connected.  A   *)
(* job without flash_size needs the detected size.  erase() does nothing.  *)
(***************************************************************************)
Detect ==
    /\ stage = "detect"
    /\ \/ /\ connected
          /\ UNCHANGED linkVars
       \/ /\ ~connected
          /\ \E detects \in BOOLEAN :
                /\ cfg.flash_size = 0 => detects
                /\ validate_images(accessible(detects))
                /\ flash_limit' = accessible(detects)
                /\ sized' = detects
          /\ target' = "stub"
          /\ connected' = TRUE
    /\ stage' = "program"
    /\ UNCHANGED <<cfg, size, loopVars>>

(* connect_locked() fails at some point and on_detect() tries again; the stub may be running. *)
DetectRetry ==
    /\ stage = "detect"
    /\ ~connected
    /\ target' \in {target, "stub"}
    /\ UNCHANGED <<cfg, size, stage, connected, flash_limit, sized, loopVars>>

(* program_one_image() up to esp_loader_flash_start(), which erases the image's sectors. *)
FlashStart ==
    /\ stage = "program"
    /\ img \in Images
    /\ sent = -1
    /\ fits(img, flash_limit)
    /\ target = "stub"
    /\ flash' = [a \in Address |->
                    IF \E b \in sector_start(img)..sector_end(img) - 1 : Cell(b) = a
                    THEN Erased ELSE flash[a]]
    /\ sent' = 0
    /\ UNCHANGED <<cfg, size, stage, linkVars, img>>

(* One block: read exactly, padded if it is the last, and perhaps stored wrongly. *)
FlashWrite ==
    /\ stage = "program"
    /\ sent >= 0
    /\ sent < real_len(img)
    /\ target = "stub"
    /\ \E stored \in BOOLEAN :
          flash' = [a \in Address |->
                      LET ks == {k \in sent..sent + send_len - 1 : Cell(offset(img) + k) = a} IN
                      IF ks = {} THEN flash[a]
                      ELSE IF ~stored THEN Other
                      ELSE LET k == CHOOSE k \in ks : \A j \in ks : j <= k IN
                           IF k < real_len(img) THEN <<img, k>> ELSE Erased]
    /\ sent' = sent + want
    /\ UNCHANGED <<cfg, size, stage, linkVars, img>>

(* esp_loader_flash_finish(): the MD5 of the image's bytes in flash is right. *)
FlashFinish ==
    /\ stage = "program"
    /\ img \in Images
    /\ sent = real_len(img)
    /\ target = "stub"
    /\ Matches(img)
    /\ img' = img + 1
    /\ sent' = -1
    /\ UNCHANGED <<cfg, size, stage, linkVars, flash>>

Programmed ==
    /\ stage = "program"
    /\ img = Len(cfg.images) + 1
    /\ stage' = "verify"
    /\ UNCHANGED <<cfg, size, linkVars, loopVars>>

(* verify(): every image is read back and compared, padding included. *)
Verify ==
    /\ stage = "verify"
    /\ target = "stub"
    /\ \A i \in Images : fits(i, flash_limit) /\ Matches(i)
    /\ stage' = "test"
    /\ UNCHANGED <<cfg, size, linkVars, loopVars>>

(* SELF_TEST: nothing to test on this family; on_self_test() resets the target. *)
SelfTest ==
    /\ stage = "test"
    /\ target' = "app"
    /\ stage' = "post"
    /\ UNCHANGED <<cfg, size, connected, flash_limit, sized, loopVars>>

PostProgrammed ==
    /\ stage = "post"
    /\ stage' = "idle"
    /\ img' = 1
    /\ sent' = -1
    /\ release_transport
    /\ UNCHANGED <<cfg, size, flash>>

Program == FlashStart \/ FlashWrite \/ FlashFinish \/ Programmed

Next == BeginSession \/ reset_target \/ PreProgrammed \/ Detect \/ DetectRetry \/ Program
        \/ Verify \/ SelfTest \/ PostProgrammed \/ Fail

Spec == Init /\ [][Next]_vars

-------------------------------------------------------------------------------
(***************************************************************************)
(* connect_locked() never short-circuits on the connection of an earlier   *)
(* target: detect() starts unconnected, and images are programmed and read *)
(* back only while the loader runs on the target.                          *)
(***************************************************************************)
NoStaleConnection ==
    /\ stage \in {"idle", "pre", "detect"} => ~connected /\ flash_limit = 0
    /\ stage \in {"program", "verify"} => connected /\ target = "stub"

(***************************************************************************)
(* target-yaml.md: "Images must not overlap in the same erase sector."     *)
(* While the limit is the chip's own, programming an image never erases or *)
(* overwrites one that flash_finish() has accepted; and whatever the limit *)
(* was, all of them are there when the target is about to be restarted.    *)
(***************************************************************************)
FinishedImagesIntact ==
    (stage \in {"program", "verify"} /\ sized) \/ stage = "test" =>
        \A i \in 1..img - 1 : Matches(i)

(***************************************************************************)
(* "constrain writes to the smaller of the configured size and the         *)
(* physical size when detection succeeds": then no byte of an image wraps  *)
(* around to another address or lands beyond the configured size.          *)
(***************************************************************************)
WritesStayInFlash ==
    stage \in {"program", "verify"} /\ sized =>
        \A a \in Address : flash[a] \notin {Other, Erased} =>
            /\ a = offset(flash[a][1]) + flash[a][2]
            /\ a < flash_limit

(* The padded last chunk of an image never outgrows the 4096-byte staging block. *)
BlockBounded == sent >= 0 /\ sent < real_len(img) => send_len <= Block

===============================================================================
