------------------------------ MODULE MCSwdProg -------------------------------
(***************************************************************************)
(* Jobs for both families.  The valid Cortex-M jobs differ in the RAM      *)
(* above the algorithm (too little, just enough for init(), room for one   *)
(* page buffer, for two), in where it is linked, and in the functions it   *)
(* has; the others each have one thing wrong.                              *)
(***************************************************************************)
EXTENDS SwdProg

Ram(e) == [kind |-> "RAM", start |-> 0, end |-> e]
Nvm == [kind |-> "NVM", start |-> 64, end |-> 88]
Bank == [kind |-> "RAM", start |-> 88, end |-> 120]

CortexM(e) ==
    [parses |-> TRUE, current_schema |-> TRUE, target |-> {"cortex_m"}, variant_name |-> "m",
     blobs |-> <<12>>, load_address |-> 4, page_size |-> 8, flash_len |-> 24, entries |-> Optional,
     memory_map |-> <<Nvm, Ram(e)>>, chip |-> "", flash_size_kb |-> {}, baud |-> 0,
     reset_assert_high |-> FALSE, boot_assert_high |-> FALSE, images |-> <<>>,
     self_tests |-> <<0, 1>>, pre_program |-> <<"reset">>, post_program |-> <<>>]

Esp32 == [CortexM(64) EXCEPT !.target = {"esp32"}, !.variant_name = "e", !.blobs = <<>>,
                             !.chip = "esp32s3", !.flash_size_kb = {64}, !.baud = 9600,
                             !.reset_assert_high = TRUE, !.images = <<0, 32>>]

Lacking(entry) == [CortexM(64) EXCEPT !.entries = @ \ {entry}]

Valid ==
    {CortexM(e) : e \in {32, 40, 48, 64}} \cup {Esp32}
    \cup {[Esp32 EXCEPT !.flash_size_kb = {}, !.reset_assert_high = FALSE, !.boot_assert_high = TRUE]}
    \cup {[CortexM(64) EXCEPT !.load_address = 24, !.memory_map = <<Bank, Ram(80)>>, !.self_tests = <<>>]}
    \cup {Lacking("pc_uninit"), Lacking("pc_verify"), Lacking("data_section_offset")}
    \cup {[CortexM(64) EXCEPT !.page_size = p, !.entries = @ \ {"pc_erase_sector"}] : p \in {60, 64}}
    \cup {[Lacking("pc_erase_all") EXCEPT !.flash_len = n] : n \in {24, 20}}

Invalid ==
    {[CortexM(64) EXCEPT !.parses = FALSE], [CortexM(64) EXCEPT !.current_schema = FALSE],
     [CortexM(64) EXCEPT !.blobs = <<12, 12>>], [CortexM(64) EXCEPT !.blobs = <<0>>],
     [CortexM(64) EXCEPT !.blobs = <<>>], [CortexM(64) EXCEPT !.page_size = 0],
     [CortexM(64) EXCEPT !.memory_map = <<Ram(0)>>],
     [CortexM(64) EXCEPT !.memory_map = <<Bank, Bank, Ram(64)>>],
     [CortexM(64) EXCEPT !.self_tests = <<3>>], [CortexM(64) EXCEPT !.post_program = <<"unknown">>],
     [CortexM(64) EXCEPT !.target = {}, !.blobs = <<>>], [CortexM(64) EXCEPT !.target = Family],
     [Esp32 EXCEPT !.chip = ""], [Esp32 EXCEPT !.images = <<>>], [Esp32 EXCEPT !.baud = 0]}

MCJobFile == Valid \cup Invalid
===============================================================================
