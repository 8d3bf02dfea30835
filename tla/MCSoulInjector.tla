---------------------------- MODULE MCSoulInjector ----------------------------
(***************************************************************************)
(* Small instances of SoulInjector.  MC: two products, each one image and  *)
(* one job that pins it, for a Cortex-M (job1) and an ESP32 (job2) target. *)
(* One: the first product alone, for the liveness check.                   *)
(***************************************************************************)
EXTENDS SoulInjector

CONSTANTS image1, image2, job1, job2

MCContent == {image1, image2, job1, job2}
MCJob == {job1, job2}
MCName == {"firmware.bin", "job.pb.new"}
MCImage == [j \in MCJob |->
              [n \in {"firmware.bin"} |-> Sha256(IF j = job1 THEN image1 ELSE image2)]]
MCFamily == [j \in MCJob |-> IF j = job1 THEN "swd" ELSE "esp32"]
MCUpload == [n \in MCName |-> IF n = "firmware.bin" THEN {image1, image2} ELSE MCJob]

OneContent == {image1, job1}
OneJob == {job1}
OneImage == [j \in OneJob |-> [n \in {"firmware.bin"} |-> Sha256(image1)]]
OneFamily == [j \in OneJob |-> "swd"]
OneUpload == [n \in MCName |-> IF n = "firmware.bin" THEN {image1} ELSE OneJob]

===============================================================================
