----------------------------- MODULE MCAssetStore -----------------------------
(* Small instance of AssetStore: one image and the staged job. *)
EXTENDS AssetStore

MCName == {"firmware.bin", "job.pb.new"}
MCJobName == "job.pb"
===============================================================================
