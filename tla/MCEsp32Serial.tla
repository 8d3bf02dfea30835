---------------------------- MODULE MCEsp32Serial -----------------------------
(***************************************************************************)
(* Jobs of two images in a flash of two or four sectors: aligned and       *)
(* misaligned offsets, images that are empty, shorter than, equal to and   *)
(* longer than a block, that fit or not, share a sector or not.  A         *)
(* configured size of 0 is absent; 12 is not a size any chip has.          *)
(***************************************************************************)
EXTENDS Esp32Serial

MCFirst == [offset : {0, 4, 8}, len : {1, 4, 5}]
MCSecond == [offset : {0, 1, 4, 6, 8, 12}, len : {0, 1, 4, 7}]
MCConfig == [images : {<<a, b>> : a \in MCFirst, b \in MCSecond}, flash_size : {0, 8, 12}]
===============================================================================
