------------------------- MODULE MCUploadScheduler --------------------------
(* Compressed uploads reserve 257 of 320 MiB, raw ones at most 30: 8, 1 and 10 here. *)
EXTENDS UploadScheduler, TLC

CONSTANTS Gzip, Raw

AllUploads   == Gzip \union Raw
UploadBytes(u) == IF u \in Gzip THEN 8 ELSE 1
=============================================================================
