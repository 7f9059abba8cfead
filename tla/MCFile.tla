------------------------------- MODULE MCFile -------------------------------
(* CacheFile with a file of up to two buffers, transfers of two pieces, and *)
(* a size that clients set within the second buffer.                        *)
EXTENDS CacheFile

ASSUME MCFileAssumption == CacheFileParameters
=============================================================================
