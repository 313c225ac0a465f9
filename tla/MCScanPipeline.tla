--------------------------- MODULE MCScanPipeline ---------------------------
(***************************************************************************)
(* Small instances of ScanPipeline for TLC.                                *)
(***************************************************************************)
EXTENDS ScanPipeline, TLC

CONSTANTS s1, s2, s3, k1

\* All drivers read from the same database.
MCKeyOf == s1 :> k1 @@ s2 :> k1 @@ s3 :> k1

\* Two empty results, one of more than a chunk.
MCRows == s1 :> 0 @@ s2 :> 0 @@ s3 :> 3

\* One driver with an empty result.
OneKeyOf == s1 :> k1
NoRows == s1 :> 0
=============================================================================
