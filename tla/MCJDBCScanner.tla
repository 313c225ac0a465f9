---------------------------- MODULE MCJDBCScanner ----------------------------
(***************************************************************************)
(* Small instances of JDBCScanner for TLC.                                 *)
(***************************************************************************)
EXTENDS JDBCScanner, TLC

CONSTANTS s1, s2, s3, k1, k2

\* Two scanners on one data source, one on another.
MCKeyOf == s1 :> k1 @@ s2 :> k1 @@ s3 :> k2

\* An empty result, one that ends inside a chunk and one that ends with it.
MixedRows == s1 :> 0 @@ s2 :> 5 @@ s3 :> 4
=============================================================================
