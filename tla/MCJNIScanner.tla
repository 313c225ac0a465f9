---------------------------- MODULE MCJNIScanner ----------------------------
(***************************************************************************)
(* Small instances of JNIScanner for TLC.                                  *)
(***************************************************************************)
EXTENDS JNIScanner, TLC

CONSTANTS s1, s2, s3, k1, k2, t1, t2

\* Two scans on one data source, one on another.
MCKeyOf == s1 :> k1 @@ s2 :> k1 @@ s3 :> k2

\* All on the thread of main.
OneThread == [s \in Scanners |-> t1]

\* The first scan on a thread of its own.
TwoThreads == [s \in Scanners |-> IF s = s1 THEN t1 ELSE t2]

\* An empty result, one that ends inside a chunk and one that ends with it.
MixedRows == s1 :> 0 @@ s2 :> 3 @@ s3 :> 4
=============================================================================
