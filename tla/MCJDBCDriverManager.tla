------------------------- MODULE MCJDBCDriverManager -------------------------
(***************************************************************************)
(* Small instances of JDBCDriverManager for TLC.                           *)
(***************************************************************************)
EXTENDS JDBCDriverManager, TLC

MCTokens == {"mysql", "oracle", "8", "c1", "c2", "100", "200"}
OneTick == {100}
TwoTicks == {100, 200}
MCStol == "8" :> 8 @@ "100" :> 100 @@ "200" :> 200
OneTickToStr == 100 :> "100"
TwoTicksToStr == 100 :> "100" @@ 200 :> "200"

Mysql(c) == [name |-> <<"mysql">>, checksum |-> c]
Oracle(c) == [name |-> <<"oracle">>, checksum |-> c]
Mysql8(c) == [name |-> <<"mysql", "8">>, checksum |-> c]

\* One driver in two versions.
TwoVersions == {Mysql("c1"), Mysql("c2")}
\* The same for a driver with an underscore in its name.
UnderscoreVersions == {Mysql8("c1"), Mysql8("c2")}
\* Two drivers, one version each.
TwoDrivers == {Mysql("c1"), Oracle("c2")}
OneDriver == {Mysql("c1")}
UnderscoreDriver == {Mysql8("c1")}

NoFiles == {}
\* What an earlier process can leave behind, and a file of somebody else.
Leftovers ==
  {TmpFile(<<"mysql">>, "c1"),
   GenerateDriverLocation(<<"mysql">>, "c1", 100),
   [kind |-> "jar", parts |-> <<"mysql">>],
   [kind |-> "jar", parts |-> <<"mysql", "c1">>],
   [kind |-> "other", parts |-> <<"mysql">>]}

Symmetric == Permutations(Threads) \cup Permutations(EntryIds)
=============================================================================
