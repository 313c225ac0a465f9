--------------------------- MODULE DriverFileName ---------------------------
(***************************************************************************)
(* How JDBCDriverManager names the files of its driver directory and reads *)
(* the names back (be/runtime/jdbc_driver_manager.cpp).                    *)
(*                                                                         *)
(* A file name is the sequence of its '_'-separated tokens plus the kind   *)
(* its extension gives it.  Splitting at '_' is all the code ever does to  *)
(* a name, so tokens are atomic; the one token whose text matters is the   *)
(* timestamp, written by std::to_string and read by std::stol.             *)
(***************************************************************************)
EXTENDS Integers, Sequences

CONSTANTS
  Tokens,     \* the strings without '_' that occur in file names
  Clock,      \* the values system_clock::now() can have, in milliseconds
  ToStr,   \* [Clock -> Tokens], std::to_string
  Stol        \* [a subset of Tokens -> Int], std::stol where it does not throw

ASSUME ClockAssumption == Clock \subseteq Int

ASSUME ConversionAssumption ==
  /\ ToStr \in [Clock -> Tokens]
  /\ DOMAIN Stol \subseteq Tokens
  /\ \A tok \in DOMAIN Stol : Stol[tok] \in Int
  /\ \A ts \in Clock : ToStr[ts] \in DOMAIN Stol /\ Stol[ToStr[ts]] = ts

(***************************************************************************)
(* A driver name is any nonempty sequence of tokens: "mysql" has one,      *)
(* "mysql_8" has two.  A checksum is a hex digest, a single token.         *)
(***************************************************************************)
Name == { n \in Seq(Tokens) : n # << >> }

FileName == [kind : {"jar", "tmp", "other"}, parts : Seq(Tokens)]

\* _generate_driver_location: name _ checksum _ first_access_ts .jar
GenerateDriverLocation(name, checksum, ts) ==
  [kind |-> "jar", parts |-> name \o <<checksum, ToStr[ts]>>]

\* The temporary file of a download: name _ checksum .tmp, no timestamp.
TmpFile(name, checksum) ==
  [kind |-> "tmp", parts |-> Append(name, checksum)]

\* file_name.remove_suffix(str.size() + 1): drops the last token.
RemoveLast(parts) == SubSeq(parts, 1, Len(parts) - 1)

\* find_last_of('_') # npos: there is a separator left to cut at.
HasSeparator(parts) == Len(parts) >= 2

\* Mutant: the name needs no separator of its own.
ParseAnyName(file) ==
  LET p == file.parts
      q == RemoveLast(p)
      r == RemoveLast(q)
  IN  IF /\ HasSeparator(p) /\ p[Len(p)] \in DOMAIN Stol
         /\ HasSeparator(q)
      THEN [ok |-> TRUE, name |-> r, checksum |-> q[Len(q)],
            first_access_ts |-> Stol[p[Len(p)]]]
      ELSE [ok |-> FALSE]

(***************************************************************************)
(* _parse_from_file_name.  Each of the three steps first insists on a      *)
(* separator.  The third one is asked of what is left when timestamp and   *)
(* checksum are gone, that is of the driver name itself.                   *)
(***************************************************************************)
ParseFromFileName(file) ==
  LET p == file.parts
      q == RemoveLast(p)
      r == RemoveLast(q)
  IN  IF /\ HasSeparator(p) /\ p[Len(p)] \in DOMAIN Stol
         /\ HasSeparator(q)
         /\ HasSeparator(r)
      THEN [ok |-> TRUE, name |-> r, checksum |-> q[Len(q)],
            first_access_ts |-> Stol[p[Len(p)]]]
      ELSE [ok |-> FALSE]
=============================================================================
