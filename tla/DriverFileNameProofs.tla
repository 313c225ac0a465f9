------------------------ MODULE DriverFileNameProofs ------------------------
(***************************************************************************)
(* What reading a file name back gives, for every name, checksum and time. *)
(***************************************************************************)
EXTENDS DriverFileName, TLAPS

\* Appending a token (name + '_' + checksum) and cutting the last token off
\* again gives back the sequence.
LEMMA RemoveLastAppend ==
  ASSUME NEW s \in Seq(Tokens), NEW x \in Tokens
  PROVE  /\ RemoveLast(Append(s, x)) = s
         /\ Len(Append(s, x)) = Len(s) + 1
         /\ Append(s, x)[Len(s) + 1] = x
         /\ Append(s, x) \in Seq(Tokens)
PROOF
  <1>1. Append(s, x) \in Seq(Tokens) /\ Len(Append(s, x)) = Len(s) + 1
    OBVIOUS
  <1>2. Append(s, x)[Len(s) + 1] = x
    OBVIOUS
  <1>3. RemoveLast(Append(s, x)) = SubSeq(Append(s, x), 1, Len(s))
    BY <1>1 DEF RemoveLast
  <1>4. SubSeq(Append(s, x), 1, Len(s)) = s
    BY <1>1
  <1> QED BY <1>1, <1>2, <1>3, <1>4

\* The location _generate_driver_location builds is the temporary file's
\* tokens with the timestamp appended.
LEMMA LocationIsAppend ==
  ASSUME NEW name \in Seq(Tokens), NEW checksum \in Tokens, NEW ts \in Clock
  PROVE  GenerateDriverLocation(name, checksum, ts).parts
           = Append(Append(name, checksum), ToStr[ts])
PROOF
  <1>1. ToStr[ts] \in Tokens
    BY ConversionAssumption
  <1>2. name \o <<checksum, ToStr[ts]>> = Append(Append(name, checksum), ToStr[ts])
    BY <1>1
  <1> QED BY <1>2 DEF GenerateDriverLocation

\* What the three cuts of _parse_from_file_name see of a generated location.
LEMMA CutsOfLocation ==
  ASSUME NEW name \in Name, NEW checksum \in Tokens, NEW ts \in Clock,
         NEW p, p = GenerateDriverLocation(name, checksum, ts).parts
  PROVE  /\ p \in Seq(Tokens)
         /\ Len(p) = Len(name) + 2
         /\ p[Len(p)] = ToStr[ts]
         /\ RemoveLast(p) = Append(name, checksum)
         /\ Len(RemoveLast(p)) = Len(name) + 1
         /\ RemoveLast(p)[Len(name) + 1] = checksum
         /\ RemoveLast(RemoveLast(p)) = name
         /\ Len(name) \in Nat \ {0}
PROOF
  <1>1. name \in Seq(Tokens) /\ Len(name) \in Nat \ {0}
    BY DEF Name
  <1>2. ToStr[ts] \in Tokens
    BY ConversionAssumption
  <1>3. p = Append(Append(name, checksum), ToStr[ts])
    BY <1>1, LocationIsAppend
  <1>4. /\ RemoveLast(Append(name, checksum)) = name
        /\ Len(Append(name, checksum)) = Len(name) + 1
        /\ Append(name, checksum)[Len(name) + 1] = checksum
        /\ Append(name, checksum) \in Seq(Tokens)
    BY <1>1, RemoveLastAppend
  <1>5. /\ RemoveLast(p) = Append(name, checksum)
        /\ Len(p) = Len(Append(name, checksum)) + 1
        /\ p[Len(Append(name, checksum)) + 1] = ToStr[ts]
        /\ p \in Seq(Tokens)
    BY <1>2, <1>3, <1>4, RemoveLastAppend
  <1> QED BY <1>1, <1>4, <1>5

\* A jar whose driver name itself contains a '_' is read back exactly as it
\* was written: _parse_from_file_name inverts _generate_driver_location.
THEOREM ParseInvertsGenerate ==
  ASSUME NEW name \in Name, NEW checksum \in Tokens, NEW ts \in Clock,
         Len(name) >= 2
  PROVE  ParseFromFileName(GenerateDriverLocation(name, checksum, ts))
           = [ok |-> TRUE, name |-> name, checksum |-> checksum,
              first_access_ts |-> ts]
PROOF
  <1> DEFINE p == GenerateDriverLocation(name, checksum, ts).parts
  <1> HIDE DEF p
  <1>1. /\ p \in Seq(Tokens)
        /\ Len(p) = Len(name) + 2
        /\ p[Len(p)] = ToStr[ts]
        /\ Len(RemoveLast(p)) = Len(name) + 1
        /\ RemoveLast(p)[Len(name) + 1] = checksum
        /\ RemoveLast(RemoveLast(p)) = name
        /\ Len(name) \in Nat \ {0}
    BY CutsOfLocation DEF p
  <1>2. ToStr[ts] \in DOMAIN Stol /\ Stol[ToStr[ts]] = ts
    BY ConversionAssumption
  <1>3. /\ HasSeparator(p)
        /\ HasSeparator(RemoveLast(p))
        /\ HasSeparator(RemoveLast(RemoveLast(p)))
    BY <1>1 DEF HasSeparator
  <1> QED BY <1>1, <1>2, <1>3 DEF ParseFromFileName, p

\* A jar whose driver name has no '_' of its own is never read back: the last
\* separator test of _parse_from_file_name looks for one inside the name.
THEOREM OneTokenNameRejected ==
  ASSUME NEW name \in Name, NEW checksum \in Tokens, NEW ts \in Clock,
         Len(name) = 1
  PROVE  ParseFromFileName(GenerateDriverLocation(name, checksum, ts)) = [ok |-> FALSE]
PROOF
  <1> DEFINE p == GenerateDriverLocation(name, checksum, ts).parts
  <1> HIDE DEF p
  <1>1. RemoveLast(RemoveLast(p)) = name
    BY CutsOfLocation DEF p
  <1>2. ~HasSeparator(name)
    BY DEF HasSeparator
  <1> QED BY <1>1, <1>2 DEF ParseFromFileName, p

\* Two entries share a location only if they agree on name, checksum and
\* first access time: a rename of one download never lands on the jar of
\* another version.
THEOREM LocationInjective ==
  ASSUME NEW n1 \in Name, NEW c1 \in Tokens, NEW t1 \in Clock,
         NEW n2 \in Name, NEW c2 \in Tokens, NEW t2 \in Clock,
         GenerateDriverLocation(n1, c1, t1) = GenerateDriverLocation(n2, c2, t2)
  PROVE  n1 = n2 /\ c1 = c2 /\ t1 = t2
PROOF
  <1> DEFINE p == GenerateDriverLocation(n1, c1, t1).parts
  <1> HIDE DEF p
  <1>1. /\ Len(p) = Len(n1) + 2
        /\ p[Len(p)] = ToStr[t1]
        /\ RemoveLast(p)[Len(n1) + 1] = c1
        /\ RemoveLast(RemoveLast(p)) = n1
    BY CutsOfLocation DEF p
  <1>2. p = GenerateDriverLocation(n2, c2, t2).parts
    BY DEF p
  <1>3. /\ Len(p) = Len(n2) + 2
        /\ p[Len(p)] = ToStr[t2]
        /\ RemoveLast(p)[Len(n2) + 1] = c2
        /\ RemoveLast(RemoveLast(p)) = n2
    BY <1>2, CutsOfLocation
  <1>4. n1 = n2 /\ c1 = c2
    BY <1>1, <1>3
  <1>5. ToStr[t1] = ToStr[t2]
    BY <1>1, <1>3
  <1>6. t1 = t2
    BY <1>5, ConversionAssumption
  <1> QED BY <1>4, <1>6
=============================================================================
