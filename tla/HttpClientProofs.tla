-------------------------- MODULE HttpClientProofs --------------------------
(***************************************************************************)
(* Proofs about HttpClient, for every number of uses, tries and lists.     *)
(***************************************************************************)
EXTENDS HttpClient, TLAPS

\* The handle knows the list exactly when there is one: init() frees the list
\* and forgets the pointer together.
HeaderInv == curl # Null => curl.httpheader = headerList

\* Inside the loop the failures are counted by i.
RetryInv ==
  /\ owner = "loop" => /\ oks = 0 /\ i = fails /\ (fails > 0 => fails <= retryTimes)
                       /\ (retryStatus = "OK" <=> fails = 0)
  /\ owner = "callback" => oks = 0 /\ i = fails /\ fails < retryTimes

IInv ==
  /\ TypeOK /\ HeaderInv /\ RequestFresh /\ NothingLeaked
  /\ RetryInv /\ RetryHonest

\* The part about the client, and the part about the loop.
ClientTypes ==
  /\ curl \in Options \cup {Null} /\ handles \in 0..1
  /\ headerList \in Lists \cup {Null} /\ allocated \subseteq Lists
  /\ lines \in [Lists -> SUBSET Uses] /\ use \in Uses

LoopTypes ==
  /\ status \in {"OK", "Error"} /\ retryStatus \in {"OK", "Error"}
  /\ retryTimes \in -1..MaxRetries /\ i \in 0..MaxRetries
  /\ oks \in 0..1 /\ fails \in 0..MaxRetries

ClientInv == ClientTypes /\ HeaderInv /\ RequestFresh /\ NothingLeaked
LoopInv == owner \in Owners /\ LoopTypes /\ RetryInv /\ RetryHonest

LEMMA Parts == IInv <=> ClientInv /\ LoopInv
BY DEF IInv, ClientInv, LoopInv, TypeOK, ClientTypes, LoopTypes

LEMMA PartsNext == IInv' <=> ClientInv' /\ LoopInv'
BY DEF IInv, ClientInv, LoopInv, TypeOK, ClientTypes, LoopTypes

-----------------------------------------------------------------------------
\* Handles whose settings are of this use.
FreshOptions(o) ==
  /\ o \in Options
  /\ o.url \in {Null, use} /\ o.method \in {Null, use} /\ o.payload \in {Null, use}
  /\ o.auth \in {Null, use} /\ o.other \in {Null, use} /\ o.speed \in {Null, use}

LEMMA SetFresh ==
  ASSUME use \in Uses, NEW o \in Options, FreshOptions(o),
         NEW k \in {"method", "payload", "auth", "other", "speed"}
  PROVE  /\ FreshOptions(Set(o, k))
         /\ Set(o, k).httpheader = o.httpheader
<1>1. o # Null
  BY NullOptionsAssumption
<1>2. Set(o, k) = [o EXCEPT ![k] = use]
  BY <1>1 DEF Set
<1>3. QED
  BY <1>2 DEF FreshOptions, Options, Setting

\* What the client's invariant says of a handle, in one piece.
HandleOK ==
  curl # Null =>
    /\ FreshOptions(curl) /\ curl.httpheader = headerList
    /\ headerList # Null => lines[headerList] = {use}

LEMMA ClientParts == ClientInv <=> ClientTypes /\ HandleOK /\ NothingLeaked
BY DEF ClientInv, ClientTypes, HandleOK, FreshOptions, HeaderInv, RequestFresh

LEMMA ClientPartsNext == ClientInv' <=> ClientTypes' /\ HandleOK' /\ NothingLeaked'
BY DEF ClientInv, ClientTypes, HandleOK, FreshOptions, HeaderInv, RequestFresh

\* A call that sets options at most.
LEMMA SettersKeepClient ==
  ASSUME ClientInv, InUse, UNCHANGED <<owner, handles, headerList, allocated, lines, use>>,
         NEW k \in {"method", "payload", "auth", "other", "speed"},
         NEW n \in {"method", "payload", "auth", "other", "speed"},
         curl' \in {curl, Set(curl, k), Set(Set(curl, k), n)}
  PROVE  ClientInv'
<1>1. ClientTypes /\ HandleOK /\ NothingLeaked
  BY ClientParts
<1>2. CASE curl = Null
  <2>1. curl' = Null
    BY <1>2 DEF Set
  <2>2. QED
    BY <1>1, <1>2, <2>1, ClientPartsNext DEF ClientTypes, HandleOK, NothingLeaked, InUse
<1>3. CASE curl # Null
  <2>1. curl \in Options /\ FreshOptions(curl) /\ use \in Uses
    BY <1>1, <1>3 DEF ClientTypes, HandleOK
  <2>2. FreshOptions(Set(curl, k)) /\ Set(curl, k).httpheader = curl.httpheader
    BY <2>1, SetFresh
  <2>3. Set(curl, k) \in Options
    BY <2>2 DEF FreshOptions
  <2>4. /\ FreshOptions(Set(Set(curl, k), n))
        /\ Set(Set(curl, k), n).httpheader = Set(curl, k).httpheader
    BY <2>1, <2>2, <2>3, SetFresh
  <2>5. FreshOptions(curl') /\ curl'.httpheader = curl.httpheader
    BY <2>1, <2>2, <2>4
  <2>6. curl' \in Options /\ curl' # Null
    BY <2>5, NullOptionsAssumption DEF FreshOptions
  <2>7. ClientTypes'
    BY <1>1, <2>6 DEF ClientTypes
  <2>8. HandleOK'
    BY <1>1, <1>3, <2>5 DEF HandleOK, FreshOptions
  <2>9. NothingLeaked'
    BY <1>1, <1>3, <2>6 DEF NothingLeaked, InUse
  <2>10. QED
    BY <2>7, <2>8, <2>9, ClientPartsNext
<1>4. QED
  BY <1>2, <1>3

\* A header line goes to the list of this use.
LEMMA SetHeaderKeepsClient ==
  ASSUME ClientInv, SetHeader
  PROVE  ClientInv'
<1>1. ClientTypes /\ HandleOK /\ NothingLeaked /\ InUse
  BY ClientParts DEF SetHeader
<1>2. PICK l \in Lists :
        /\ IF headerList = Null THEN l \notin allocated ELSE l = headerList
        /\ headerList' = l
        /\ allocated' = allocated \cup {l}
        /\ lines' = [lines EXCEPT ![l] = IF headerList = Null THEN {use} ELSE @ \cup {use}]
        /\ curl' = IF curl = Null THEN Null ELSE [curl EXCEPT !.httpheader = l]
  BY DEF SetHeader
<1>3. owner' = owner /\ handles' = handles /\ use' = use
  BY DEF SetHeader
<1>4. l # Null
  BY NullAssumption
<1>5. curl = Null => curl' = Null
  BY <1>2
<1>6. curl # Null => /\ curl \in Options /\ curl' = [curl EXCEPT !.httpheader = l]
                    /\ curl' \in Options /\ curl' # Null
                    /\ FreshOptions(curl) /\ curl'.httpheader = l
  BY <1>1, <1>2, NullOptionsAssumption DEF ClientTypes, HandleOK, Options
<1>7. ClientTypes'
  <2>1. lines' \in [Lists -> SUBSET Uses]
    BY <1>1, <1>2 DEF ClientTypes
  <2>2. QED
    BY <1>1, <1>2, <1>3, <1>5, <1>6, <2>1 DEF ClientTypes
<1>8. HandleOK'
  <2>1. SUFFICES ASSUME curl # Null PROVE HandleOK'
    BY <1>5 DEF HandleOK
  <2>2. FreshOptions(curl')
    BY <1>6, <2>1 DEF FreshOptions, Options
  <2>3. lines'[l] = {use}
    BY <1>1, <1>2, <2>1 DEF HandleOK, ClientTypes
  <2>4. QED
    BY <1>2, <1>3, <1>6, <2>1, <2>2, <2>3 DEF HandleOK, FreshOptions
<1>9. NothingLeaked'
  <2>1. allocated' = {l}
    BY <1>1, <1>2 DEF NothingLeaked
  <2>2. QED
    BY <1>1, <1>2, <1>3, <1>4, <1>5, <1>6, <2>1 DEF NothingLeaked, InUse
<1>10. QED
  BY <1>7, <1>8, <1>9, ClientPartsNext

\* init() leaves a handle with the url at most.
LEMMA InitKeepsClient ==
  ASSUME ClientInv, InitClient
  PROVE  ClientInv'
<1>1. ClientTypes /\ NothingLeaked /\ InUse
  BY ClientParts DEF InitClient
<1>2. /\ use' = use + 1 /\ use < MaxUses /\ owner' = owner /\ lines' = lines
      /\ headerList' = Null /\ allocated' = allocated \ {headerList}
      /\ handles' = IF curl = Null THEN handles + 1 ELSE handles
  BY DEF InitClient, FreeHeaders
<1>3. use' \in Uses
  BY <1>1, <1>2, UsesAssumption DEF ClientTypes, Uses
<1>4. curl' = [NoOptions EXCEPT !.url = use'] \/ curl' = NoOptions
  BY <1>2 DEF InitClient, Reset
<1>5. /\ curl' \in Options /\ curl'.httpheader = Null
      /\ curl'.url \in {Null, use'} /\ curl'.method = Null /\ curl'.payload = Null
      /\ curl'.auth = Null /\ curl'.other = Null /\ curl'.speed = Null
  BY <1>3, <1>4 DEF NoOptions, Options, Setting
<1>6. HandleOK'
  BY <1>2, <1>5 DEF HandleOK, FreshOptions
<1>7. ClientTypes'
  <2>1. handles' \in 0..1
    BY <1>1, <1>2 DEF NothingLeaked
  <2>2. QED
    BY <1>1, <1>2, <1>3, <1>5, <2>1 DEF ClientTypes
<1>8. NothingLeaked'
  <2>1. curl' # Null
    BY <1>5, NullOptionsAssumption
  <2>2. handles' = 1 /\ allocated' = {}
    BY <1>1, <1>2 DEF NothingLeaked
  <2>3. QED
    BY <1>1, <1>2, <2>1, <2>2 DEF NothingLeaked, InUse
<1>9. QED
  BY <1>6, <1>7, <1>8, ClientPartsNext

\* The destructor leaves nothing, whoever is next.
LEMMA DestroyKeepsClient ==
  ASSUME ClientInv, Destroy
  PROVE  ClientInv'
<1>1. ClientTypes /\ NothingLeaked
  BY ClientParts
<1>2. handles' = 0 /\ allocated' = {} /\ curl' = Null /\ headerList' = Null
  BY <1>1 DEF Destroy, NothingLeaked
<1>3. use' = 0 /\ lines' = lines /\ 0 \in Uses
  BY UsesAssumption DEF Destroy, Uses
<1>4. ClientTypes'
  BY <1>1, <1>2, <1>3 DEF ClientTypes
<1>5. QED
  BY <1>2, <1>4, ClientPartsNext DEF HandleOK, NothingLeaked

\* A new client finds nothing left of the last one.
LEMMA NewKeepsClient ==
  ASSUME ClientInv, ~InUse, New, UNCHANGED <<handles, allocated, lines>>
  PROVE  ClientInv'
<1>1. ClientTypes /\ NothingLeaked
  BY ClientParts
<1>2. handles' = 0 /\ allocated' = {} /\ curl' = Null /\ headerList' = Null
  BY <1>1 DEF New, NothingLeaked
<1>3. use' = 0 /\ lines' = lines /\ 0 \in Uses
  BY UsesAssumption DEF New, Uses
<1>4. ClientTypes'
  BY <1>1, <1>2, <1>3 DEF ClientTypes
<1>5. QED
  BY <1>2, <1>4, ClientPartsNext DEF HandleOK, NothingLeaked

\* Steps that do not touch the client.
LEMMA ClientFrame ==
  ASSUME ClientInv, UNCHANGED client, InUse' <=> InUse
  PROVE  ClientInv'
<1>1. ClientTypes /\ HandleOK /\ NothingLeaked
  BY ClientParts
<1>2. ClientTypes' /\ HandleOK'
  BY <1>1 DEF client, ClientTypes, HandleOK, FreshOptions
<1>3. NothingLeaked'
  BY <1>1 DEF client, NothingLeaked
<1>4. QED
  BY <1>2, <1>3, ClientPartsNext

-----------------------------------------------------------------------------
\* The client's part of the invariant.
LEMMA ClientStep ==
  ASSUME IInv, [Next]_vars
  PROVE  ClientInv'
<1>0. ClientInv /\ owner \in Owners
  BY Parts DEF LoopInv
<1>1. CASE UNCHANGED vars
  BY <1>0, <1>1, ClientFrame DEF vars, InUse
<1>2. CASE Construct \/ Try
  BY <1>0, <1>2, NewKeepsClient DEF Construct, Try, InUse
<1>3. CASE Destruct \/ TrySucceeds \/ TryFails
  BY <1>0, <1>3, DestroyKeepsClient DEF Destruct, TrySucceeds, TryFails
<1>4. CASE ExecuteWithRetry \/ GiveUp
  BY <1>0, <1>4, ClientFrame DEF ExecuteWithRetry, GiveUp, InUse
<1>5. CASE SetMethod \/ SetPayload \/ SetBasicAuth \/ SetOther
          \/ Execute \/ Head \/ ExecuteWithPayload \/ Download
  <2>1. InUse /\ UNCHANGED <<owner, handles, headerList, allocated, lines, use>>
    BY <1>5 DEF SetMethod, SetPayload, SetBasicAuth, SetOther, Execute, Head,
                ExecuteWithPayload, Download, client
  <2>2. \/ curl' \in {curl, Set(curl, "method"), Set(Set(curl, "method"), "payload")}
        \/ curl' \in {Set(curl, "payload"), Set(curl, "auth"), Set(curl, "other")}
        \/ curl' = Set(Set(curl, "method"), "speed")
    BY <1>5 DEF SetMethod, SetPayload, SetBasicAuth, SetOther, Execute, Head,
                ExecuteWithPayload, Download, client
  <2>3. QED
    BY <1>0, <2>1, <2>2, SettersKeepClient
<1>6. CASE InitFails
  <2>1. /\ curl = Null /\ use' = use + 1 /\ use < MaxUses
        /\ UNCHANGED <<owner, curl, handles, headerList, allocated, lines>>
    BY <1>6 DEF InitFails
  <2>2. ClientTypes /\ NothingLeaked
    BY <1>0, ClientParts
  <2>3. use' \in Uses
    BY <2>1, <2>2, UsesAssumption DEF ClientTypes, Uses
  <2>4. QED
    BY <2>1, <2>2, <2>3, ClientPartsNext DEF ClientTypes, HandleOK, NothingLeaked, InUse
<1>7. QED
  BY <1>0, <1>1, <1>2, <1>3, <1>4, <1>5, <1>6, InitKeepsClient, SetHeaderKeepsClient
  DEF Next, Call, RetryStep

\* The loop's part of it.
LEMMA LoopStep ==
  ASSUME IInv, [Next]_vars
  PROVE  LoopInv'
<1> USE DEF LoopInv, LoopTypes, RetryInv, RetryHonest, Owners
<1>0. LoopInv /\ MaxRetries \in Nat
  BY Parts, UsesAssumption
<1>1. CASE UNCHANGED vars
  BY <1>0, <1>1 DEF vars, retry
<1>2. CASE Call
  <2>1. owner' = owner /\ owner \in {"caller", "callback"} /\ UNCHANGED retry
    BY <1>2 DEF Call, InitClient, InitFails, SetMethod, SetPayload, SetBasicAuth, SetOther, SetHeader,
                Execute, Head, ExecuteWithPayload, Download, InUse
  <2>2. status' \in {"OK", "Error"}
    BY <1>0, <1>2 DEF Call, InitClient, InitFails, SetMethod, SetPayload, SetBasicAuth, SetOther, SetHeader,
                Execute, Head, ExecuteWithPayload, Download, Outcomes
  <2>3. QED
    BY <1>0, <2>1, <2>2 DEF retry
<1>3. CASE Construct \/ Destruct
  BY <1>0, <1>3 DEF Construct, Destruct, retry
<1>4. CASE ExecuteWithRetry
  BY <1>0, <1>4 DEF ExecuteWithRetry
<1>5. CASE Try
  BY <1>0, <1>5 DEF Try, AnotherTry, retry
<1>6. CASE TrySucceeds
  BY <1>0, <1>6 DEF TrySucceeds
<1>7. CASE TryFails
  BY <1>0, <1>7 DEF TryFails
<1>8. CASE GiveUp
  BY <1>0, <1>8 DEF GiveUp, AnotherTry, retry
<1>9. QED
  BY <1>1, <1>2, <1>3, <1>4, <1>5, <1>6, <1>7, <1>8 DEF Next, RetryStep

\* The inductive invariant.
THEOREM Invariance == Spec => []IInv
<1>1. Init => IInv
  <2>1. SUFFICES ASSUME Init PROVE IInv
    OBVIOUS
  <2>2. ClientTypes /\ HandleOK /\ NothingLeaked
    BY <2>1, UsesAssumption DEF Init, ClientTypes, HandleOK, NothingLeaked, Uses
  <2>3. LoopInv
    BY <2>1, UsesAssumption DEF Init, LoopInv, LoopTypes, RetryInv, RetryHonest, Owners
  <2>4. QED
    BY <2>2, <2>3, Parts, ClientParts
<1>2. IInv /\ [Next]_vars => IInv'
  BY ClientStep, LoopStep, PartsNext
<1>3. QED
  BY <1>1, <1>2, PTL DEF Spec

\* Every variable keeps its type.
THEOREM TypeCorrect == Spec => []TypeOK
<1>1. IInv => TypeOK
  BY DEF IInv
<1>2. QED
  BY <1>1, Invariance, PTL

\* A request is sent with nothing of an earlier use of the client.
THEOREM RequestsFresh == Spec => []RequestFresh
<1>1. IInv => RequestFresh
  BY DEF IInv
<1>2. QED
  BY <1>1, Invariance, PTL

\* The handle never points to a freed header list.
THEOREM HeadersStayAlive == Spec => []HeadersAlive
<1>1. IInv => HeadersAlive
  BY DEF IInv, HeaderInv, NothingLeaked, HeadersAlive
<1>2. QED
  BY <1>1, Invariance, PTL

\* No handle and no header list outlives its client.
THEOREM NoLeak == Spec => []NothingLeaked
<1>1. IInv => NothingLeaked
  BY DEF IInv
<1>2. QED
  BY <1>1, Invariance, PTL

\* execute_with_retry tries as often as it is told, and what it returns
\* agrees with what its callback returned.
THEOREM RetryCorrect == Spec => []RetryHonest
<1>1. IInv => RetryHonest
  BY DEF IInv
<1>2. QED
  BY <1>1, Invariance, PTL
=============================================================================
