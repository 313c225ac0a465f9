----------------------------- MODULE HttpClient -----------------------------
(***************************************************************************)
(* An HttpClient (be/http/http_client.cpp) in the hands of a caller that   *)
(* makes any sequence of calls on it: directly, as DownloadUtil does, or   *)
(* as the callback of execute_with_retry, which makes a client for every   *)
(* try.                                                                    *)
(*                                                                         *)
(* init() begins a use of the client, and a client may have many.  What a  *)
(* setting says is left out; a setting is the number of the use that made  *)
(* it, which is all it takes to tell whether it belongs to the request it  *)
(* is sent with.  The options that set_method() chooses from are one       *)
(* option here, and so are those of set_unrestricted_auth(),               *)
(* set_timeout_ms() and trust_all_ssl().                                   *)
(*                                                                         *)
(* libcurl is external: an easy handle is its options; calls on a null     *)
(* handle do nothing but fail; and CURLOPT_HTTPHEADER keeps the pointer it *)
(* is given, so the list has to live as long as the option.                *)
(***************************************************************************)
EXTENDS Integers

CONSTANTS
  Lists,        \* addresses of header lists
  MaxUses,      \* bound on the init() calls on one client
  MaxRetries,   \* bound on retry_times
  Null

ASSUME UsesAssumption == MaxUses \in Nat /\ MaxRetries \in Nat
ASSUME NullAssumption == Null \notin Lists /\ Null \notin 0..MaxUses

VARIABLES
  owner,        \* who has a client: see Owners
  curl,         \* _curl: Null or the options of the easy handle
  handles,      \* easy handles not cleaned up
  headerList,   \* _header_list
  allocated,    \* header lists not freed
  lines,        \* [Lists -> set of uses that added a line]
  use,          \* init() calls so far
  status,       \* what the last request or init() returned
  retryTimes,   \* argument of execute_with_retry
  i,            \* its loop variable
  retryStatus,  \* its status
  oks, fails    \* what its callback has returned so far

client == <<curl, handles, headerList, allocated, lines, use>>
retry == <<retryTimes, i, retryStatus, oks, fails>>
vars == <<owner, client, status, retry>>

Owners == {"nobody", "caller", "loop", "callback"}
Uses == 0..MaxUses
Setting == Uses \cup {Null}
Options == [url : Setting, method : Setting, payload : Setting, auth : Setting,
            other : Setting, speed : Setting, httpheader : Lists \cup {Null}]

\* curl_easy_reset and curl_easy_init.
NoOptions == [url |-> Null, method |-> Null, payload |-> Null, auth |-> Null,
              other |-> Null, speed |-> Null, httpheader |-> Null]

ASSUME NullOptionsAssumption == Null \notin Options

Init ==
  /\ owner = "nobody"
  /\ curl = Null /\ handles = 0
  /\ headerList = Null /\ allocated = {} /\ lines = [l \in Lists |-> {}]
  /\ use = 0
  /\ status = "OK"
  /\ retryTimes = 0 /\ i = 0 /\ retryStatus = "OK"
  /\ oks = 0 /\ fails = 0

\* Calls are made by whoever has the client.
InUse == owner \in {"caller", "callback"}

-----------------------------------------------------------------------------
(***************************************************************************)
(* A client is made and destroyed.                                         *)
(***************************************************************************)

\* HttpClient() with its default members.
New == curl' = Null /\ headerList' = Null /\ use' = 0

\* Mutant: the destructor forgets the header list.
DestroyHandleOnly ==
  /\ handles' = IF curl = Null THEN handles ELSE handles - 1
  /\ curl' = Null /\ headerList' = Null /\ use' = 0
  /\ UNCHANGED <<allocated, lines>>

\* ~HttpClient cleans the handle up and frees the list.
Destroy ==
  /\ handles' = IF curl = Null THEN handles ELSE handles - 1
  /\ allocated' = allocated \ {headerList}
  /\ curl' = Null /\ headerList' = Null /\ use' = 0
  /\ UNCHANGED lines

Construct ==
  /\ owner = "nobody" /\ owner' = "caller"
  /\ New
  /\ UNCHANGED <<handles, allocated, lines, status, retry>>

Destruct ==
  /\ owner = "caller" /\ owner' = "nobody"
  /\ Destroy
  /\ UNCHANGED <<status, retry>>

-----------------------------------------------------------------------------
(***************************************************************************)
(* init()                                                                  *)
(***************************************************************************)

FreeHeaders == headerList' = Null /\ allocated' = allocated \ {headerList}

\* Mutant: the options of the last use stay, as they would without
\* curl_easy_reset.
ResetNothing == IF curl = Null THEN NoOptions ELSE curl

\* A new handle, or the old one after curl_easy_reset.
Reset == NoOptions

\* Mutant: curl_easy_init is called although the client has a handle.
InitClientNewHandle ==
  /\ InUse /\ use < MaxUses
  /\ use' = use + 1
  /\ handles' = handles + 1
  /\ FreeHeaders
  /\ \/ curl' = [Reset EXCEPT !.url = use + 1] /\ status' = "OK"
     \/ curl' = Reset /\ status' = "Error"
  /\ UNCHANGED <<owner, lines, retry>>

\* The url is the last option to be set; one that cannot be set ends init()
\* with an error, and the handle has none.
InitClient ==
  /\ InUse /\ use < MaxUses
  /\ use' = use + 1
  /\ handles' = IF curl = Null THEN handles + 1 ELSE handles
  /\ FreeHeaders
  /\ \/ curl' = [Reset EXCEPT !.url = use + 1] /\ status' = "OK"
     \/ curl' = Reset /\ status' = "Error"
  /\ UNCHANGED <<owner, lines, retry>>

\* curl_easy_init fails, and init() returns before it frees the list.
InitFails ==
  /\ InUse /\ use < MaxUses /\ curl = Null
  /\ use' = use + 1
  /\ status' = "Error"
  /\ UNCHANGED <<owner, curl, handles, headerList, allocated, lines, retry>>

-----------------------------------------------------------------------------
(***************************************************************************)
(* Setters.                                                                *)
(***************************************************************************)

\* curl_easy_setopt.
Set(options, option) == IF options = Null THEN Null ELSE [options EXCEPT ![option] = use]

\* set_method, with a method it knows, and with UNKNOWN, which it passes over.
SetMethod ==
  /\ InUse
  /\ curl' \in {Set(curl, "method"), curl}
  /\ UNCHANGED <<owner, handles, headerList, allocated, lines, use, status, retry>>

SetPayload ==
  /\ InUse
  /\ curl' = Set(curl, "payload")
  /\ UNCHANGED <<owner, handles, headerList, allocated, lines, use, status, retry>>

SetBasicAuth ==
  /\ InUse
  /\ curl' = Set(curl, "auth")
  /\ UNCHANGED <<owner, handles, headerList, allocated, lines, use, status, retry>>

\* set_unrestricted_auth, set_timeout_ms, trust_all_ssl.
SetOther ==
  /\ InUse
  /\ curl' = Set(curl, "other")
  /\ UNCHANGED <<owner, handles, headerList, allocated, lines, use, status, retry>>

\* set_content_type, set_http_header: lines are appended to the list, which
\* begins with the first one, and the handle is told where it is.
SetHeader ==
  /\ InUse
  /\ \E l \in Lists :
       /\ IF headerList = Null THEN l \notin allocated ELSE l = headerList
       /\ headerList' = l
       /\ allocated' = allocated \cup {l}
       /\ lines' = [lines EXCEPT ![l] = IF headerList = Null THEN {use} ELSE @ \cup {use}]
       /\ curl' = IF curl = Null THEN Null ELSE [curl EXCEPT !.httpheader = l]
  /\ UNCHANGED <<owner, handles, use, status, retry>>

-----------------------------------------------------------------------------
(***************************************************************************)
(* Requests.                                                               *)
(***************************************************************************)

\* execute(): curl_easy_perform needs a handle and a url; then it depends on
\* the server, and on the callback that on_response_data asks whether to go on.
Outcomes(options) ==
  IF options = Null THEN {"Error"}
  ELSE IF options.url = Null THEN {"Error"} ELSE {"OK", "Error"}

\* Mutant: the headers are freed with the request they were for.
ExecuteFreesHeaders ==
  /\ InUse
  /\ FreeHeaders
  /\ status' \in Outcomes(curl)
  /\ UNCHANGED <<owner, curl, handles, lines, use, retry>>

\* execute with what has been set.
Execute ==
  /\ InUse
  /\ status' \in Outcomes(curl)
  /\ UNCHANGED <<owner, client, retry>>

Head ==
  /\ InUse
  /\ curl' = Set(curl, "method")
  /\ status' \in Outcomes(curl)
  /\ UNCHANGED <<owner, handles, headerList, allocated, lines, use, retry>>

\* execute_post_request, execute_delete_request.
ExecuteWithPayload ==
  /\ InUse
  /\ curl' = Set(Set(curl, "method"), "payload")
  /\ status' \in Outcomes(curl)
  /\ UNCHANGED <<owner, handles, headerList, allocated, lines, use, retry>>

\* download(): an error is a file that cannot be opened or written; the status
\* of execute is not looked at.
Download ==
  /\ InUse
  /\ curl' = Set(Set(curl, "method"), "speed")
  /\ status' \in {"OK", "Error"}
  /\ UNCHANGED <<owner, handles, headerList, allocated, lines, use, retry>>

-----------------------------------------------------------------------------
(***************************************************************************)
(* execute_with_retry                                                      *)
(***************************************************************************)

ExecuteWithRetry ==
  /\ owner = "nobody" /\ owner' = "loop"
  /\ retryTimes' \in -1..MaxRetries
  /\ i' = 0 /\ retryStatus' = "OK"
  /\ oks' = 0 /\ fails' = 0
  /\ UNCHANGED <<client, status>>

AnotherTry == i < retryTimes

Try ==
  /\ owner = "loop" /\ AnotherTry
  /\ owner' = "callback"
  /\ New
  /\ UNCHANGED <<handles, allocated, lines, status, retry>>

\* Mutant: the loop goes on after a try that succeeded.
TrySucceedsGoesOn ==
  /\ owner = "callback" /\ owner' = "loop"
  /\ Destroy
  /\ retryStatus' = "OK" /\ oks' = oks + 1 /\ i' = i + 1
  /\ UNCHANGED <<status, retryTimes, fails>>

\* The callback returns OK, and so does the function.
TrySucceeds ==
  /\ owner = "callback" /\ owner' = "nobody"
  /\ Destroy
  /\ retryStatus' = "OK" /\ oks' = oks + 1
  /\ UNCHANGED <<status, retryTimes, i, fails>>

\* Mutant: the tries are not counted.
TryFailsUncounted ==
  /\ owner = "callback" /\ owner' = "loop"
  /\ Destroy
  /\ retryStatus' = "Error"
  /\ UNCHANGED <<status, retryTimes, i, oks, fails>>

\* It returns an error; after sleep() the client goes out of scope.
TryFails ==
  /\ owner = "callback" /\ owner' = "loop"
  /\ Destroy
  /\ retryStatus' = "Error" /\ fails' = fails + 1 /\ i' = i + 1
  /\ UNCHANGED <<status, retryTimes, oks>>

GiveUp ==
  /\ owner = "loop" /\ ~AnotherTry
  /\ owner' = "nobody"
  /\ UNCHANGED <<client, status, retry>>

-----------------------------------------------------------------------------
Call ==
  \/ InitClient \/ InitFails
  \/ SetMethod \/ SetPayload \/ SetBasicAuth \/ SetOther \/ SetHeader
  \/ Execute \/ Head \/ ExecuteWithPayload \/ Download

RetryStep == Try \/ TrySucceeds \/ TryFails \/ GiveUp

Next == Construct \/ Destruct \/ Call \/ ExecuteWithRetry \/ RetryStep

Spec == Init /\ [][Next]_vars

\* The callback returns some time, and so does sleep().
FairSpec == Spec /\ WF_vars(RetryStep)

-----------------------------------------------------------------------------
TypeOK ==
  /\ owner \in Owners
  /\ curl \in Options \cup {Null}
  /\ handles \in 0..1
  /\ headerList \in Lists \cup {Null}
  /\ allocated \subseteq Lists
  /\ lines \in [Lists -> SUBSET Uses]
  /\ use \in Uses
  /\ status \in {"OK", "Error"} /\ retryStatus \in {"OK", "Error"}
  /\ retryTimes \in -1..MaxRetries
  /\ i \in 0..MaxRetries
  /\ oks \in 0..1 /\ fails \in 0..MaxRetries

(***************************************************************************)
(* init() may be called "multiple times to reuse this object": what a      *)
(* request is sent with (url, method, payload, credentials, every header   *)
(* line) was set after the last init(), whatever the client was used for   *)
(* before, and whether or not that use or that init() failed.              *)
(***************************************************************************)
RequestFresh ==
  curl # Null =>
    /\ \A o \in {"url", "method", "payload", "auth", "other", "speed"} : curl[o] \in {Null, use}
    /\ curl.httpheader # Null => lines[curl.httpheader] = {use}

(***************************************************************************)
(* The header list the handle points to is the client's, and has not been  *)
(* freed.                                                                  *)
(***************************************************************************)
HeadersAlive ==
  curl # Null /\ curl.httpheader # Null =>
    curl.httpheader = headerList /\ headerList \in allocated

(***************************************************************************)
(* A client owns at most one handle and one list, and leaves neither       *)
(* behind: not after a failed init(), not after any number of uses, and    *)
(* not between two tries of execute_with_retry.                            *)
(***************************************************************************)
NothingLeaked ==
  /\ handles = IF curl = Null THEN 0 ELSE 1
  /\ allocated = {headerList} \ {Null}
  /\ ~InUse => handles = 0 /\ allocated = {}

(***************************************************************************)
(* execute_with_retry calls back at most retry_times times and no more     *)
(* after an OK.  It fails after exactly retry_times failures, and it       *)
(* returns OK without an OK of the callback only if there was nothing to   *)
(* try.  This is what the loop does; http_client.h says that it fails      *)
(* after "more than retry_times" failures, and nothing of a retry_times    *)
(* that allows no try.                                                     *)
(***************************************************************************)
RetryHonest ==
  /\ oks + fails > 0 => oks + fails <= retryTimes
  /\ owner \in {"loop", "callback"} => oks = 0
  /\ owner \in {"nobody", "caller"} =>
       IF retryStatus = "Error" THEN oks = 0 /\ fails = retryTimes
                                ELSE oks = 1 \/ retryTimes <= 0

(***************************************************************************)
(* execute_with_retry returns.                                             *)
(***************************************************************************)
RetryReturns == owner = "loop" ~> owner = "nobody"
=============================================================================
