----------------------------- MODULE DriverLookup -----------------------------
(***************************************************************************)
(* What the driver manager promises the callers of get_driver_location, as *)
(* if the answer were found in one step: at any time a driver has at most  *)
(* one current location.  A call takes that one, or puts a location of the *)
(* version it asks for in its place, and this is what it will answer, even *)
(* if another call changes the current location before the answer is       *)
(* given.  Downloads, locks and entries do not show.                       *)
(***************************************************************************)
CONSTANTS
  Threads,      \* callers
  Requests,     \* the [name, checksum] pairs they ask for
  LocationsOf,  \* the locations a jar of a request can have
  None          \* no location

VARIABLES
  current,      \* the location of each driver name
  chosen,       \* what a call in progress is going to answer
  answer        \* what a call has answered

vars == <<current, chosen, answer>>

Nowhere == [n \in { r.name : r \in Requests } |-> None]
Nothing == [t \in Threads |-> None]

Init == current = Nowhere /\ chosen = Nothing /\ answer = Nothing

\* l is what a call for r finds or makes current.
Resolves(r, l) ==
  /\ l \in LocationsOf[r]
  /\ current[r.name] \in LocationsOf[r] => l = current[r.name]

\* A call of t takes effect.
LookUp(t, r) ==
  /\ chosen[t] = None /\ answer[t] = None
  /\ \E l \in LocationsOf[r] :
       /\ Resolves(r, l)
       /\ current' = [current EXCEPT ![r.name] = l]
       /\ chosen' = [chosen EXCEPT ![t] = l]
  /\ UNCHANGED answer

\* It returns.
Answer(t) ==
  /\ chosen[t] # None
  /\ answer' = [answer EXCEPT ![t] = chosen[t]]
  /\ chosen' = [chosen EXCEPT ![t] = None]
  /\ UNCHANGED current

\* Both at once, for a location that is current already.
AnswerAtOnce(t, r) ==
  /\ chosen[t] = None /\ answer[t] = None
  /\ current[r.name] \in LocationsOf[r]
  /\ answer' = [answer EXCEPT ![t] = current[r.name]]
  /\ UNCHANGED <<current, chosen>>

Forget(t) ==
  /\ answer[t] # None
  /\ answer' = [answer EXCEPT ![t] = None]
  /\ UNCHANGED <<current, chosen>>

\* The process ends, and the next one knows nothing.
Restart == current' = Nowhere /\ chosen' = Nothing /\ answer' = Nothing

Next ==
  \/ Restart
  \/ \E t \in Threads :
       \/ Answer(t) \/ Forget(t)
       \/ \E r \in Requests : LookUp(t, r) \/ AnswerAtOnce(t, r)

Spec == Init /\ [][Next]_vars
=============================================================================
