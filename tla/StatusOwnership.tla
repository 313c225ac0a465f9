--------------------------- MODULE StatusOwnership ---------------------------
(***************************************************************************)
(* Who frees the message of a Status (be/common/status.h).  A Status that  *)
(* is not OK points to a char array on the heap; its destructor deletes    *)
(* that array; moving hands the pointer over; copying, which is defaulted, *)
(* copies the pointer.                                                     *)
(*                                                                         *)
(* The Status objects are the local one of each thread, the one inside the *)
(* StatusOr that the thread returns, and RuntimeState::_process_status,    *)
(* which all threads share.  A Status is its pointer, Null when it is OK.  *)
(***************************************************************************)
CONSTANTS
  Threads,
  Arrays,     \* the char arrays new[] can return
  Null

VARIABLES
  heap,           \* [Arrays -> {"unused", "live", "freed"}]
  local,          \* a thread's Status
  result,         \* the status_ of the StatusOr it has made of it
  processStatus,  \* RuntimeState::_process_status
  deletedTwice    \* delete[] of an array that was not live

vars == <<heap, local, result, processStatus, deletedTwice>>

Init ==
  /\ heap = [a \in Arrays |-> "unused"]
  /\ local = [t \in Threads |-> Null]
  /\ result = [t \in Threads |-> Null]
  /\ processStatus = Null
  /\ deletedTwice = FALSE

OK(status) == status = Null

\* Status::InternalError: a new array.
Allocate(a) == heap[a] = "unused" /\ heap' = [heap EXCEPT ![a] = "live"]

\* ~Status.
Destroy(status) ==
  IF OK(status) THEN UNCHANGED <<heap, deletedTwice>>
  ELSE /\ deletedTwice' = (deletedTwice \/ heap[status] # "live")
       /\ heap' = [heap EXCEPT ![status] = "freed"]

\* A call fails and returns InternalError, which is moved into the local.
Fail(t) ==
  /\ OK(local[t])
  /\ \E a \in Arrays : Allocate(a) /\ local' = [local EXCEPT ![t] = a]
  /\ UNCHANGED <<result, processStatus, deletedTwice>>

\* StatusOr(const Status&): status_ is a copy.
MakeStatusOr(t) ==
  /\ ~OK(local[t]) /\ OK(result[t])
  /\ result' = [result EXCEPT ![t] = local[t]]
  /\ UNCHANGED <<heap, local, processStatus, deletedTwice>>

\* RuntimeState::set_process_status(const Status&): the first error stays,
\* and is a copy.  The test and the assignment are under one lock.
SetProcessStatus(t) ==
  /\ ~OK(local[t]) /\ OK(processStatus)
  /\ processStatus' = local[t]
  /\ UNCHANGED <<heap, local, result, deletedTwice>>

\* RuntimeState::set_process_status(const std::string&): a new Status is
\* moved in.
SetProcessMessage ==
  /\ OK(processStatus)
  /\ \E a \in Arrays : Allocate(a) /\ processStatus' = a
  /\ UNCHANGED <<local, result, deletedTwice>>

\* The thread's objects go out of scope.
DropLocal(t) ==
  /\ ~OK(local[t])
  /\ Destroy(local[t])
  /\ local' = [local EXCEPT ![t] = Null]
  /\ UNCHANGED <<result, processStatus>>

DropResult(t) ==
  /\ ~OK(result[t])
  /\ Destroy(result[t])
  /\ result' = [result EXCEPT ![t] = Null]
  /\ UNCHANGED <<local, processStatus>>

\* ~RuntimeState, and the next query's.
DropRuntimeState ==
  /\ ~OK(processStatus)
  /\ Destroy(processStatus)
  /\ processStatus' = Null
  /\ UNCHANGED <<local, result>>

Next ==
  \/ SetProcessMessage \/ DropRuntimeState
  \/ \E t \in Threads : \/ Fail(t) \/ MakeStatusOr(t) \/ SetProcessStatus(t)
                        \/ DropLocal(t) \/ DropResult(t)

Spec == Init /\ [][Next]_vars

-----------------------------------------------------------------------------
(***************************************************************************)
(* An array is deleted at most once.  The comments of Status make this its *)
(* business: the destructor "is responsible for releasing the memory       *)
(* _state points to", and copying is "forbidden, to simplify memory        *)
(* management".                                                            *)
(***************************************************************************)
DeletedOnce == ~deletedTwice
=============================================================================
