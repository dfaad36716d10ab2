-------------------------------- MODULE Process --------------------------------
(***************************************************************************)
(* What a process has of the native libraries besides the objects of the   *)
(* crate: the session of the MPI library and the AIQ contexts, opened and  *)
(* closed independently of each other.  RK_MPI_SYS_Exit drops what the     *)
(* session has, and must leave the AIQ contexts alone.                     *)
(***************************************************************************)
EXTENDS MpiSession, AiqContext

ProcessInit == Init /\ AiqInit

(* Mutant of ContextsAfterExit: the library starts from an empty state. *)
NoContexts == [c \in Ctx |-> "none"]

(* State::exit takes them over into the new state. *)
ContextsAfterExit == context

SessionStep ==
  /\ Next
  /\ context' = IF native # 0 /\ native' = 0 THEN ContextsAfterExit ELSE context
  /\ UNCHANGED <<object, at, failed>>

ContextStep == AiqNext /\ UNCHANGED vars

ProcessNext == SessionStep \/ ContextStep

(* The calls on a session end as they do without contexts. *)
ProcessSpec ==
  ProcessInit /\ [][ProcessNext]_<<vars, aiqVars>> /\ Fairness
===============================================================================
