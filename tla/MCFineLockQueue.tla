--------------------------- MODULE MCFineLockQueue ---------------------------
(* An instance of FineLockQueue: two memory regions, callers that want a   *)
(* valid page of one region or of any, and callers that want any empty one. *)
EXTENDS FineLockQueue

MCPageTag == [p \in Page |-> IF p = 0 THEN "near" ELSE "far"]
MCCalls   == [kind : {"valid"}, mask : {{"near", "far"}, {"far"}}]
               \cup {[kind |-> "empty", mask |-> {"near", "far"}]}
=============================================================================
