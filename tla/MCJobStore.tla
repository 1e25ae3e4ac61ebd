------------------------------ MODULE MCJobStore ------------------------------
(* Instances of JobStore for TLC. *)
EXTENDS JobStore

\* Every client in one process; or the requests in another one.
OneProcess == [c \in Clients |-> "worker"]
TwoProcesses ==
    [c \in Clients |-> IF c \in Requests \ {"resume"} THEN "api" ELSE "worker"]

===============================================================================
