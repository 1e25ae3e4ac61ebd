---------------------------- MODULE MCJobAdmission ----------------------------
(* Jobs of one user in one process. *)
EXTENDS JobAdmission

MCUserOf == [j \in Jobs |-> "u"]
MCProcessOf == [j \in Jobs |-> "p"]
===============================================================================
