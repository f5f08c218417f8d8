------------------------------ MODULE MCEventWait ------------------------------
(***************************************************************************)
(* Instances of EventWait for TLC: clients fewer than threads, and as many *)
(* clients as threads.                                                     *)
(***************************************************************************)
EXTENDS EventWait

Two   == {1, 2}
Three == {1, 2, 3}
===============================================================================
