------------------------------ MODULE RestServer ------------------------------
(***************************************************************************)
(* What the models of the REST server share: its clients and the sequence  *)
(* number by which it tells them that something has changed (handler.cpp). *)
(***************************************************************************)
EXTENDS Integers, Sequences, FiniteSets

CONSTANT Clients        \* each has one request under way at most

ASSUME ClientsAssumption == IsFiniteSet(Clients)

VARIABLE seq            \* the sequence number
===============================================================================
