------------------------------- MODULE MCRestApi -------------------------------
(***************************************************************************)
(* Instances of RestApi for TLC: clients and subjects are model values,    *)
(* the buffer holds one alert instead of 128.                              *)
(***************************************************************************)
EXTENDS RestApi

CONSTANTS c1, c2, s1

Two   == {c1, c2}
Input == {s1}
===============================================================================
