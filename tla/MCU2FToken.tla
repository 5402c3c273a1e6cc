------------------------------ MODULE MCU2FToken ------------------------------
(***************************************************************************)
(* Two processes, one application with two handles.                        *)
(***************************************************************************)
EXTENDS U2FToken, TLC

Interchangeable == Permutations(Procs)
===============================================================================
