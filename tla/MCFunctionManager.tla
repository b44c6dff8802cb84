------------------------- MODULE MCFunctionManager -------------------------
(***************************************************************************)
(* FunctionManager for two or three requests on one or two function names. *)
(* Requests are interchangeable, so runs without liveness use symmetry.    *)
(***************************************************************************)
EXTENDS FunctionManager, TLC

RequestSymmetry == Permutations(Req)

=============================================================================
