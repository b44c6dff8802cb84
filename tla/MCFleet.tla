------------------------------ MODULE MCFleet ------------------------------
(***************************************************************************)
(* Fleet for two scenario files: one UAV, and this UAV with another one.   *)
(***************************************************************************)
EXTENDS Fleet

MCScenario == {<<"u1">>, <<"u1", "u2">>}

=============================================================================
