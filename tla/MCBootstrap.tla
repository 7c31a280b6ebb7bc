------------------------------ MODULE MCBootstrap ------------------------------
(***************************************************************************)
(* The import of one route and the Diagnostic into an empty control plane  *)
(* while one administrator works on it.                                    *)
(***************************************************************************)
EXTENDS Bootstrap

CONSTANTS u1, n1, n2

MCInitialConfigurations == {EmptyConfiguration}
MCEnvRoutes == <<[user |-> u1, name |-> n1]>>
MCEnvDiagnostic == <<n2>>
MCNone == <<>>
=============================================================================
