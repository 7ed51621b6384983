--------------------------- MODULE MCAcceptanceTest ---------------------------
(* The instance of AcceptanceTest that TLC checks.                           *)
EXTENDS AcceptanceTest
=============================================================================
