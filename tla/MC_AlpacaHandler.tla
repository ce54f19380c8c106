-------------------------- MODULE MC_AlpacaHandler --------------------------
(* Model-checking instance of the REST execution handler.                  *)
EXTENDS AlpacaHandler
=============================================================================
