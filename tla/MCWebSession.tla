---------------------------- MODULE MCWebSession -----------------------------
(* Model-checking instances of WebSession.                                   *)
EXTENDS WebSession, TLC

CONSTANTS t1, c1, c2

MCTabOf == c1 :> t1 @@ c2 :> t1
===============================================================================
