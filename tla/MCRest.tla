------------------------------- MODULE MCRest -------------------------------
(***************************************************************************)
(* The REST server for TLC.  Endpoints share nothing but the pool of       *)
(* sockets; Mixes are the sets of endpoints used in one behaviour.         *)
(***************************************************************************)
EXTENDS Rest

CONSTANT Mixes

InMix == \E m \in Mixes : \A i \in Ids : req[i].kind \in m

MCRestSpec == RestInit /\ [][RestNext /\ InMix']_restVars /\ RestFairness
=============================================================================
