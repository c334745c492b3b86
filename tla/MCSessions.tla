----------------------------- MODULE MCSessions -----------------------------
(***************************************************************************)
(* Instances of Sessions.  One peer is reached by a private route r1, its  *)
(* preferred one, which is only discovered, and by the configured public   *)
(* route r2; it also dials in from a host.                                 *)
(***************************************************************************)
EXTENDS Sessions, TLC

CONSTANTS r1, r2, h1, i1

AliasOwners == r1 :> i1 @@ r2 :> i1
AliasPreference == r1 :> 1 @@ r2 :> 2
OneSpeaker == h1 :> i1
NegThreshold == -2
=============================================================================
