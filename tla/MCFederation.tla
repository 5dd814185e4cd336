---------------------------- MODULE MCFederation ----------------------------
(***************************************************************************)
(* A host that captures two blocks and mirrors the commons, where others   *)
(* capture two; one of the three does not pass the receiver's checks.  The *)
(* third host only has a later schema version.                             *)
(***************************************************************************)
EXTENDS Federation, TLC

CONSTANTS here, later, s1, s2

MCSpecOf == <<s1, s1, s2>>
MCMade == here :> {1} @@ commons :> {2, 3} @@ later :> {}
MCPeers == here :> {commons, later} @@ commons :> {} @@ later :> {}
=============================================================================
