----------------------------- MODULE MCAssembly -----------------------------
(* An instance of Assembly for TLC: every composition of three seeds, of   *)
(* which 4 and 2 export functions of the same name, and of 1, which may    *)
(* be stored later and is then chosen before 2.                            *)
EXTENDS Assembly, TLC

CONSTANTS f, g, u, x, y, z

MCSpecOf == (1 :> x) @@ (2 :> x) @@ (3 :> y) @@ (4 :> z)
MCNameOf == (1 :> f) @@ (2 :> f) @@ (3 :> g) @@ (4 :> f)
MCKnown == <<4, 2, 3>>
MCImportLists == {<<>>, <<f>>, <<g, f>>, <<u, g>>}
=============================================================================
