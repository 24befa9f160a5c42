--------------------------- MODULE MCInstallPack ----------------------------
(***************************************************************************)
(* Model-checking instance of InstallPack and PackImage: one helper and    *)
(* the entry file.                                                         *)
(***************************************************************************)
EXTENDS InstallPack, TLC

CONSTANTS h1, w1, w2, t1

\* w2 is a build with another version of Janet.
MCVersions == (h1 :> "1.39") @@ (w1 :> "1.39") @@ (w2 :> "1.40")

MCPack == <<t1, t1>>
=============================================================================
