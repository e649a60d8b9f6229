-------------------------- MODULE MCAssetsManager --------------------------
(***************************************************************************)
(* Small versions for TLC: x is in the package, changes in version 2 and   *)
(* is in version 3 as it was; z, an archive, comes with version 2 and is   *)
(* dropped by version 3.                                                   *)
(***************************************************************************)
EXTENDS AssetsManager

CONSTANTS x, z

MCAsset == {x, z}
MCContent ==
    [v \in 1..MaxVersion |-> [a \in MCAsset |->
        IF v % 2 = 1 THEN IF a = x THEN 1 ELSE 0 ELSE IF a = x THEN 2 ELSE 1]]
=============================================================================
