----------------------------- MODULE MCUpgrade -----------------------------
(* One instance of Upgrade for TLC: v2 brings a migration and v3 keeps its    *)
(* schema, so v1 serves their database only after a rebuild from a backup.    *)
EXTENDS Upgrade, TLC
CONSTANTS v1, v2, v3, s1, s2
MCSchemaOf == v1 :> s1 @@ v2 :> s2 @@ v3 :> s2
MCMigration ==
  v1 :> (Empty :> s1) @@ v2 :> (Empty :> s2 @@ s1 :> s2) @@ v3 :> (Empty :> s2 @@ s1 :> s2)
===========================================================================
