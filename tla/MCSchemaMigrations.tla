------------------------- MODULE MCSchemaMigrations -------------------------
(***************************************************************************)
(* Values of SchemaMigrations' constants for TLC: a legacy role that the   *)
(* collation takes for "Buyer" and two that it takes for one another.      *)
(***************************************************************************)
EXTENDS SchemaMigrations, TLC

CaseInsensitive ==
    "Buyer" :> 1 @@ "buyer" :> 1 @@ "Seller" :> 2 @@ "Admin" :> 3
        @@ "Auditor" :> 4 @@ "auditor" :> 4

============================================================================
