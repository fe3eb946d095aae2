------------------------------ MODULE MCScopes ------------------------------
(* The families of the resources there are.                                *)
EXTENDS Scopes

LOCAL Resource == INSTANCE Catalogue WITH
    Vals <- {}, Elements <- {}, Unset <- "unset", Empty <- "empty",
    Bad <- "bad", AnyValue <- "any", NoField <- "none"

MCFamilies == {s.at : s \in Resource!AllSchemas}
=============================================================================
