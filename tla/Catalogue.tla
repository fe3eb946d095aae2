----------------------------- MODULE Catalogue -----------------------------
(* Every resource the server has tools for (RegisterAll of tools.go).      *)
EXTENDS ObjectSchemas, ProfileSchemas, RuleSchemas,
        IdentitySchemas, NetworkSchemas, SystemSchemas

AllSchemas ==
    ObjectSchemas \cup ProfileSchemas \cup RuleSchemas \cup IdentitySchemas
        \cup NetworkSchemas \cup SystemSchemas
=============================================================================
