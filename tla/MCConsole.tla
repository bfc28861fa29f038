------------------------------ MODULE MCConsole ------------------------------
(* Every operation with every query that shows what it is for, and scopes of   *)
(* two categories with one name of every kind.                                 *)
EXTENDS Console

MCCategories == {{"CreateAdminToken", "ListAdminTokens"},
                 {"GetCurrentAdminTokenInfo", "PurgeBlocks"}}
MCMinting    == {"CreateAdminToken"}
MCExempt     == {"GetCurrentAdminTokenInfo"}
MCCalled     == {"CreateAdminToken", "ListAdminTokens", "GetCurrentAdminTokenInfo"}
MCNewer      == {"NewerEndpoint"}
=============================================================================
