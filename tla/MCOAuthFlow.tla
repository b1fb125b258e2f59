---------------------------- MODULE MCOAuthFlow ----------------------------
(* One flow and the callbacks of a browser that reloads, errs and consents  *)
(* twice.                                                                   *)
EXTENDS OAuthFlow

Activities == {"Exchange", "Whoami", "StoreTokens"}
Attempts == [kind \in Kinds |-> IF kind = "Whoami" THEN 1 ELSE 2]
Errors == {"ConfigurationError", "Rejected", "Timeout"}
Fatal == [kind \in Kinds |-> {"ConfigurationError"}]
=============================================================================
