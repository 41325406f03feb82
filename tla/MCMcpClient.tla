----------------------------- MODULE MCMcpClient -----------------------------
(* Two calls of one tenant and one of another, and the application's own    *)
(* credential for discovery.                                                *)
EXTENDS McpClient

MCCalls == {"a1", "a2", "b1"}
MCCredentials == {"app", "a", "b"}
MCCredentialOf == [c \in MCCalls |-> IF c = "b1" THEN "b" ELSE "a"]
=============================================================================
