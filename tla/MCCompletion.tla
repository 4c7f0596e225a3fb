----------------------------- MODULE MCCompletion -----------------------------
(* Completion over spellings that differ in case, escapes, port and host. *)
EXTENDS Completion

MCSchemes == {"https", "HTTPS", "http", "app"}
MCHosts == {"", "host", "HOST", "*.host"}
MCPaths == {"", "/cb", "/c%62"}
MCLower == [s \in MCSchemes \cup MCHosts |->
              CASE s = "HTTPS" -> "https" [] s = "HOST" -> "host" [] OTHER -> s]
MCNormalise == [p \in MCPaths |-> IF p = "/c%62" THEN "/cb" ELSE p]
=============================================================================
