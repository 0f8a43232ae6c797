---------------------------- MODULE MCPolicyWire ----------------------------
(* PolicyWire for TLC. *)
EXTENDS PolicyWire
Serving(p, k, m, f) == [policy |-> p, key |-> k, metadata |-> m, fits |-> f]
MCOptions == {Serving(p, "action", m, TRUE) : p \in {"null", "chunked"}, m \in BOOLEAN}
             \union {Serving("null", "actions", TRUE, TRUE), Serving("null", "action", TRUE, FALSE)}
=============================================================================
