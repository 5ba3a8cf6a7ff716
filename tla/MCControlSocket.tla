-------------------------- MODULE MCControlSocket --------------------------
(* ControlSocket for TLC: names for connections and requests.              *)
EXTENDS ControlSocket

CONSTANTS x, a, b

(* Both requests are on one connection.                                    *)
MCConnOf == [r \in Requests |-> x]

=============================================================================
