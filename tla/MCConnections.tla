--------------------------- MODULE MCConnections ---------------------------
(* Model values for checking Connections. *)
EXTENDS Connections

CONSTANTS t1, t2, direct, reject, shadowsocks, trojan, a1, a2

============================================================================
