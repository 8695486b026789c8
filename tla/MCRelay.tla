------------------------------ MODULE MCRelay ------------------------------
(* Values for the constants of Relay. *)
EXTENDS Relay

\* a site with TLS on its data connections, a client without
TlsSite == {"site"}
=============================================================================
