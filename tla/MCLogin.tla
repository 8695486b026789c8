------------------------------ MODULE MCLogin ------------------------------
(* Configurations for the run of Login. *)
EXTENDS Login

\* the options off, a bouncer behind an entry that relinks, one that relinks
\* without TLS, one with TLS enforced after the login, and TLS translated
Plain     == {}
Entry     == {"using_entry", "client_is_entry", "trytorelink", "show_connect_failmsg"}
NoTls     == {"using_entry", "allow_noentry_connect", "enforce_tls", "relink_notls",
              "trytorelink", "ssl_relink", "fake_serverstring"}
Enforced  == {"use_ident", "enforce_ident", "enforce_tls", "use_ssl_exclude", "own_sscn",
              "send_traffic_info"}
Translate == {"translate_nosslfxp", "enforce_tls", "no_idnt_cmd", "trytorelink"}
AllConfigs == {Plain, Entry, NoTls, Enforced, Translate}
=============================================================================
