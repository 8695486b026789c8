------------------------------ MODULE MCServer ------------------------------
(* Connections and files for the run of Server. *)
EXTENDS Server

TwoConns == {"c1", "c2"}
OneName  == {"n1"}

\* two sites, then one, then lists of addresses and ports that do not match
MCFiles == {[sites |-> 2, names |-> {"n1"}], [sites |-> 1, names |-> {}],
            [sites |-> 0, names |-> {"n1"}]}
=============================================================================
