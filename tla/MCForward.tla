------------------------------ MODULE MCForward ------------------------------
(* Two connections for the run of Forward, one with data from the site, one *)
(* with data from the client.                                               *)
EXTENDS Forward

TwoConns == {"c1", "c2"}
MCUnits  == [e \in TwoConns \X Sides |->
               CASE e = <<"c1", "site">> -> 2 [] e = <<"c2", "client">> -> 1 [] OTHER -> 0]
=============================================================================
