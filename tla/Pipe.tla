-------------------------------- MODULE Pipe --------------------------------
(***************************************************************************)
(* What the bouncer promises for one direction of a data connection: the   *)
(* receiver gets what the sender sent, in order, nothing twice, nothing    *)
(* else.  Nothing is promised about how much of it: either peer, a timeout *)
(* or the control thread may end the transfer.                             *)
(***************************************************************************)
EXTENDS Naturals, Sequences

CONSTANTS Sender,    \* whose data this is
          MaxUnits   \* how much the sender sends at most

VARIABLES sent,      \* how many units the sender has sent
          rcvd       \* what the receiver has got

Init == sent = 0 /\ rcvd = <<>>

Send    == sent < MaxUnits /\ sent' = sent + 1 /\ UNCHANGED rcvd
Deliver == /\ Len(rcvd) < sent
           /\ rcvd' = Append(rcvd, <<Sender, Len(rcvd) + 1>>)
           /\ UNCHANGED sent

Next == Send \/ Deliver
Spec == Init /\ [][Next]_<<sent, rcvd>>
=============================================================================
