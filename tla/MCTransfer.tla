----------------------------- MODULE MCTransfer -----------------------------
(* Sets of commands and of threads for the configurations of Transfer. *)
EXTENDS Transfer

OneThread == {"d1"}

\* two identities, so that a thread that is started while another one exists
\* can be told from it
TwoThreads == {"d1", "d2"}

PassiveCommands  == {"PASV", "CPSV", "STOR", "LIST", "ABOR"}
PatientCommands  == {"PASV", "PORT", "STOR", "ABOR", "MSG"}
RelinkCommands   == {"PASV", "PORT", "CPSV", "RETR"}
MessageCommands  == {"PASV", "RETR", "MSG"}
=============================================================================
