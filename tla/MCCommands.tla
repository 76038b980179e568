------------------------------ MODULE MCCommands ------------------------------
(* One automation action and one change request of two files, two          *)
(* deliveries at a time.                                                   *)
EXTENDS Commands
===============================================================================
