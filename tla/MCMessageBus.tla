---------------------------- MODULE MCMessageBus -----------------------------
(* Two sessions of one project: one reads, the other sends and stands for  *)
(* everyone the reader is not.                                             *)
EXTENDS MessageBus, TLC

CONSTANTS a, b, p

OneProject == a :> p @@ b :> p
=============================================================================
