--------------------------- MODULE MCMemoryBroker ---------------------------
(* Bounds of MemoryBroker for TLC: client threads are interchangeable. *)
EXTENDS MemoryBroker, TLC

ClientSymmetry == Permutations(Clients)
=============================================================================
