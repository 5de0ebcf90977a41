-------------------------- MODULE MCProjectDelivery -------------------------
(* Calls that may all submit every delivery. *)
EXTENDS ProjectDelivery

MCShared == [c \in Conns |-> Ids]
=============================================================================
