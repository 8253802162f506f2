-------------------------- MODULE MCClusterService --------------------------
(* A model-checking instance of ClusterService. *)
EXTENDS ClusterService

\* Six services, one of which runs on every container instance.
ClusterServices == 1 .. 6

Lists(strategy) == IF strategy = "REPLICA" THEN <<1, 2, 3, 5, 6>> ELSE <<4>>
=============================================================================
