------------------------------ MODULE MCPublisher ------------------------------
(* Instances of Publisher.                                                 *)
EXTENDS Publisher
=============================================================================
