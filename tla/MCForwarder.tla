----------------------------- MODULE MCForwarder -----------------------------
(* Forwarder, instantiated for TLC by the Forwarder*.cfg files.            *)
EXTENDS Forwarder
=============================================================================
