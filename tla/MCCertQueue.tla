----------------------------- MODULE MCCertQueue -----------------------------
(* Small instances of CertQueue for TLC; MCHeaderLookup has its safety. *)
EXTENDS CertQueue
=============================================================================
