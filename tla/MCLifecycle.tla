---------------------------- MODULE MCLifecycle -----------------------------
(***************************************************************************)
(* Every configuration, and two requests at a time per server.             *)
(***************************************************************************)
EXTENDS Lifecycle

MCConfigurations == ConfigurationType
=============================================================================
