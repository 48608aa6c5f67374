---------------------------- MODULE MCRealPosition ----------------------------
(***************************************************************************)
(* RealPosition for TLC: everything it needs is given by the configuration.*)
(***************************************************************************)
EXTENDS RealPosition
=============================================================================
