---------------------------- MODULE MCHibernation ----------------------------
(* The hibernation driver, instantiated by the cfg files.                  *)
EXTENDS Hibernation, TLC
=============================================================================
