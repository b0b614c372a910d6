-------------------------- MODULE MCEasyTierManager --------------------------
(* EasyTierManager with two install directories, two process identities.    *)
EXTENDS EasyTierManager

EasyTierFileSet == {"core", "cli"}
EasyTierRequired == {"core"}
=============================================================================
