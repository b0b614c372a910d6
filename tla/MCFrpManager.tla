---------------------------- MODULE MCFrpManager ----------------------------
(* FrpManager with two install directories and two process identities.      *)
EXTENDS FrpManager

FrpFileSet == {"frpc", "frpc.toml"}
=============================================================================
