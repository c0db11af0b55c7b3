------------------------------ MODULE MCBgpFsm ------------------------------
(***************************************************************************)
(* BgpFsm for TLC: the constants are model values and small sets, which the *)
(* configurations give directly.                                            *)
(***************************************************************************)
EXTENDS BgpFsm
=============================================================================
