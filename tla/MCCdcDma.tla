------------------------------ MODULE MCCdcDma ------------------------------
(* Instances of CdcDma for TLC.                                            *)
EXTENDS CdcDma
=============================================================================
