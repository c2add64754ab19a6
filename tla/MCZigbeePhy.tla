---------------------------- MODULE MCZigbeePhy ----------------------------
(* The PHY under an arbitrary MAC, with all requests.                      *)
EXTENDS PhyManagement
=============================================================================
