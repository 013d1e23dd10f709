---------------------------- MODULE MCCmsMailbox ----------------------------
(* Instances of CmsMailbox for TLC. *)
EXTENDS CmsMailbox, TLC

CONSTANTS c1, c2
=============================================================================
