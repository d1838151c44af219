---------------------------- MODULE MCSignature ----------------------------
(***************************************************************************)
(* Instances of SignatureCheck for TLC.                                    *)
(***************************************************************************)
EXTENDS SignatureCheck

RequiredValues == -1..3
=============================================================================
