-------------------------- MODULE MCRollingRelease --------------------------
(* Instances of RollingRelease for TLC.                                    *)
EXTENDS RollingRelease
=============================================================================
