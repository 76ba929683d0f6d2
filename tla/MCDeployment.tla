---------------------------- MODULE MCDeployment ----------------------------
(* Constants for model checking Deployment.                                  *)
EXTENDS Deployment

CONSTANTS r1, r2

=============================================================================
