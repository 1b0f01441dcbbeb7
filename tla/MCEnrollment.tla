---------------------------- MODULE MCEnrollment ----------------------------
(* Two names, so that the last admin can change; the admin preset of the      *)
(* wizard; members without permissions and admins by preset; two connections  *)
(* so that the requests of two directors wait together.                       *)
EXTENDS Enrollment

CONSTANTS ada, bo, admin, k1, k2, d1
=============================================================================
