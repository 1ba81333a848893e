------------------------------- MODULE MCSignUp -------------------------------
(* Instances of SignUp for TLC: an Android and an iPhone of one sister.     *)
EXTENDS SignUp

CONSTANTS a1, i1
=============================================================================
