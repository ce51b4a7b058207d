------------------------------- MODULE Absence -------------------------------
(* What the code has not got: None of Python, an empty string, no element.    *)
CONSTANT None
=============================================================================
