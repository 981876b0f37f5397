------------------------------ MODULE MCHDUList ------------------------------
(* Instance of HDUList for TLC: a file of three HDUs, the second a compressed   *)
(* image in the file, and one HDU the program makes.                          *)
EXTENDS HDUList

CONSTANTS p, a, b, n

MCOpened == <<p, a, b>>
MCOptions == {[mode |-> "readonly", sums |-> FALSE], [mode |-> "update", sums |-> FALSE],
              [mode |-> "update", sums |-> TRUE]}
==============================================================================
