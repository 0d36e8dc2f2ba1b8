------------------------------ MODULE MCArbEvm ------------------------------
(* Addresses of three bytes of three values, and an offset with the same two *)
(* digits at its ends as that of the code.                                  *)
EXTENDS ArbEvm, Sequences

MCOffset == <<1, 0, 1>>
=============================================================================
