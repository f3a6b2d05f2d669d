------------------------------- MODULE MCNames -------------------------------
(* Three letters of ANE, a digit, and one character on each side of what the *)
(* code asks.                                                                *)
EXTENDS Names, TLC

MCLowerOf == "A" :> "a" @@ "N" :> "n" @@ "E" :> "e" @@ "X" :> "x"
MCDigitValue == "0" :> 0 @@ "1" :> 1 @@ "9" :> 9
=============================================================================
