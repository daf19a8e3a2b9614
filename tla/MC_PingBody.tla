--------------------------- MODULE MC_PingBody ---------------------------
(* Frames of up to four bytes over both braces, a space and a letter.     *)
EXTENDS PingBody

MCByte == {LBrace, RBrace, " ", "x"}
MCSpace == {" "}
=============================================================================
