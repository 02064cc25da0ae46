------------------------------- MODULE MCBoot -------------------------------
(***************************************************************************)
(* Boot with two lines of text and a keyboard buffer of two keystrokes;    *)
(* everything may fail.                                                    *)
(***************************************************************************)
EXTENDS Boot

MCMayFail == SetupSteps \cup {"Reset", "Draw", "Keyboard"}

=============================================================================
