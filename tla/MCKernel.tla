------------------------------ MODULE MCKernel ------------------------------
(***************************************************************************)
(* An instance of Kernel for TLC: a screen of 5 rows of 3 columns, so that *)
(* inputs wrap and reach the last row.                                     *)
(***************************************************************************)
EXTENDS Kernel

CONSTANTS a, b, banner, text, tip, wrong, welcome, gt

MCLetters == {banner, text, tip, wrong, welcome, gt, NL}
MCBanner == <<banner, NL, text, NL>>
MCIncorrect == <<NL, wrong, NL, tip>>
MCWelcome == <<welcome, NL>>
MCPrompt == <<NL, gt>>
MCPass == <<a, b>>

=============================================================================
