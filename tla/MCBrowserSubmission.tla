------------------------ MODULE MCBrowserSubmission ------------------------
(***************************************************************************)
(* An instance of BrowserSubmission for TLC: three attempts of one         *)
(* application; model values of the configuration are all it needs.        *)
(***************************************************************************)
EXTENDS BrowserSubmission
=============================================================================
