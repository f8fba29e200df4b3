----------------------------- MODULE ConsoleMC ------------------------------
(* Instances of Console for TLC: two names of which neither starts the other. *)
EXTENDS Console

TwoNames == << <<"h", "e">>, <<"e", "h">> >>
=============================================================================
