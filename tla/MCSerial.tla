------------------------------ MODULE MCSerial ------------------------------
(* Instance of Serial for TLC.                                             *)
EXTENDS Serial

\* Characters, Enter, backspace, a control character the driver ignores, and a
\* special key that sends two bytes.
MCKeys == {<<"a">>, <<"b">>, <<"cr">>, <<"bs">>, <<"ctl">>, <<"esc", "s">>}
=============================================================================
