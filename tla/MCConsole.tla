------------------------------ MODULE MCConsole ------------------------------
(* Screens of two rows of two, where a wrap and a scroll are a few bytes   *)
(* away; messages of the boot, and getline's echo of a backspace.          *)
EXTENDS Console

MCMessages ==
  {<<"a">>, <<"a", "a", "b", "a">>, <<"b", "nl">>, <<"bs", "sp", "bs">>,
   <<"other", "tab", "cr">>, <<"del">>}

MCIrqMessage == <<"b", "nl">>

=============================================================================
