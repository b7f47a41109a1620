----------------------------- MODULE MCConsole -----------------------------
(* A text, a number, a negative int, and a line longer than the screen.     *)
EXTENDS Console

PrintedFormats ==
  {<<[text |-> <<"x", "\n">>]>>,
   <<[text |-> <<"y">>], [value |-> 26, base |-> 10]>>,
   <<[value |-> -1, base |-> 8]>>,
   <<[text |-> <<"p", "q", "r", "\n", "s", "\n", "t">>]>>}
=============================================================================
