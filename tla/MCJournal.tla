----------------------------- MODULE MCJournal -----------------------------
(* The journal with a few things that are typed *)
EXTENDS Journal

SomeInputs ==
  {<< <<"x">>, <<"CR">>, <<"CR">>, <<"x", "CR">>, <<"CR">> >>,
   << <<"x", "CR">>, <<"ESC", "[", "A">>, <<"ESC", "[", "A">>, <<"CR">> >>,
   << <<"g", "CR">>, <<"x">>, <<"q">>, <<"x", "CR">> >>,
   << <<"g", "CR">>, <<"CR">>, <<"^C", "CR">> >>,
   << <<"r", "CR">>, <<"x", "CR">>, <<"t", "CR">> >>,
   << <<"r", "CR">>, <<"i", "CR">>, <<"n", "CR">> >>}
=============================================================================
