---------------------------- MODULE MCCommandLine ----------------------------
(* A small instance of CommandLine. *)
EXTENDS CommandLine

MCTests == {[prologue |-> b, epilogue |-> b] : b \in BOOLEAN}
MCUnitLength == [h |-> 4, m |-> 2, s |-> 1]
MCSpellings == {<< <<1, "s">> >>, << <<1, "x">> >>}
MCDurations == [type : {"TIME"}, limit : {1}]
==============================================================================
