---------------------------- MODULE MCTestRunner ----------------------------
(* A small instance of TestRunner. *)
EXTENDS TestRunner

MCAllTests == [prologue : BOOLEAN, epilogue : BOOLEAN]
MCBothDurations == {[type |-> "TIME", limit |-> 2], [type |-> "PERCENT", limit |-> 1]}
MCTimeDuration == {[type |-> "TIME", limit |-> 2]}
=============================================================================
