---------------------------- MODULE MCApplication ----------------------------
(* A small instance of Application: a test with both files beside its loop  *)
(* and one with none, a short time limit.                                   *)
EXTENDS Application

MCTests == {[prologue |-> TRUE, epilogue |-> TRUE], [prologue |-> FALSE, epilogue |-> FALSE]}
MCDurations == {[type |-> "TIME", limit |-> 1]}
==============================================================================
