----------------------------- MODULE MCFileLog ------------------------------
(***************************************************************************)
(* A small file for FileLog: a counter and a name that can be taken.  The  *)
(* two counter commands do not commute, so order and repetition show in    *)
(* the contents; claiming a taken name fails, as a command on an invalid   *)
(* input does (cmd.inputErr).                                              *)
(***************************************************************************)
EXTENDS FileLog

MCContents == [count : 0..2, taken : BOOLEAN]
MCEmpty == [count |-> 0, taken |-> FALSE]
MCFails(d, c) == c = "claim" /\ d.taken
MCEffect(d, c) ==
    CASE c = "bump"   -> [d EXCEPT !.count = (@ + 1) % 3]
      [] c = "double" -> [d EXCEPT !.count = (2 * @ + 1) % 3]
      [] c = "claim"  -> [d EXCEPT !.taken = TRUE]
=============================================================================
