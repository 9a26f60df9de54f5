------------------------------- MODULE Derived -------------------------------
(***************************************************************************)
(* What the queue of AI jobs promises about a text the model writes from   *)
(* a thread: the text may lag behind the thread, but whenever it is        *)
(* written it is written from the thread as it then stands, so an old      *)
(* reading never replaces a newer one.                                     *)
(***************************************************************************)
EXTENDS Naturals

VARIABLES version,   \* the thread's version, raised by every change to it
          written    \* the version the stored text was written from, 0 for none

Init == version = 1 /\ written = 0

(* Someone changes the thread. *)
Change == version' = version + 1 /\ UNCHANGED written

(* The text is written anew. *)
Refresh == written' = version /\ UNCHANGED version

Next == Change \/ Refresh

Spec == Init /\ [][Next]_<<version, written>>
=============================================================================
