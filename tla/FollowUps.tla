----------------------------- MODULE FollowUps ------------------------------
(***************************************************************************)
(* What the commands of one log may count on when they send commands to    *)
(* another (the header of internal/cmd/logs.go): a follow-up reaches its   *)
(* log at least once; none reaches it before the ones sent earlier did;    *)
(* any may be repeated, at any later time.  Outbox.tla implements it.      *)
(***************************************************************************)
EXTENDS Naturals

CONSTANTS
    MaxWrites,      \* bound: follow-ups sent
    Refused         \* follow-ups the target log refuses (an input error)

VARIABLES
    sent,           \* follow-ups sent so far: 1..sent
    got,            \* those the target log has taken
    latest          \* the one that last took effect there (0: none)

vars == <<sent, got, latest>>

Init == sent = 0 /\ got = {} /\ latest = 0

Send ==
    /\ sent < MaxWrites
    /\ sent' = sent + 1
    /\ UNCHANGED <<got, latest>>

\* Follow-up i is taken, for the first time or again.
Take(i) ==
    /\ 1..(i - 1) \subseteq got
    /\ got' = got \cup {i}
    /\ latest' = IF i \in Refused THEN latest ELSE i
    /\ UNCHANGED sent

Next == Send \/ \E i \in 1..sent : Take(i)

Spec == Init /\ [][Next]_vars
=============================================================================
