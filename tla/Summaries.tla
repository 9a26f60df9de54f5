------------------------------ MODULE Summaries ------------------------------
(***************************************************************************)
(* Keeping a long thread readable (cmd/nudges.go, ai/faq.go Summary,       *)
(* web/arrange.go): a summary note with the comments it covers folded      *)
(* under it, and nudges that move comments about.  Everything is display   *)
(* only, and a moderator can undo it for good.                             *)
(*                                                                         *)
(* One long thread; the three kinds of nudges a summary makes (rank,       *)
(* tangent, superseded) are one.                                           *)
(***************************************************************************)
EXTENDS Notes

ClaimSummary(k) ==
    /\ k \in SummaryNote
    /\ Claim(k, [NoDraft EXCEPT !.version = post[Long].version])
    /\ UNCHANGED <<threadVars, link, note, nudge, pageVars>>

(* NumberedComments: what the summary is written from.  A thread that is   *)
(* not shown, or too short by now, gets none.                              *)
ReadComments(k) ==
    /\ job[k].claimed /\ ~draft[k].ready /\ k \in SummaryNote
    /\ draft' = [draft EXCEPT ![k].ready = TRUE, ![k].seen = ShownComments,
                              ![k].skip = ~post[Long].shown \/ Cardinality(ShownComments) < SummaryMin]
    /\ UNCHANGED <<threadVars, link, note, nudge, pageVars, job>> /\ Idle

(* A removed summary stays removed; a first one needs something to cover.  *)
setSummaryNote(n, text, covers) ==
    CASE n.byMod -> n
      [] ~n.byMod /\ ~text -> [n EXCEPT !.state = IF @ = "none" THEN @ ELSE "removed"]
      [] ~n.byMod /\ text /\ n.state = "none" /\ covers = {} -> n
      [] OTHER -> [n EXCEPT !.state = "active", !.stale = FALSE,
                            !.sources = {<<"comment", c>> : c \in covers \cap ShownComments}]

(* The nudges of the last summary go, the ones a moderator reversed stay   *)
(* and are not made again.                                                 *)
setNudges(useful) ==
    [n \in NudgeKey |->
        IF n[1] = "feed_weight" \/ nudge[n] = "reversed" THEN nudge[n]
        ELSE IF n[2] \in useful \cap ShownComments THEN "active" ELSE "none"]

SetSummary(k, covers, useful) ==
    /\ finishJob(k) /\ Fits(k) /\ k \in SummaryNote
    /\ covers \cup useful \subseteq (IF draft[k].skip THEN {} ELSE draft[k].seen)
    /\ note' = [note EXCEPT ![k] = setSummaryNote(@, ~draft[k].skip, covers)]
    /\ nudge' = setNudges(useful)
    /\ UNCHANGED <<threadVars, link, pageVars>>

ReverseNudge(n) ==
    /\ Given("ReverseNudge")
    /\ nudge[n] # "none"
    /\ nudge' = [nudge EXCEPT ![n] = "reversed"]
    /\ post' = IF n[1] = "feed_weight" THEN [post EXCEPT ![n[2]].sink = FALSE] ELSE post
    /\ UNCHANGED <<comment, link, note, pageVars, jobVars>>

(* arrange: comments that carry the answer go up, what the summary covers  *)
(* is folded under it, the rest follows.                                   *)
Covered == UNION {{s[2] : s \in note[k].sources} : k \in {x \in SummaryNote : note[x].state = "active"}}
Answers == {c \in ShownComments : nudge[<<"rank", c>>] = "active"}
Folded == (ShownComments \cap Covered) \ Answers
=============================================================================
