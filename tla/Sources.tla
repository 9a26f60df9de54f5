------------------------------- MODULE Sources -------------------------------
(***************************************************************************)
(* Outside pages (cmd/sources.go, runSource of ai/worker_faq.go): pages    *)
(* members and moderators add, which a worker reads and summarizes; and    *)
(* the whole of what Notes and Summaries do.                               *)
(*                                                                         *)
(* A summary is the number of the state of the page it was made from.      *)
(* The FAQ entries that cite pages are in Faq.                             *)
(***************************************************************************)
EXTENDS Summaries

(* A summary a person wrote. *)
Written == 99

NoPage == [status |-> "none", via |-> "none", list |-> FALSE, summary |-> 0, hash |-> 0, version |-> 1,
           placed |-> {}, index |-> FALSE, problem |-> FALSE, cleared |-> FALSE]

SourceJob(s) == IF page[s].list THEN <<"seed", s, 0>> ELSE <<"source", s, 0>>

(* sourceIndex: found while it is shown, and not a list.                   *)
sourceIndex(row) == [row EXCEPT !.index = row.status = "active" /\ row.summary # 0 /\ ~row.list]

(* The row of a page that is not known yet, and whether it is read now.    *)
NewRow(via, list, onAllowed) ==
    sourceIndex([NoPage EXCEPT
        !.via = via, !.list = list,
        !.status = IF via = "seed" \/ (via = "member" /\ ~onAllowed) THEN "pending" ELSE "active",
        !.summary = IF via = "described" THEN Written ELSE 0,
        !.cleared = via \in {"described", "mod"} \/ onAllowed])
IsRead(via, onAllowed) == via \in {"mod", "seed"} \/ (via = "member" /\ onAllowed)

(* linkSource: a page on a thread may change its combined note.  (One that *)
(* is only summarized later does not, until something else does.)          *)
PagesBecome(pages, h) ==
    /\ page' = pages
    /\ IF h = 0 THEN UNCHANGED <<note, draft>>
       ELSE /\ note' = syncCombined(note, Related(link, pages, h), h, FALSE)
            /\ draft' = Crossed(Requeued(note'))
    /\ UNCHANGED <<threadVars, link, nudge, web>>

AddSource(s, via, list, h) ==
    LET known == page[s].status # "none"
        row == IF known THEN page[s] ELSE NewRow(via, list, s \in allowed)
        read == ~known /\ IsRead(via, s \in allowed)
    IN /\ Given("AddSource")
       /\ list => via = "seed"
       /\ PagesBecome([page EXCEPT ![s] = [row EXCEPT !.placed = row.placed \cup ({h} \ {0})]], h)
       /\ job' = schedule(job, Requeued(note') \cup
                               (IF read THEN {IF list THEN <<"seed", s, 0>> ELSE <<"source", s, 0>>} ELSE {}))
       /\ UNCHANGED allowed

DetachSource(s, h) ==
    /\ Given("DetachSource")
    /\ h \in page[s].placed
    /\ PagesBecome([page EXCEPT ![s].placed = @ \ {h}], h)
    /\ job' = schedule(job, Requeued(note'))
    /\ UNCHANGED allowed

(* sourceChanged: notes written from the page are to be rewritten.         *)
FromPage(s) == {k \in CombinedNote : <<"page", s>> \in note[k].sources}
sourceChanged(s, row, jobs) ==
    /\ page' = [page EXCEPT ![s] = row]
    /\ note' = [k \in NoteKey |-> IF k \in FromPage(s) THEN [note[k] EXCEPT !.stale = TRUE] ELSE note[k]]
    /\ job' = schedule(jobs, FromPage(s))
    /\ UNCHANGED <<threadVars, link, nudge, web, allowed>>

PageStays(s, row, jobs) ==
    /\ page' = [page EXCEPT ![s] = row]
    /\ job' = jobs
    /\ UNCHANGED <<threadVars, link, note, nudge, web, allowed>>

ApproveSources(s) ==
    /\ Given("ApproveSources")
    /\ page[s].status = "pending" /\ ~page[s].list
    /\ PageStays(s, sourceIndex([page[s] EXCEPT !.status = "active", !.cleared = TRUE]),
                 schedule(job, IF page[s].summary = 0 THEN {SourceJob(s)} ELSE {}))
    /\ UNCHANGED draft

(* A removal is at once, whoever asks; the row stays.                      *)
RemoveSource(s) ==
    /\ Given("RemoveSource")
    /\ page[s].status \notin {"none", "removed"}
    /\ sourceChanged(s, [page[s] EXCEPT !.status = "removed", !.summary = 0, !.hash = 0, !.index = FALSE], job)
    /\ draft' = Crossed(FromPage(s))

(* A mistake: what was being read before the removal is as good.           *)
RestoreSourceSame(s) ==
    /\ Given("RestoreSource")
    /\ page[s].status = "removed" /\ page[s].via # "described"
    /\ PageStays(s, [page[s] EXCEPT !.status = "active", !.cleared = TRUE],
                 schedule(job, {<<"source", s, 0>>}))
    /\ UNCHANGED draft

RestoreSource(s) ==
    /\ Given("RestoreSource")
    /\ page[s].status = "removed" /\ page[s].via # "described"
    /\ PageStays(s, [page[s] EXCEPT !.status = "active", !.version = @ + 1, !.cleared = TRUE],
                 schedule(job, {<<"source", s, 0>>}))
    /\ UNCHANGED draft

AllowDomain(s, on) ==
    /\ Given("AllowDomain")
    /\ allowed' = IF on THEN allowed \cup {s} ELSE allowed \ {s}
    /\ UNCHANGED <<threadVars, link, note, nudge, page, web, jobVars>>

(* The weekly pass reads pages again.                                      *)
Recheck(s) ==
    /\ Given("Recheck")
    /\ page[s].status \in {"active", "gone"} /\ page[s].via # "described"
    /\ PageStays(s, page[s], schedule(job, {<<"source", s, 0>>}))
    /\ UNCHANGED draft

(* External: the page changes, or goes away.                               *)
WebChanges(s, to) ==
    /\ Given("WebChanges")
    /\ to \in {0, web[s] + 1}
    /\ web' = [web EXCEPT ![s] = to]
    /\ UNCHANGED <<threadVars, link, note, nudge, page, allowed, jobVars>>

-----------------------------------------------------------------------------
(* The worker: first the row, ...                                          *)
ClaimSource(k) ==
    /\ k[1] \in {"source", "seed"}
    /\ LET row == page[k[2]] IN
       Claim(k, [NoDraft EXCEPT !.version = row.version, !.seen = {row.hash},
                   !.skip = k[1] = "source" /\ (row.via = "described" \/ row.status = "removed"),
                   !.out = IF k[1] = "seed" \/ row.summary = 0 THEN "blank" ELSE "known"])
    /\ UNCHANGED <<threadVars, link, note, nudge, pageVars>>

(* ... then the page.  One that has not changed is not summarized again.   *)
Fetched(k, blocked) ==
    LET d == draft[k]
        now == web[k[2]]
    IN CASE d.skip \/ (~blocked /\ now # 0 /\ d.out = "known" /\ now \in d.seen) ->
              [d EXCEPT !.ready = TRUE, !.seen = {now}, !.out = "same"]
         [] ~d.skip /\ blocked -> [d EXCEPT !.ready = TRUE, !.out = "problem"]
         [] ~d.skip /\ ~blocked /\ now = 0 -> [d EXCEPT !.ready = TRUE, !.out = "gone"]
         [] OTHER -> [d EXCEPT !.ready = TRUE, !.seen = {now}, !.out = "read"]

(* A list that is gone is an error, and the job is tried again (Jobs).     *)
FetchPage(k, blocked) ==
    /\ k[1] \in {"source", "seed"}
    /\ job[k].claimed /\ ~draft[k].ready
    /\ k[1] = "source" \/ blocked \/ web[k[2]] # 0
    /\ draft' = [draft EXCEPT ![k] = Fetched(k, blocked)]
    /\ UNCHANGED <<threadVars, link, note, nudge, pageVars, job>> /\ Idle

Revived(status) == IF status = "gone" THEN "active" ELSE status

(* The row an answer leaves, and whether what is written from it changes.  *)
Answered(row, out, content) ==
    CASE out = "gone" -> [row EXCEPT !.status = IF @ = "active" THEN "gone" ELSE @, !.problem = FALSE]
      [] out = "problem" -> [row EXCEPT !.problem = TRUE]
      [] out = "same" /\ content = row.hash -> [row EXCEPT !.status = Revived(@), !.problem = FALSE]
      [] out = "same" /\ content # row.hash ->
           [row EXCEPT !.status = Revived(@), !.hash = content, !.summary = 0, !.problem = FALSE]
      [] out = "read" -> IF content = row.hash THEN [row EXCEPT !.status = Revived(@), !.problem = FALSE]
                         ELSE [row EXCEPT !.status = Revived(@), !.hash = content, !.summary = content,
                                          !.problem = FALSE]

(* What was taken down meanwhile is left alone.                            *)
Ignored(s) == page[s].status = "removed" \/ page[s].via = "described"

SetSource(s) ==
    LET k == <<"source", s, 0>>
        row == IF Ignored(s) THEN page[s]
               ELSE sourceIndex(Answered(page[s], draft[k].out, CHOOSE c \in draft[k].seen : TRUE))
        jobs == [job EXCEPT ![k] = [open |-> FALSE, claimed |-> FALSE]]
    IN /\ job[k].claimed /\ draft[k].ready /\ Fits(k) /\ Idle
       /\ IF row.summary # page[s].summary
          THEN sourceChanged(s, row, jobs) /\ draft' = [Crossed(FromPage(s)) EXCEPT ![k] = NoDraft]
          ELSE PageStays(s, row, jobs) /\ draft' = [draft EXCEPT ![k] = NoDraft]

(* AddSeeds: the links of a list page that are not known yet are read, and *)
(* wait for approval.                                                      *)
AddSeeds(s, found) ==
    LET k == <<"seed", s, 0>>
        new == {f \in found \ {s} : page[f].status = "none"}
        jobs == [job EXCEPT ![k] = [open |-> FALSE, claimed |-> FALSE]]
    IN /\ job[k].claimed /\ draft[k].ready /\ Fits(k) /\ Idle
       /\ draft[k].out # "read" => found = {}
       /\ page' = [f \in Page |-> IF f \in new THEN NewRow("seed", FALSE, FALSE)
                                  ELSE IF f = s THEN [page[s] EXCEPT !.problem = draft[k].out = "problem"]
                                  ELSE page[f]]
       /\ job' = schedule(jobs, {"source"} \X new \X {0})
       /\ draft' = [draft EXCEPT ![k] = NoDraft]
       /\ UNCHANGED <<threadVars, link, note, nudge, web, allowed>>

-----------------------------------------------------------------------------
Init ==
    /\ plan \in Plans /\ left = plan.steps
    /\ post = [p \in Post |-> NoPost]
    /\ comment = [c \in Comment |-> IF c \in plan.comments THEN "shown" ELSE "none"]
    /\ link = [x \in Pairs |-> "none"]
    /\ note = [k \in NoteKey |-> NoNote]
    /\ nudge = [n \in NudgeKey |-> "none"]
    /\ page = [s \in Page |-> NoPage] /\ web = [s \in Page |-> 1]
    /\ allowed = plan.allowed
    /\ job = [k \in JobKey |-> [open |-> FALSE, claimed |-> FALSE]]
    /\ draft = [k \in JobKey |-> NoDraft]

(* The pages people act from. *)
linkPost == \E p, q \in Post : AddLink(p, q)
unlinkPost == \E p, q \in Post : p < q /\ RemoveLink(p, q)
movePost == \E p, u \in Post : MoveUnder(p, u)
moveOutPost == \E p \in Post : MoveOut(p)
reverseNudge == \E n \in NudgeKey : ReverseNudge(n)
removeNote == \E k \in NoteKey : RemoveNote(k)

(* A link shared on a thread, or added in the moderators' queue.           *)
addSource ==
    \E s \in Page, h \in Post \cup {0} :
        \/ \E via \in {"described", "member"} : h # 0 /\ AddSource(s, via, FALSE, h)
        \/ AddSource(s, "mod", FALSE, h)
        \/ \E list \in BOOLEAN : AddSource(s, "seed", list, 0)
sourceActions ==
    \E s \in Page :
        \/ ApproveSources(s) \/ RemoveSource(s) \/ RestoreSource(s)
        \/ \E h \in Post : DetachSource(s, h)
        \/ \E on \in BOOLEAN : AllowDomain(s, on)

People ==
    \/ linkPost \/ unlinkPost \/ movePost \/ moveOutPost \/ reverseNudge \/ removeNote
    \/ addSource \/ sourceActions
    \/ \E p \in Post : ChangeThread(p) \/ ChangeStatus(p)
    \/ \E c \in Comment, to \in {"shown", "hidden"} : ChangeComment(c, to)

Others ==
    \/ \E p, q \in Post : SetCheck(p, q)
    \/ \E s \in Page : Recheck(s) \/ WebChanges(s, 0) \/ WebChanges(s, web[s] + 1)

Read(k) ==
    \/ ClaimNote(k) \/ ReadNote(k)
    \/ ClaimSummary(k) \/ ReadComments(k)
    \/ ClaimSource(k) \/ \E blocked \in BOOLEAN : FetchPage(k, blocked)

Write(k) ==
    \/ Refuse(k) \/ SetNote(k)
    \/ \E covers, useful \in SUBSET Comment : SetSummary(k, covers, useful)
    \/ \E s \in Page : k = <<"source", s, 0>> /\ SetSource(s)
    \/ \E s \in Page, found \in SUBSET Page : k = <<"seed", s, 0>> /\ AddSeeds(s, found)

Next == People \/ Others \/ (\E k \in JobKey : Read(k) \/ Write(k))

Spec == Init /\ [][Next]_vars

-----------------------------------------------------------------------------
(* k was last written from what its threads say now, updates moved under   *)
(* them included, and from no page that has changed or been taken down.    *)
WrittenNow(k) ==
    /\ {f \in note[k].from : f[1][1] = "post"} = {f \in Says(note[k].sources) : f[1][1] = "post"}
    /\ \A f \in note[k].from : f[1][1] = "page" => page[f[1][2]].summary = f[2]

(* A note that shows and is not waiting to be rewritten was written from   *)
(* what its sources say now.  Except where a worker was writing it when    *)
(* something queued it again that need not count in noteVersion (mixed):   *)
(* its answer may be taken, see the README.                                *)
Refreshed ==
    \A k \in LinkNote \cup CombinedNote :
        note[k].state = "active" /\ ~note[k].stale /\ ~note[k].mixed => WrittenNow(k)

(* Notes and links agree, on both threads: a link note shows exactly while *)
(* its pair is linked, and a combined note never gathers fewer than        *)
(* CombinedMin things, nor a thread a person unlinked, nor a page taken    *)
(* off the thread.                                                         *)
LinksShow ==
    /\ \A k \in LinkNote : note[k].state = "active" <=> link[{k[2], k[3]}] = "active"
    /\ \A k \in CombinedNote : note[k].state = "active" =>
          /\ Cardinality(note[k].sources) >= CombinedMin
          /\ \A s \in note[k].sources :
                IF s[1] = "post" THEN link[{k[2], s[2]}] = "active" ELSE k[2] \in page[s[2]].placed

(* What a moderator undid stays undone, whatever jobs were under way: a    *)
(* note taken down, a nudge reversed, and a thread's sinking with it.      *)
UndoneStays ==
    [][/\ \A k \in CombinedNote \cup SummaryNote : note[k].byMod => note'[k].state = "removed"
       /\ \A n \in NudgeKey : nudge[n] = "reversed" =>
             nudge'[n] = "reversed" /\ (n[1] = "feed_weight" => ~post'[n[2]].sink)]_vars

(* Pages can be trusted to be there, and to be meant to.  Nothing is       *)
(* published unseen, and what was taken down is gone: a page is found and  *)
(* shown only if its site was allowed or a moderator cleared it (or a      *)
(* person described it), and one that was removed keeps no summary, even   *)
(* when a worker was reading it.  And one that is meant to show does:      *)
(* nobody is left with a page that has no summary, no problem the          *)
(* moderators are told of, and no job to read it (or one that was given    *)
(* up, module Jobs).  (A list that was taken down and restored is read as  *)
(* a page, and its open list job takes the problem back; it never shows.)  *)
PagesVetted ==
    \A s \in Page :
        /\ page[s].index \/ Shown(s) => page[s].cleared
        /\ page[s].index = (page[s].status = "active" /\ Shown(s))
        /\ page[s].status = "removed" => page[s].summary = 0 /\ page[s].hash = 0
        /\ /\ page[s].status = "active" /\ ~page[s].list
           /\ ~page[s].problem /\ ~job[<<"source", s, 0>>].open
           => page[s].summary # 0
=============================================================================
