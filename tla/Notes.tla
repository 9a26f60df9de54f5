-------------------------------- MODULE Notes --------------------------------
(***************************************************************************)
(* Links between the threads of one group and the notes written from them  *)
(* (cmd/links.go, the note part of cmd/jobs.go and of ai/worker.go).       *)
(*                                                                         *)
(* A link of two threads puts a note on each, saying what the other adds;  *)
(* a thread with CombinedMin related threads and outside pages gets a      *)
(* combined note.  A note's text is written by a worker, who reads the     *)
(* version of what the note is written from, then its sources, and submits *)
(* the text with the version.                                              *)
(*                                                                         *)
(* Texts are left out: a note remembers what it was last written from.     *)
(* Digests, which combined notes read instead of the threads, count as the *)
(* thread itself; leases and retries are in Jobs, sister groups' notes in  *)
(* Sisters, the entries that take in a linked thread in Faq.               *)
(***************************************************************************)
EXTENDS Naturals, FiniteSets, FiniteSetsExt

CONSTANTS Post,         \* threads, by id
          Page,         \* outside pages
          Comment,      \* comments of the first thread
          CombinedMin,  \* related threads and pages a combined note needs (3)
          SummaryMin,   \* comments a summary needs (10)
          MaxClaimed,   \* bound: jobs under way at once
          Plans         \* bound: how behaviours begin, which commands people give in
                        \* them, at most plan.steps of them

ASSUME PostAssumption == Post \subseteq Nat \ {0} /\ IsFiniteSet(Post \cup Page \cup Comment)
ASSUME MinAssumption == {CombinedMin, SummaryMin, MaxClaimed} \subseteq Nat \ {0}

LinkNote == {k \in {"link"} \X Post \X Post : k[2] # k[3]}
CombinedNote == {"combined"} \X Post \X {0}
Long == Min(Post)
SummaryNote == {<<"summary", Long, 0>>}
NoteKey == LinkNote \cup CombinedNote \cup SummaryNote
JobKey == NoteKey \cup ({"source", "seed"} \X Page \X {0})
NudgeKey == ({"feed_weight"} \X Post) \cup ({"rank"} \X Comment)
Pairs == {{p, q} : p \in Post, q \in Post} \ {{p} : p \in Post}

VARIABLES post,     \* posts: shown, thread version, the post it continues, sink;
                    \* ghost: own, the changes made to it
          comment,  \* the comments of Long: none, shown or hidden
          link,     \* post_links: none, active or rejected
          note,     \* notes with their note_sources; ghost: what each was written from
          nudge,    \* nudges: none, active or reversed
          page,     \* sources with their source_links
          web,      \* external: what each page says now, 0 when it is gone
          allowed,  \* source_domains: pages on a site the mods allowed
          job,      \* jobs: to be done, claimed
          draft,    \* what the worker that claimed a job has read
          plan, left

threadVars == <<post, comment>>
pageVars == <<page, web, allowed>>
jobVars == <<job, draft>>
vars == <<post, comment, link, note, nudge, page, web, allowed, job, draft, plan, left>>

NoPost == [shown |-> TRUE, version |-> 1, under |-> 0, sink |-> FALSE, own |-> 0]
NoNote == [state |-> "none", byMod |-> FALSE, stale |-> TRUE, sources |-> {}, from |-> {},
           mixed |-> FALSE]
NoDraft == [version |-> 0, ready |-> FALSE, skip |-> FALSE, seen |-> {}, out |-> "none",
            crossed |-> FALSE]

Given(op) == op \in plan.ops /\ left > 0 /\ left' = left - 1 /\ UNCHANGED plan
Idle == UNCHANGED <<plan, left>>

schedule(j, ks) == [k \in JobKey |-> IF k \in ks THEN [j[k] EXCEPT !.open = TRUE] ELSE j[k]]

(* Ghost: a note that a worker is writing (its version is read, its        *)
(* sources perhaps not yet) is queued again, by something that need not    *)
(* change the version the text is checked against.                         *)
Crossed(ks) == [k \in JobKey |-> IF k \in ks /\ job[k].claimed
                                    THEN [draft[k] EXCEPT !.crossed = TRUE] ELSE draft[k]]

-----------------------------------------------------------------------------
(* Threads.  A continuation is part of the thread it is under.             *)

Updates(ps, p) == {u \in Post : ps[u].under = p /\ ps[u].shown}
ThreadText(p) == <<post[p].own, {<<u, post[u].own>> : u \in Updates(post, p)}>>
ShownComments == {c \in Comment : comment[c] = "shown"}

(* A post and the thread it is part of.                                    *)
ThreadOf(ps, p) == {p, ps[p].under} \ {0}

(* threadChanged: their versions go up; notes on other threads are to be   *)
(* rewritten, and so is a long thread's summary.                           *)
WrittenFrom(ids) ==
    {k \in LinkNote \cup CombinedNote :
        /\ note[k].state = "active"
        /\ \E p \in ids \ {k[2]} : <<"post", p>> \in note[k].sources}

threadChanged(ps, cs, ids) ==
    LET long == Long \in ids /\ Cardinality({c \in Comment : cs[c] = "shown"}) >= SummaryMin IN
    /\ post' = [q \in Post |-> IF q \in ids THEN [ps[q] EXCEPT !.version = @ + 1] ELSE ps[q]]
    /\ comment' = cs
    /\ note' = [k \in NoteKey |-> IF k \in WrittenFrom(ids) THEN [note[k] EXCEPT !.stale = TRUE]
                                  ELSE note[k]]
    /\ job' = schedule(job, WrittenFrom(ids) \cup (IF long THEN SummaryNote ELSE {}))
    /\ UNCHANGED <<link, nudge, pageVars, draft>>

ChangeThread(p) ==
    /\ Given("ChangeThread")
    /\ post[p].shown
    /\ threadChanged([post EXCEPT ![p].own = @ + 1], comment, ThreadOf(post, p))

ChangeStatus(p) ==
    /\ Given("ChangeStatus")
    /\ threadChanged([post EXCEPT ![p].shown = ~@, ![p].own = @ + 1], comment, ThreadOf(post, p))

ChangeComment(c, to) ==
    /\ Given("ChangeComment")
    /\ comment[c] # to /\ post[Long].shown
    /\ threadChanged([post EXCEPT ![Long].own = @ + 1], [comment EXCEPT ![c] = to], ThreadOf(post, Long))

MoveUnder(p, u) ==
    /\ Given("MoveUnder")
    /\ u < p
    /\ \A q \in {p, u} : post[q].shown /\ post[q].under = 0
    /\ \A q \in Post : post[q].under # p
    /\ threadChanged([post EXCEPT ![p].under = u], comment, {p, u})

(* A mistake: the post has left when the change is passed on.              *)
MoveOutFirst(p) ==
    /\ Given("MoveOut")
    /\ post[p].under # 0
    /\ threadChanged([post EXCEPT ![p].under = 0], comment, {p})

(* The post still counts with the thread it is leaving.                    *)
MoveOut(p) ==
    /\ Given("MoveOut")
    /\ post[p].under # 0
    /\ threadChanged([post EXCEPT ![p].under = 0], comment, ThreadOf(post, p))

-----------------------------------------------------------------------------
(* Links. *)

(* A page that is gone from the web still shows, marked as such.           *)
Shown(s) == page[s].status \in {"active", "gone"} /\ page[s].summary # 0 /\ ~page[s].list

(* A mistake: a link that was rejected still counts.                       *)
RelatedStill(links, pages, h) ==
    {<<"post", q>> : q \in {r \in Post \ {h} : links[{h, r}] # "none" /\ post[r].shown}}
    \cup {<<"page", s>> : s \in {r \in Page : h \in pages[r].placed /\ pages[r].status = "active"
                                                /\ pages[r].summary # 0}}

(* What a thread is related to: linked threads, and the pages shown on it. *)
Related(links, pages, h) ==
    {<<"post", q>> : q \in {r \in Post \ {h} : links[{h, r}] = "active" /\ post[r].shown}}
    \cup {<<"page", s>> : s \in {r \in Page : /\ h \in pages[r].placed
                                              /\ pages[r].status = "active" /\ pages[r].summary # 0}}

(* A mistake: a note a moderator took down comes back.                     *)
syncCombinedAgain(notes, want, h, new) ==
    LET k == <<"combined", h, 0>>
        enough == Cardinality(want) >= CombinedMin
    IN CASE ~enough /\ notes[k].state = "active" -> [notes EXCEPT ![k].state = "removed"]
         [] /\ enough
            /\ notes[k].state # "none" \/ new
            /\ ~(notes[k].state = "active" /\ notes[k].sources = want) ->
                [notes EXCEPT ![k] = [@ EXCEPT !.state = "active", !.stale = TRUE, !.sources = want]]
         [] OTHER -> notes

(* syncCombined: h's combined note is made, taken down or given what h is  *)
(* related to now; a new one only where the command brings an id for it.   *)
syncCombined(notes, want, h, new) ==
    LET k == <<"combined", h, 0>>
        enough == Cardinality(want) >= CombinedMin
    IN CASE ~enough /\ notes[k].state = "active" -> [notes EXCEPT ![k].state = "removed"]
         [] /\ enough /\ ~notes[k].byMod
            /\ notes[k].state # "none" \/ new
            /\ ~(notes[k].state = "active" /\ notes[k].sources = want) ->
                [notes EXCEPT ![k] = [@ EXCEPT !.state = "active", !.stale = TRUE, !.sources = want]]
         [] OTHER -> notes

linkNote(notes, h, other) ==
    [notes EXCEPT ![<<"link", h, other>>] =
        [@ EXCEPT !.state = "active", !.byMod = FALSE, !.stale = TRUE, !.sources = {<<"post", other>>}]]

(* Notes that were made, woken up or given other sources are written.      *)
Requeued(notes) == {k \in NoteKey : notes[k] # note[k] /\ notes[k].state = "active"}
NotesBecome(notes) ==
    /\ note' = notes
    /\ job' = schedule(job, Requeued(notes))
    /\ draft' = Crossed(Requeued(notes))

(* feedWeight: a repeat of a thread that answers sinks in the feed, once.  *)
Sinks(p, q) == Min({p, q}) \in plan.answers /\ nudge[<<"feed_weight", Max({p, q})>>] = "none"

feedWeight(p, q) ==
    LET newer == Max({p, q}) IN
    IF Sinks(p, q)
    THEN /\ nudge' = [nudge EXCEPT ![<<"feed_weight", newer>>] = "active"]
         /\ post' = [post EXCEPT ![newer].sink = TRUE]
    ELSE UNCHANGED <<nudge, post>>

(* A pair a person rejected is linked again by a person only.              *)
Linkable(p, q, byPerson) == link[{p, q}] = "none" \/ (link[{p, q}] = "rejected" /\ byPerson)

addLink(p, q, byPerson) ==
    LET links == [link EXCEPT ![{p, q}] = "active"]
        both == linkNote(linkNote(note, p, q), q, p)
        here == syncCombined(both, Related(links, page, p), p, TRUE)
    IN /\ p # q /\ post[p].shown /\ post[q].shown
       /\ Linkable(p, q, byPerson)
       /\ link' = links
       /\ NotesBecome(syncCombined(here, Related(links, page, q), q, TRUE))
       /\ feedWeight(p, q)
       /\ UNCHANGED <<comment, pageVars>>

AddLink(p, q) == Given("AddLink") /\ addLink(p, q, TRUE)

(* The check of p found q.  LinkPairs: a pair that was ever linked is not  *)
(* proposed, but the check may have looked before it was.                  *)
SetCheck(p, q) == Given("SetCheck") /\ addLink(p, q, FALSE)

RemoveLink(p, q) ==
    LET links == [link EXCEPT ![{p, q}] = "rejected"]
        gone == [k \in NoteKey |-> IF k \in {<<"link", p, q>>, <<"link", q, p>>}
                                   THEN [note[k] EXCEPT !.state = "removed", !.byMod = TRUE] ELSE note[k]]
        here == syncCombined(gone, Related(links, page, p), p, FALSE)
    IN /\ Given("RemoveLink")
       /\ link[{p, q}] # "none"
       /\ link' = links
       /\ NotesBecome(syncCombined(here, Related(links, page, q), q, FALSE))
       /\ UNCHANGED <<threadVars, nudge, pageVars>>

RemoveNote(k) ==
    /\ Given("RemoveNote")
    /\ note[k].state # "none" /\ k[1] # "link"
    /\ note' = [note EXCEPT ![k].state = "removed", ![k].byMod = TRUE]
    /\ UNCHANGED <<threadVars, link, nudge, pageVars, jobVars>>

-----------------------------------------------------------------------------
(* The worker. *)

(* noteVersion: the sum of the versions of the threads a note is from.     *)
noteVersion(k) ==
    MapThenSumSet(LAMBDA s : post[s[2]].version, {s \in note[k].sources : s[1] = "post"})

Current(k) == CASE k \in LinkNote \cup CombinedNote -> noteVersion(k)
                [] k \in SummaryNote -> post[k[2]].version
                [] k[1] \in {"source", "seed"} -> page[k[2]].version

(* What a note's sources say, those that are still there.                  *)
Says(sources) ==
    {<<s, ThreadText(s[2])>> : s \in {x \in sources : x[1] = "post" /\ post[x[2]].shown}}
    \cup {<<s, page[s[2]].summary>> : s \in {x \in sources : x[1] = "page" /\ Shown(x[2])}}

(* The job is due, or was claimed too long ago.                            *)
Claim(k, d) ==
    /\ job[k].open
    /\ job[k].claimed \/ Cardinality({x \in JobKey : job[x].claimed}) < MaxClaimed
    /\ job' = [job EXCEPT ![k].claimed = TRUE]
    /\ draft' = [draft EXCEPT ![k] = d]
    /\ Idle

(* First the version, ...                                                  *)
ClaimNote(k) ==
    /\ k \in LinkNote \cup CombinedNote
    /\ Claim(k, [NoDraft EXCEPT !.version = noteVersion(k)])
    /\ UNCHANGED <<threadVars, link, note, nudge, pageVars>>

(* ... then the note and its sources.  A note that is not shown is skipped. *)
ReadNote(k) ==
    /\ job[k].claimed /\ ~draft[k].ready /\ k \in LinkNote \cup CombinedNote
    /\ draft' = [draft EXCEPT ![k].ready = TRUE, ![k].skip = note[k].state # "active",
                              ![k].seen = Says(note[k].sources)]
    /\ UNCHANGED <<threadVars, link, note, nudge, pageVars, job>> /\ Idle

(* finishJob: the job is closed if what was read is current, and let go if *)
(* not.                                                                    *)
Fits(k) == draft[k].version = Current(k)
finishJob(k) ==
    /\ job[k].claimed /\ draft[k].ready
    /\ job' = [job EXCEPT ![k] = [open |-> ~Fits(k), claimed |-> FALSE]]
    /\ draft' = [draft EXCEPT ![k] = NoDraft]
    /\ Idle

Refuse(k) ==
    /\ finishJob(k) /\ ~Fits(k)
    /\ UNCHANGED <<threadVars, link, note, nudge, pageVars>>

SetNote(k) ==
    /\ finishJob(k) /\ Fits(k) /\ k \in LinkNote \cup CombinedNote
    /\ note' = [note EXCEPT ![k] =
                  [@ EXCEPT !.stale = FALSE, !.mixed = draft[k].crossed,
                            !.from = IF draft[k].skip THEN note[k].from ELSE draft[k].seen]]
    /\ UNCHANGED <<threadVars, link, nudge, pageVars>>
=============================================================================
