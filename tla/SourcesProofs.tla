--------------------------- MODULE SourcesProofs ----------------------------
(***************************************************************************)
(* Proofs about links, notes and nudges, beside everything that summaries  *)
(* and outside pages do to them, for any threads, pages and plans.         *)
(*                                                                         *)
(* That notes and links agree (Agree) is kept by syncCombined, which       *)
(* leaves a thread's combined note gathering just what the thread is       *)
(* related to, and by nothing else touching those notes' sources.  It      *)
(* needs that a page nobody knows is on no thread (PageOK), that a note a  *)
(* moderator took down is down (TakenDown), so that no sync wakes it up,   *)
(* and that a worker has one of four answers to give (DraftOK).  What rows *)
(* hold else does not matter: their types are their fields.                *)
(* That pages are published only when they may be (PagesVetted) needs more *)
(* of a page: what is open or claimed for it, and what a worker has read   *)
(* of it (PagesInv, further down).                                         *)
(* That notes say what is so (Refreshed) needs what a worker has counted   *)
(* and read of a note's threads (TextInv, at the end): an answer fits when *)
(* versions add up to the same sum, and as none goes down they are then    *)
(* the same versions (EqualSums).                                          *)
(***************************************************************************)
EXTENDS Sources, FiniteSetTheorems, WellFoundedInduction, TLAPS

USE PostAssumption, MinAssumption

PostField == {"shown", "version", "under", "sink", "own"}
NoteField == {"state", "byMod", "stale", "sources", "from", "mixed"}
PageField == {"status", "via", "list", "summary", "hash", "version", "placed", "index", "problem",
              "cleared"}
DraftField == {"version", "ready", "skip", "seen", "out", "crossed"}

PostOK(ps) == DOMAIN ps = Post /\ \A p \in Post : DOMAIN ps[p] = PostField
NoteOK(ns) == DOMAIN ns = NoteKey /\ \A k \in NoteKey : DOMAIN ns[k] = NoteField
PageOK(pages) ==
    /\ DOMAIN pages = Page
    /\ \A s \in Page : DOMAIN pages[s] = PageField
                       /\ (pages[s].status = "none" => pages[s].placed = {})
DraftOK(ds) ==
    /\ DOMAIN ds = JobKey /\ \A k \in JobKey : DOMAIN ds[k] = DraftField
    /\ \A k \in JobKey : k[1] = "source" /\ ds[k].ready =>
                             ds[k].out \in {"same", "problem", "gone", "read"}

Lasting == CombinedNote \cup SummaryNote
TakenDown(ns) == \A k \in Lasting : ns[k].byMod => ns[k].state = "removed"
Reversed(nudges, ps) == \A p \in Post : nudges[<<"feed_weight", p>>] = "reversed" => ~ps[p].sink

Gathers(ns, links, pages, h) ==
    LET k == <<"combined", h, 0>> IN
    ns[k].state = "active" =>
        /\ Cardinality(ns[k].sources) >= CombinedMin
        /\ \A s \in ns[k].sources :
              \/ \E q \in Post \ {h} : s = <<"post", q>> /\ links[{h, q}] = "active"
              \/ \E r \in Page : s = <<"page", r>> /\ h \in pages[r].placed
Agree(ns, links, pages) ==
    /\ \A p, q \in Post : p # q =>
          (ns[<<"link", p, q>>].state = "active" <=> links[{p, q}] = "active")
    /\ \A h \in Post : Gathers(ns, links, pages, h)

IInv == /\ PostOK(post) /\ NoteOK(note) /\ PageOK(page) /\ DraftOK(draft)
        /\ DOMAIN link = Pairs /\ DOMAIN nudge = NudgeKey
        /\ TakenDown(note) /\ Reversed(nudge, post) /\ Agree(note, link, page)

(* What a step has to show, part by part.                                  *)
NudgePart == /\ PostOK(post') /\ DOMAIN nudge' = NudgeKey /\ Reversed(nudge', post')
             /\ \A n \in NudgeKey : nudge[n] = "reversed" => nudge'[n] = "reversed"
NotePart == /\ NoteOK(note') /\ DOMAIN link' = Pairs /\ TakenDown(note')
            /\ Agree(note', link', page')
            /\ \A k \in Lasting : note[k].byMod => note'[k].byMod
Good == NudgePart /\ NotePart /\ PageOK(page') /\ DraftOK(draft')

(***************************************************************************)
(* Keys                                                                    *)
(***************************************************************************)
LEMMA Keys ==
  /\ \A k \in LinkNote : /\ k = <<"link", k[2], k[3]>> /\ k[2] \in Post /\ k[3] \in Post
                         /\ k[2] # k[3] /\ k[1] = "link"
  /\ \A k \in CombinedNote : k = <<"combined", k[2], 0>> /\ k[2] \in Post /\ k[1] = "combined"
  /\ \A k \in SummaryNote : k[1] = "summary"
  /\ \A p, q \in Post : p # q => <<"link", p, q>> \in LinkNote /\ {p, q} \in Pairs
  /\ \A h \in Post : <<"combined", h, 0>> \in CombinedNote
  /\ NoteKey = LinkNote \cup CombinedNote \cup SummaryNote /\ NoteKey \subseteq JobKey
  /\ \A s \in Page : <<"source", s, 0>> \in JobKey /\ <<"seed", s, 0>> \in JobKey
  /\ \A k \in NoteKey : k[1] \notin {"source", "seed"}
<1>1. \A k \in LinkNote : /\ k = <<"link", k[2], k[3]>> /\ k[2] \in Post /\ k[3] \in Post
                          /\ k[2] # k[3] /\ k[1] = "link"
  BY DEF LinkNote
<1>2. \A k \in CombinedNote : k = <<"combined", k[2], 0>> /\ k[2] \in Post /\ k[1] = "combined"
  BY DEF CombinedNote
<1>3. \A k \in SummaryNote : k[1] = "summary"
  BY DEF SummaryNote
<1>4. \A p, q \in Post : p # q => <<"link", p, q>> \in LinkNote
  BY DEF LinkNote
<1>5. \A p, q \in Post : p # q => {p, q} \in Pairs
  BY DEF Pairs
<1>6. \A h \in Post : <<"combined", h, 0>> \in CombinedNote
  BY DEF CombinedNote
<1>7. NoteKey = LinkNote \cup CombinedNote \cup SummaryNote /\ NoteKey \subseteq JobKey
  BY DEF NoteKey, JobKey
<1>8. \A s \in Page : <<"source", s, 0>> \in JobKey /\ <<"seed", s, 0>> \in JobKey
  BY DEF JobKey
<1>. QED BY <1>1, <1>2, <1>3, <1>4, <1>5, <1>6, <1>7, <1>8

LEMMA NudgeKeys ==
  /\ \A n \in NudgeKey : n[1] = "feed_weight" => n = <<"feed_weight", n[2]>> /\ n[2] \in Post
  /\ \A p \in Post : <<"feed_weight", p>> \in NudgeKey
BY DEF NudgeKey

(***************************************************************************)
(* Parts that a step leaves alone, or nearly                               *)
(***************************************************************************)
LEMMA NudgesStill ==
  ASSUME IInv, nudge' = nudge, PostOK(post'), \A p \in Post : post'[p].sink = post[p].sink
  PROVE  NudgePart
BY DEF IInv, NudgePart, Reversed

(* No note changes its sources or wakes up, and no page leaves a thread.   *)
LEMMA NotesStill ==
  ASSUME IInv, link' = link, NoteOK(note'),
         \A s \in Page, h \in Post : h \in page[s].placed => h \in page'[s].placed,
         \A k \in LinkNote : note'[k].state = note[k].state,
         \A k \in CombinedNote : note'[k].state = "active" =>
                                     note[k].state = "active" /\ note'[k].sources = note[k].sources,
         \A k \in Lasting : note[k].byMod => note'[k].byMod,
         TakenDown(note')
  PROVE  NotePart
<1>1. \A p, q \in Post : p # q =>
          (note'[<<"link", p, q>>].state = "active" <=> link'[{p, q}] = "active")
  BY Keys DEF IInv, Agree
<1>2. ASSUME NEW h \in Post PROVE Gathers(note', link', page', h)
  <2>. DEFINE k == <<"combined", h, 0>>
  <2>1. k \in CombinedNote /\ Gathers(note, link, page, h)
    BY Keys DEF IInv, Agree
  <2>. QED BY <2>1 DEF Gathers
<1>. QED BY <1>1, <1>2 DEF IInv, NotePart, Agree

LEMMA NotesSame ==
  ASSUME IInv, link' = link, note' = note,
         \A s \in Page, h \in Post : h \in page[s].placed => h \in page'[s].placed
  PROVE  NotePart
BY NotesStill DEF IInv

(* Drafts: something is crossed, or one of them is written.                *)
LEMMA CrossedOK ==
  ASSUME DraftOK(draft), NEW ks
  PROVE  DraftOK(Crossed(ks))
BY DEF DraftOK, Crossed, DraftField

LEMMA DraftSet ==
  ASSUME NEW ds, DraftOK(ds), NEW k \in JobKey, NEW d, DOMAIN d = DraftField,
         k[1] = "source" /\ d.ready => d.out \in {"same", "problem", "gone", "read"}
  PROVE  DraftOK([ds EXCEPT ![k] = d])
BY DEF DraftOK

LEMMA EmptyDraft == DOMAIN NoDraft = DraftField /\ ~NoDraft.ready
BY DEF NoDraft, DraftField

(* Only notes' staleness changes.                                          *)
LEMMA StaleOK ==
  ASSUME IInv, NEW ks,
         note' = [k \in NoteKey |-> IF k \in ks THEN [note[k] EXCEPT !.stale = TRUE] ELSE note[k]]
  PROVE  /\ NoteOK(note') /\ TakenDown(note')
         /\ \A k \in NoteKey : /\ note'[k].state = note[k].state /\ note'[k].byMod = note[k].byMod
                               /\ note'[k].sources = note[k].sources
<1>1. \A k \in NoteKey : /\ DOMAIN note'[k] = NoteField
                         /\ note'[k].state = note[k].state /\ note'[k].byMod = note[k].byMod
                         /\ note'[k].sources = note[k].sources
  BY DEF IInv, NoteOK, NoteField
<1>2. TakenDown(note')
  BY <1>1, Keys DEF IInv, TakenDown, Lasting
<1>. QED BY <1>1, <1>2 DEF NoteOK

(***************************************************************************)
(* Threads                                                                 *)
(***************************************************************************)
LEMMA ThreadChangedInv ==
  ASSUME IInv, NEW ps, NEW cs, NEW ids, threadChanged(ps, cs, ids),
         PostOK(ps), \A p \in Post : ps[p].sink = post[p].sink
  PROVE  Good
<1>1. /\ post' = [q \in Post |-> IF q \in ids THEN [ps[q] EXCEPT !.version = @ + 1] ELSE ps[q]]
      /\ note' = [k \in NoteKey |-> IF k \in WrittenFrom(ids) THEN [note[k] EXCEPT !.stale = TRUE]
                                    ELSE note[k]]
      /\ UNCHANGED <<link, nudge, page, draft>>
  BY DEF threadChanged, pageVars
<1>2. PostOK(post') /\ \A p \in Post : post'[p].sink = post[p].sink
  BY <1>1 DEF PostOK, PostField
<1>3. NotePart
  BY <1>1, StaleOK, NotesStill, Keys DEF Lasting
<1>. QED BY <1>1, <1>2, <1>3, NudgesStill DEF Good, IInv

(* What moves and changes threads leaves sinking alone.                    *)
LEMMA ThreadsInv ==
  ASSUME IInv,
         \/ \E p \in Post : ChangeThread(p) \/ ChangeStatus(p) \/ MoveOut(p)
         \/ \E c \in Comment, to \in {"shown", "hidden"} : ChangeComment(c, to)
         \/ \E p, u \in Post : MoveUnder(p, u)
  PROVE  Good
<1>0. PostOK(post)
  BY DEF IInv
<1>1. ASSUME NEW p \in Post, ChangeThread(p) PROVE Good
  <2>. DEFINE ps == [post EXCEPT ![p].own = @ + 1]
  <2>1. threadChanged(ps, comment, ThreadOf(post, p))
    BY <1>1 DEF ChangeThread
  <2>2. PostOK(ps) /\ \A q \in Post : ps[q].sink = post[q].sink
    BY <1>0 DEF PostOK, PostField
  <2>. HIDE DEF ps
  <2>. QED BY <2>1, <2>2, ThreadChangedInv
<1>2. ASSUME NEW p \in Post, ChangeStatus(p) PROVE Good
  <2>. DEFINE ps == [post EXCEPT ![p].shown = ~@]
              qs == [ps EXCEPT ![p].own = @ + 1]
  <2>1. [post EXCEPT ![p].shown = ~@, ![p].own = @ + 1] = qs
    BY <1>0 DEF PostOK, PostField
  <2>2. PostOK(ps) /\ \A q \in Post : ps[q].sink = post[q].sink
    BY <1>0 DEF PostOK, PostField
  <2>3. threadChanged(qs, comment, ThreadOf(post, p))
    BY <1>2, <2>1 DEF ChangeStatus
  <2>. HIDE DEF ps
  <2>4. PostOK(qs) /\ \A q \in Post : qs[q].sink = post[q].sink
    BY <2>2 DEF PostOK, PostField
  <2>. HIDE DEF qs
  <2>. QED BY <2>3, <2>4, ThreadChangedInv
<1>3. ASSUME NEW p \in Post, MoveOut(p) PROVE Good
  <2>. DEFINE ps == [post EXCEPT ![p].under = 0]
  <2>1. threadChanged(ps, comment, ThreadOf(post, p))
    BY <1>3 DEF MoveOut
  <2>2. PostOK(ps) /\ \A q \in Post : ps[q].sink = post[q].sink
    BY <1>0 DEF PostOK, PostField
  <2>. HIDE DEF ps
  <2>. QED BY <2>1, <2>2, ThreadChangedInv
<1>4. ASSUME NEW p \in Post, NEW u \in Post, MoveUnder(p, u) PROVE Good
  <2>. DEFINE ps == [post EXCEPT ![p].under = u]
  <2>1. threadChanged(ps, comment, {p, u})
    BY <1>4 DEF MoveUnder
  <2>2. PostOK(ps) /\ \A q \in Post : ps[q].sink = post[q].sink
    BY <1>0 DEF PostOK, PostField
  <2>. HIDE DEF ps
  <2>. QED BY <2>1, <2>2, ThreadChangedInv
<1>5. ASSUME NEW c, NEW to, ChangeComment(c, to) PROVE Good
  <2>. DEFINE ps == [post EXCEPT ![Long].own = @ + 1]
  <2>1. threadChanged(ps, [comment EXCEPT ![c] = to], ThreadOf(post, Long))
    BY <1>5 DEF ChangeComment
  <2>2. PostOK(ps) /\ \A q \in Post : ps[q].sink = post[q].sink
    BY <1>0 DEF PostOK, PostField
  <2>. HIDE DEF ps
  <2>. QED BY <2>1, <2>2, ThreadChangedInv
<1>. QED BY <1>1, <1>2, <1>3, <1>4, <1>5

(***************************************************************************)
(* Links                                                                   *)
(***************************************************************************)

(* After syncCombined a thread's combined note gathers what it should, and *)
(* no other note has changed.                                              *)
LEMMA SyncIs ==
  ASSUME NEW ns, NoteOK(ns), TakenDown(ns), NEW links, NEW pages, NEW h \in Post,
         NEW new, NEW ms, ms = syncCombined(ns, Related(links, pages, h), h, new)
  PROVE  /\ NoteOK(ms) /\ TakenDown(ms) /\ Gathers(ms, links, pages, h)
         /\ \A k \in NoteKey : /\ k # <<"combined", h, 0>> => ms[k] = ns[k]
                               /\ ms[k].byMod = ns[k].byMod
<1>. DEFINE k == <<"combined", h, 0>>
            want == Related(links, pages, h)
            enough == Cardinality(want) >= CombinedMin
            off == [ns EXCEPT ![k].state = "removed"]
            on == [ns EXCEPT ![k] = [@ EXCEPT !.state = "active", !.stale = TRUE, !.sources = want]]
<1>1. k \in CombinedNote /\ k \in NoteKey /\ k \in Lasting
  BY Keys DEF Lasting
<1>2. \A s \in want : \/ \E q \in Post \ {h} : s = <<"post", q>> /\ links[{h, q}] = "active"
                      \/ \E r \in Page : s = <<"page", r>> /\ h \in pages[r].placed
  BY DEF Related
<1>3. ns[k].byMod => ns[k].state = "removed"
  BY <1>1 DEF TakenDown
<1>4. \/ ms = off /\ ~enough
      \/ ms = on /\ enough /\ ~ns[k].byMod
      \/ ms = ns /\ (ns[k].state = "active" => enough /\ ns[k].sources = want)
  BY <1>3 DEF syncCombined
<1>5. ns[k].state = "active" \/ ns[k].state # "active"
  OBVIOUS
<1>. HIDE DEF k, want, enough
<1>6. CASE ms = off
  <2>1. /\ DOMAIN ms = NoteKey /\ \A x \in NoteKey : x # k => ms[x] = ns[x]
        /\ DOMAIN ms[k] = NoteField /\ ms[k].state = "removed" /\ ms[k].byMod = ns[k].byMod
    BY <1>1, <1>6 DEF NoteOK, NoteField
  <2>2. NoteOK(ms) /\ \A x \in NoteKey : ms[x].byMod = ns[x].byMod
    BY <2>1 DEF NoteOK
  <2>3. TakenDown(ms)
    BY <1>3, <2>1, Keys DEF TakenDown, Lasting
  <2>4. Gathers(ms, links, pages, h)
    BY <2>1 DEF Gathers, k
  <2>. QED BY <2>1, <2>2, <2>3, <2>4 DEF k
<1>7. CASE ms = on /\ enough /\ ~ns[k].byMod
  <2>1. /\ DOMAIN ms = NoteKey /\ \A x \in NoteKey : x # k => ms[x] = ns[x]
        /\ DOMAIN ms[k] = NoteField /\ ms[k].byMod = ns[k].byMod /\ ms[k].sources = want
    BY <1>1, <1>7 DEF NoteOK, NoteField
  <2>2. NoteOK(ms) /\ \A x \in NoteKey : ms[x].byMod = ns[x].byMod
    BY <2>1 DEF NoteOK
  <2>3. TakenDown(ms)
    BY <1>7, <2>1, Keys DEF TakenDown, Lasting
  <2>4. Gathers(ms, links, pages, h)
    BY <1>2, <1>7, <2>1 DEF Gathers, k, enough
  <2>. QED BY <2>1, <2>2, <2>3, <2>4 DEF k
<1>8. CASE ms = ns /\ (ns[k].state = "active" => enough /\ ns[k].sources = want)
  BY <1>2, <1>8 DEF Gathers, k, enough
<1>. QED BY <1>4, <1>6, <1>7, <1>8

(* A sync of one thread leaves what another gathers.                       *)
LEMMA SyncOther ==
  ASSUME NEW ns, NEW ms, NEW links, NEW pages, NEW h \in Post, NEW g \in Post, g # h,
         \A k \in NoteKey : k # <<"combined", h, 0>> => ms[k] = ns[k],
         Gathers(ns, links, pages, g)
  PROVE  Gathers(ms, links, pages, g)
<1>1. <<"combined", g, 0>> \in NoteKey /\ <<"combined", g, 0>> # <<"combined", h, 0>>
  BY Keys
<1>2. ms[<<"combined", g, 0>>] = ns[<<"combined", g, 0>>]
  BY <1>1
<1>. QED BY <1>2 DEF Gathers

(* Two threads are linked, or no longer, and their combined notes synced:  *)
(* ns are the notes before that, when the two link notes have been put up  *)
(* or taken down.                                                          *)
LEMMA PairInv ==
  ASSUME IInv, NEW p \in Post, NEW q \in Post, p # q, NEW to, NEW new \in BOOLEAN,
         link' = [link EXCEPT ![{p, q}] = to], page' = page,
         NEW ns, NoteOK(ns),
         \A k \in {<<"link", p, q>>, <<"link", q, p>>} : ns[k].state = "active" <=> to = "active",
         \A k \in NoteKey \ {<<"link", p, q>>, <<"link", q, p>>} : ns[k] = note[k],
         note' = LET here == syncCombined(ns, Related(link', page, p), p, new)
                 IN  syncCombined(here, Related(link', page, q), q, new)
  PROVE  NotePart
<1>. DEFINE here == syncCombined(ns, Related(link', page, p), p, new)
<1>0. /\ {p, q} \in Pairs /\ DOMAIN link = Pairs
      /\ \A k \in Lasting : k \in NoteKey \ {<<"link", p, q>>, <<"link", q, p>>}
  BY Keys DEF IInv, Lasting
<1>1. TakenDown(ns)
  BY <1>0 DEF TakenDown, IInv
<1>2. /\ NoteOK(here) /\ TakenDown(here) /\ Gathers(here, link', page, p)
      /\ \A k \in NoteKey : /\ k # <<"combined", p, 0>> => here[k] = ns[k]
                            /\ here[k].byMod = ns[k].byMod
  BY <1>1, SyncIs
<1>. DEFINE both == syncCombined(here, Related(link', page, q), q, new)
<1>3. note' = both
  OBVIOUS
<1>. HIDE DEF here
<1>4. /\ NoteOK(note') /\ TakenDown(note') /\ Gathers(note', link', page, q)
      /\ \A k \in NoteKey : /\ k # <<"combined", q, 0>> => note'[k] = here[k]
                            /\ note'[k].byMod = here[k].byMod
  <2>1. /\ NoteOK(both) /\ TakenDown(both) /\ Gathers(both, link', page, q)
        /\ \A k \in NoteKey : /\ k # <<"combined", q, 0>> => both[k] = here[k]
                              /\ both[k].byMod = here[k].byMod
    BY <1>2, SyncIs
  <2>. HIDE DEF both
  <2>. QED BY <1>3, <2>1
<1>5. DOMAIN link' = Pairs /\ link'[{p, q}] = to /\ \A x \in Pairs : x # {p, q} => link'[x] = link[x]
  BY <1>0
<1>6. ASSUME NEW r \in Post, NEW s \in Post, r # s
      PROVE  note'[<<"link", r, s>>].state = "active" <=> link'[{r, s}] = "active"
  <2>1. <<"link", r, s>> \in NoteKey /\ {r, s} \in Pairs
    BY <1>6, Keys
  <2>2. note'[<<"link", r, s>>] = ns[<<"link", r, s>>]
    BY <1>2, <1>4, <2>1
  <2>3. CASE <<r, s>> \in {<<p, q>>, <<q, p>>}
    <3>1. {r, s} = {p, q} /\ <<"link", r, s>> \in {<<"link", p, q>>, <<"link", q, p>>}
      BY <2>3
    <3>. QED BY <1>5, <2>2, <3>1
  <2>4. CASE <<r, s>> \notin {<<p, q>>, <<q, p>>}
    <3>1. {r, s} # {p, q}
      BY <1>6, <2>4
    <3>2. <<"link", r, s>> \notin {<<"link", p, q>>, <<"link", q, p>>}
      BY <2>4
    <3>3. note[<<"link", r, s>>].state = "active" <=> link[{r, s}] = "active"
      BY <1>6 DEF IInv, Agree
    <3>. QED BY <1>5, <2>1, <2>2, <3>1, <3>2, <3>3
  <2>. QED BY <2>3, <2>4
<1>7. ASSUME NEW h \in Post PROVE Gathers(note', link', page', h)
  <2>1. CASE h = q
    BY <1>4, <2>1
  <2>2. CASE h = p
    <3>1. Gathers(here, link', page, h) /\ h # q
      BY <1>2, <2>2
    <3>2. <<"combined", h, 0>> \in NoteKey /\ <<"combined", h, 0>> # <<"combined", q, 0>>
      BY <3>1, Keys
    <3>3. note'[<<"combined", h, 0>>] = here[<<"combined", h, 0>>]
      BY <1>4, <3>2
    <3>4. Gathers(note', link', page, h)
      BY <3>1, <3>3, ZenonT(60) DEF Gathers
    <3>. QED BY <1>0, <3>4
  <2>3. CASE h \notin {p, q}
    <3>1. <<"combined", h, 0>> \in NoteKey \ {<<"link", p, q>>, <<"link", q, p>>}
      BY <1>0, Keys DEF Lasting
    <3>2. <<"combined", h, 0>> \notin {<<"combined", p, 0>>, <<"combined", q, 0>>}
      BY <2>3
    <3>3. note'[<<"combined", h, 0>>] = note[<<"combined", h, 0>>]
      BY <1>2, <1>4, <3>1, <3>2
    <3>4. \A g \in Post \ {h} : link'[{h, g}] = link[{h, g}]
      <4>. SUFFICES ASSUME NEW g \in Post \ {h} PROVE link'[{h, g}] = link[{h, g}]
        OBVIOUS
      <4>1. {h, g} \in Pairs /\ {h, g} # {p, q}
        BY <2>3, Keys
      <4>. QED BY <1>5, <4>1
    <3>5. Gathers(note, link, page, h)
      BY DEF IInv, Agree
    <3>. QED BY <3>3, <3>4, <3>5, ZenonT(60) DEF Gathers
  <2>. QED BY <2>1, <2>2, <2>3
<1>8. ASSUME NEW k \in Lasting, note[k].byMod PROVE note'[k].byMod
  BY <1>0, <1>2, <1>4, <1>8
<1>. QED BY <1>4, <1>5, <1>6, <1>7, <1>8 DEF NotePart, Agree

(* A repeat of a thread sinks, unless a moderator had it rise again.       *)
LEMMA SinkInv ==
  ASSUME IInv, NEW p, NEW q, feedWeight(p, q)
  PROVE  NudgePart
<1>1. CASE Sinks(p, q)
  <2>. DEFINE newer == Max({p, q})
  <2>1. /\ nudge' = [nudge EXCEPT ![<<"feed_weight", newer>>] = "active"]
        /\ post' = [post EXCEPT ![newer].sink = TRUE]
        /\ nudge[<<"feed_weight", newer>>] = "none"
    BY <1>1 DEF feedWeight, Sinks
  <2>. HIDE DEF newer
  <2>2. PostOK(post') /\ \A x \in Post : x # newer => post'[x].sink = post[x].sink
    BY <2>1 DEF IInv, PostOK, PostField
  <2>3. /\ DOMAIN nudge' = NudgeKey
        /\ \A n \in NudgeKey : n # <<"feed_weight", newer>> => nudge'[n] = nudge[n]
        /\ <<"feed_weight", newer>> \in NudgeKey => nudge'[<<"feed_weight", newer>>] = "active"
    BY <2>1 DEF IInv
  <2>4. \A n \in NudgeKey : nudge[n] = "reversed" <=> nudge'[n] = "reversed"
    BY <2>1, <2>3
  <2>5. ASSUME NEW x \in Post, nudge'[<<"feed_weight", x>>] = "reversed" PROVE ~post'[x].sink
    <3>1. <<"feed_weight", x>> \in NudgeKey
      BY NudgeKeys
    <3>2. nudge[<<"feed_weight", x>>] = "reversed"
      BY <2>4, <2>5, <3>1
    <3>3. x # newer
      BY <2>1, <3>2
    <3>. QED BY <2>2, <3>2, <3>3 DEF IInv, Reversed
  <2>. QED BY <2>2, <2>3, <2>4, <2>5 DEF NudgePart, Reversed
<1>2. CASE ~Sinks(p, q)
  BY <1>2, NudgesStill DEF feedWeight, IInv
<1>. QED BY <1>1, <1>2

LEMMA addLinkInv ==
  ASSUME IInv, NEW p \in Post, NEW q \in Post, NEW byPerson, addLink(p, q, byPerson)
  PROVE  Good
<1>. DEFINE both == linkNote(linkNote(note, p, q), q, p)
<1>1. /\ p # q /\ link' = [link EXCEPT ![{p, q}] = "active"] /\ page' = page
      /\ note' = LET here == syncCombined(both, Related(link', page, p), p, TRUE)
                 IN  syncCombined(here, Related(link', page, q), q, TRUE)
      /\ draft' = Crossed(Requeued(note')) /\ feedWeight(p, q)
  BY DEF addLink, NotesBecome, pageVars
<1>2. /\ NoteOK(both)
      /\ \A k \in {<<"link", p, q>>, <<"link", q, p>>} : both[k].state = "active"
      /\ \A k \in NoteKey \ {<<"link", p, q>>, <<"link", q, p>>} : both[k] = note[k]
  <2>1. {<<"link", p, q>>, <<"link", q, p>>} \subseteq NoteKey
    BY <1>1, Keys
  <2>2. ASSUME NEW ns, NoteOK(ns), NEW h \in Post, NEW x \in Post, <<"link", h, x>> \in NoteKey
        PROVE  /\ NoteOK(linkNote(ns, h, x)) /\ linkNote(ns, h, x)[<<"link", h, x>>].state = "active"
               /\ \A k \in NoteKey \ {<<"link", h, x>>} : linkNote(ns, h, x)[k] = ns[k]
    BY <2>2 DEF linkNote, NoteOK, NoteField
  <2>. DEFINE one == linkNote(note, p, q)
  <2>3. /\ NoteOK(one) /\ one[<<"link", p, q>>].state = "active"
        /\ \A k \in NoteKey \ {<<"link", p, q>>} : one[k] = note[k]
    BY <2>1, <2>2 DEF IInv
  <2>. HIDE DEF one
  <2>4. /\ NoteOK(linkNote(one, q, p)) /\ linkNote(one, q, p)[<<"link", q, p>>].state = "active"
        /\ \A k \in NoteKey \ {<<"link", q, p>>} : linkNote(one, q, p)[k] = one[k]
    BY <2>1, <2>2, <2>3
  <2>5. both = linkNote(one, q, p)
    BY DEF one
  <2>. HIDE DEF both
  <2>. QED BY <2>1, <2>3, <2>4, <2>5
<1>. HIDE DEF both
<1>3. NotePart
  <2>1. \A k \in {<<"link", p, q>>, <<"link", q, p>>} : both[k].state = "active" <=> "active" = "active"
    BY <1>2
  <2>. QED BY <1>1, <1>2, <2>1, PairInv, ZenonT(60)
<1>4. DraftOK(draft') /\ PageOK(page')
  BY <1>1, CrossedOK DEF IInv
<1>. QED BY <1>1, <1>3, <1>4, SinkInv DEF Good

LEMMA RemoveLinkInv ==
  ASSUME IInv, NEW p \in Post, NEW q \in Post, p # q, RemoveLink(p, q)
  PROVE  Good
<1>. DEFINE gone == [k \in NoteKey |-> IF k \in {<<"link", p, q>>, <<"link", q, p>>}
                                   THEN [note[k] EXCEPT !.state = "removed", !.byMod = TRUE] ELSE note[k]]
<1>1. /\ link' = [link EXCEPT ![{p, q}] = "rejected"] /\ page' = page
      /\ note' = LET here == syncCombined(gone, Related(link', page, p), p, FALSE)
                 IN  syncCombined(here, Related(link', page, q), q, FALSE)
      /\ draft' = Crossed(Requeued(note')) /\ UNCHANGED <<post, nudge>>
  BY DEF RemoveLink, NotesBecome, pageVars, threadVars
<1>2. {<<"link", p, q>>, <<"link", q, p>>} \subseteq NoteKey
  <2>1. <<"link", p, q>> \in LinkNote /\ <<"link", q, p>> \in LinkNote
    BY Keys
  <2>. QED BY <2>1, Keys
<1>3. /\ NoteOK(gone)
      /\ \A k \in {<<"link", p, q>>, <<"link", q, p>>} : gone[k].state = "removed"
      /\ \A k \in NoteKey \ {<<"link", p, q>>, <<"link", q, p>>} : gone[k] = note[k]
  BY <1>2 DEF NoteOK, NoteField, IInv
<1>. HIDE DEF gone
<1>4. NotePart
  <2>1. \A k \in {<<"link", p, q>>, <<"link", q, p>>} : gone[k].state = "active" <=> "rejected" = "active"
    BY <1>3
  <2>. QED BY <1>1, <1>3, <2>1, PairInv, ZenonT(60)
<1>5. NudgePart
  BY <1>1, NudgesStill DEF IInv
<1>. QED BY <1>1, <1>4, <1>5, CrossedOK DEF Good, IInv

LEMMA RemoveNoteInv ==
  ASSUME IInv, NEW k \in NoteKey, RemoveNote(k)
  PROVE  Good
<1>. DEFINE down == [note EXCEPT ![k].state = "removed"]
<1>1. note' = [down EXCEPT ![k].byMod = TRUE] /\ k \notin LinkNote
  BY Keys DEF RemoveNote, IInv, NoteOK, NoteField
<1>2. UNCHANGED <<post, link, nudge, page, draft>>
  BY DEF RemoveNote, threadVars, pageVars, jobVars
<1>3. /\ NoteOK(down) /\ down[k].state = "removed"
      /\ \A x \in NoteKey \ {k} : down[x] = note[x]
  BY DEF IInv, NoteOK, NoteField
<1>. HIDE DEF down
<1>4. /\ NoteOK(note') /\ note'[k].state = "removed" /\ note'[k].byMod
      /\ \A x \in NoteKey \ {k} : note'[x] = note[x]
  BY <1>1, <1>3 DEF NoteOK, NoteField
<1>5. NotePart
  <2>1. TakenDown(note')
    BY <1>4, Keys DEF IInv, TakenDown, Lasting
  <2>2. \A x \in LinkNote : note'[x].state = note[x].state
    BY <1>1, <1>4, Keys
  <2>3. \A x \in CombinedNote : note'[x].state = "active" =>
                                   note[x].state = "active" /\ note'[x].sources = note[x].sources
    BY <1>4, Keys
  <2>4. \A x \in Lasting : note[x].byMod => note'[x].byMod
    BY <1>4, Keys DEF Lasting
  <2>. QED BY <1>2, <1>4, <2>1, <2>2, <2>3, <2>4, NotesStill
<1>. QED BY <1>2, <1>5, NudgesStill DEF Good, IInv

LEMMA ReverseNudgeInv ==
  ASSUME IInv, NEW n \in NudgeKey, ReverseNudge(n)
  PROVE  Good
<1>1. /\ nudge' = [nudge EXCEPT ![n] = "reversed"]
      /\ post' = IF n[1] = "feed_weight" THEN [post EXCEPT ![n[2]].sink = FALSE] ELSE post
      /\ UNCHANGED <<link, note, page, draft>>
  BY DEF ReverseNudge, pageVars, jobVars
<1>2. PostOK(post') /\ \A p \in Post : post'[p].sink => post[p].sink
  BY <1>1 DEF IInv, PostOK, PostField
<1>3. \A p \in Post : n = <<"feed_weight", p>> => ~post'[p].sink
  BY <1>1 DEF IInv, PostOK, PostField
<1>4. /\ DOMAIN nudge' = NudgeKey
      /\ \A x \in NudgeKey : nudge'[x] = IF x = n THEN "reversed" ELSE nudge[x]
  BY <1>1 DEF IInv
<1>5. ASSUME NEW p \in Post, nudge'[<<"feed_weight", p>>] = "reversed" PROVE ~post'[p].sink
  BY <1>2, <1>3, <1>4, <1>5, NudgeKeys DEF IInv, Reversed
<1>6. NudgePart
  BY <1>2, <1>4, <1>5 DEF NudgePart, Reversed
<1>. QED BY <1>1, <1>6, NotesSame DEF Good, IInv

(***************************************************************************)
(* Pages                                                                   *)
(***************************************************************************)
LEMMA PagesBecomeInv ==
  ASSUME IInv, NEW pages, PageOK(pages), NEW h \in Post \cup {0}, PagesBecome(pages, h),
         \A s \in Page, g \in Post : g # h /\ g \in page[s].placed => g \in pages[s].placed
  PROVE  Good
<1>1. page' = pages /\ UNCHANGED <<post, link, nudge>>
  BY DEF PagesBecome, threadVars
<1>2. NudgePart
  BY <1>1, NudgesStill DEF IInv
<1>3. CASE h = 0
  <2>1. note' = note /\ draft' = draft
    BY <1>3 DEF PagesBecome
  <2>2. \A s \in Page, g \in Post : g \in page[s].placed => g \in page'[s].placed
    BY <1>1, <1>3
  <2>. QED BY <1>1, <1>2, <2>1, <2>2, NotesSame DEF Good, IInv
<1>4. CASE h # 0
  <2>1. h \in Post
    BY <1>4
  <2>. DEFINE synced == syncCombined(note, Related(link, pages, h), h, FALSE)
  <2>2. note' = synced /\ draft' = Crossed(Requeued(note'))
    BY <1>4 DEF PagesBecome
  <2>3. /\ NoteOK(synced) /\ TakenDown(synced) /\ Gathers(synced, link, pages, h)
        /\ \A k \in NoteKey : /\ k # <<"combined", h, 0>> => synced[k] = note[k]
                              /\ synced[k].byMod = note[k].byMod
    <3>1. NoteOK(note) /\ TakenDown(note)
      BY DEF IInv
    <3>2. ASSUME NEW new, NEW ms, ms = syncCombined(note, Related(link, pages, h), h, new)
          PROVE  /\ NoteOK(ms) /\ TakenDown(ms) /\ Gathers(ms, link, pages, h)
                 /\ \A k \in NoteKey : /\ k # <<"combined", h, 0>> => ms[k] = note[k]
                                       /\ ms[k].byMod = note[k].byMod
      BY <2>1, <3>1, <3>2, SyncIs
    <3>. QED BY <3>2, Zenon
  <2>. HIDE DEF synced
  <2>4. ASSUME NEW g \in Post PROVE Gathers(note', link', page', g)
    <3>1. CASE g = h
      BY <1>1, <2>2, <2>3, <3>1
    <3>2. CASE g # h
      <4>1. Gathers(note, link, page, g)
        BY DEF IInv, Agree
      <4>2. Gathers(note, link, pages, g)
        BY <3>2, <4>1 DEF Gathers
      <4>3. Gathers(synced, link, pages, g)
        BY <2>1, <2>3, <3>2, <4>2, SyncOther
      <4>. QED BY <1>1, <2>2, <4>3
    <3>. QED BY <3>1, <3>2
  <2>5. ASSUME NEW p \in Post, NEW q \in Post, p # q
        PROVE  note'[<<"link", p, q>>].state = "active" <=> link'[{p, q}] = "active"
    <3>1. <<"link", p, q>> \in NoteKey /\ <<"link", p, q>> # <<"combined", h, 0>>
      BY <2>5, Keys
    <3>2. note'[<<"link", p, q>>] = note[<<"link", p, q>>]
      BY <2>2, <2>3, <3>1
    <3>. QED BY <1>1, <2>5, <3>2 DEF IInv, Agree
  <2>6. NotePart
    <3>1. \A k \in Lasting : note[k].byMod => note'[k].byMod
      BY <2>2, <2>3, Keys DEF Lasting
    <3>. QED BY <1>1, <2>2, <2>3, <2>4, <2>5, <3>1 DEF NotePart, Agree, IInv
  <2>. QED BY <1>1, <1>2, <2>2, <2>6, CrossedOK DEF Good, IInv
<1>. QED BY <1>3, <1>4

(* A row that stays on its threads, and is only unknown if it was.         *)
Stays(s, row) == /\ DOMAIN row = PageField /\ row.placed = page[s].placed
                 /\ row.status = "none" => page[s].status = "none"

LEMMA RowOK ==
  ASSUME IInv, NEW s \in Page, NEW row, Stays(s, row), page' = [page EXCEPT ![s] = row]
  PROVE  /\ PageOK(page')
         /\ \A r \in Page, h \in Post : h \in page[r].placed => h \in page'[r].placed
BY DEF IInv, PageOK, Stays

LEMMA IndexStays ==
  ASSUME NEW s, NEW row, Stays(s, row)
  PROVE  Stays(s, sourceIndex(row))
BY DEF Stays, sourceIndex, PageField

LEMMA PageStaysInv ==
  ASSUME IInv, NEW s \in Page, NEW row, NEW jobs, PageStays(s, row, jobs), Stays(s, row),
         DraftOK(draft')
  PROVE  Good
<1>1. page' = [page EXCEPT ![s] = row] /\ UNCHANGED <<post, link, note, nudge>>
  BY DEF PageStays, threadVars
<1>2. NotePart /\ PageOK(page')
  BY <1>1, RowOK, NotesSame
<1>. QED BY <1>1, <1>2, NudgesStill DEF Good, IInv

LEMMA sourceChangedInv ==
  ASSUME IInv, NEW s \in Page, NEW row, NEW jobs, sourceChanged(s, row, jobs), Stays(s, row),
         DraftOK(draft')
  PROVE  Good
<1>1. page' = [page EXCEPT ![s] = row] /\ UNCHANGED <<post, link, nudge>>
  BY DEF sourceChanged, threadVars
<1>2. note' = [k \in NoteKey |-> IF k \in FromPage(s) THEN [note[k] EXCEPT !.stale = TRUE] ELSE note[k]]
  BY DEF sourceChanged
<1>3. /\ NoteOK(note') /\ TakenDown(note')
      /\ \A k \in NoteKey : /\ note'[k].state = note[k].state /\ note'[k].byMod = note[k].byMod
                            /\ note'[k].sources = note[k].sources
  BY <1>2, StaleOK
<1>4. NotePart /\ PageOK(page')
  BY <1>1, <1>3, RowOK, NotesStill, Keys DEF Lasting
<1>. QED BY <1>1, <1>4, NudgesStill DEF Good, IInv

LEMMA AddSourceInv ==
  ASSUME IInv, NEW s \in Page, NEW via, NEW list, NEW h \in Post \cup {0}, AddSource(s, via, list, h),
         via \in {"described", "member", "mod", "seed"}
  PROVE  Good
<1>. DEFINE row == IF page[s].status # "none" THEN page[s] ELSE NewRow(via, list, s \in allowed)
            pages == [page EXCEPT ![s] = [row EXCEPT !.placed = row.placed \cup ({h} \ {0})]]
<1>1. PagesBecome(pages, h)
  BY DEF AddSource
<1>2. /\ DOMAIN row = PageField /\ row.status # "none" /\ row.placed = page[s].placed
  <2>1. CASE page[s].status # "none"
    BY <2>1 DEF IInv, PageOK
  <2>2. CASE page[s].status = "none"
    <3>1. page[s].placed = {}
      BY <2>2 DEF IInv, PageOK
    <3>2. /\ DOMAIN NewRow(via, list, s \in allowed) = PageField
          /\ NewRow(via, list, s \in allowed).placed = {}
          /\ NewRow(via, list, s \in allowed).status \in {"pending", "active"}
      BY DEF NewRow, sourceIndex, NoPage, PageField
    <3>. QED BY <2>2, <3>1, <3>2
  <2>. QED BY <2>1, <2>2
<1>. HIDE DEF row
<1>3. PageOK(pages) /\ \A r \in Page, g \in Post : g # h /\ g \in page[r].placed => g \in pages[r].placed
  BY <1>2 DEF IInv, PageOK, PageField
<1>. HIDE DEF pages
<1>. QED BY <1>1, <1>3, PagesBecomeInv

LEMMA DetachSourceInv ==
  ASSUME IInv, NEW s \in Page, NEW h \in Post, DetachSource(s, h)
  PROVE  Good
<1>. DEFINE pages == [page EXCEPT ![s].placed = @ \ {h}]
<1>1. PagesBecome(pages, h)
  BY DEF DetachSource
<1>2. PageOK(pages) /\ \A r \in Page, g \in Post : g # h /\ g \in page[r].placed => g \in pages[r].placed
  BY DEF IInv, PageOK, PageField
<1>. HIDE DEF pages
<1>. QED BY <1>1, <1>2, PagesBecomeInv

LEMMA ModeratorsInv ==
  ASSUME IInv, NEW s \in Page, ApproveSources(s) \/ RemoveSource(s) \/ RestoreSource(s) \/ Recheck(s)
  PROVE  Good
<1>0. DOMAIN page[s] = PageField
  BY DEF IInv, PageOK
<1>1. CASE ApproveSources(s)
  <2>. DEFINE row == [page[s] EXCEPT !.status = "active", !.cleared = TRUE]
  <2>1. Stays(s, sourceIndex(row))
    <3>1. Stays(s, row)
      BY <1>0 DEF Stays, PageField
    <3>. QED BY <3>1, IndexStays
  <2>. QED BY <1>1, <2>1, PageStaysInv DEF ApproveSources, IInv
<1>2. CASE RemoveSource(s)
  <2>. DEFINE row == [page[s] EXCEPT !.status = "removed", !.summary = 0, !.hash = 0, !.index = FALSE]
  <2>1. Stays(s, row)
    BY <1>0 DEF Stays, PageField
  <2>2. sourceChanged(s, row, job) /\ DraftOK(draft')
    BY <1>2, CrossedOK DEF RemoveSource, IInv
  <2>. HIDE DEF row
  <2>. QED BY <2>1, <2>2, sourceChangedInv
<1>3. CASE RestoreSource(s)
  <2>. DEFINE row == [page[s] EXCEPT !.status = "active", !.version = @ + 1, !.cleared = TRUE]
  <2>1. Stays(s, row)
    BY <1>0 DEF Stays, PageField
  <2>2. PageStays(s, row, schedule(job, {<<"source", s, 0>>})) /\ DraftOK(draft')
    BY <1>3 DEF RestoreSource, IInv
  <2>. HIDE DEF row
  <2>. QED BY <2>1, <2>2, PageStaysInv
<1>4. CASE Recheck(s)
  <2>1. Stays(s, page[s])
    BY <1>0 DEF Stays
  <2>. QED BY <1>4, <2>1, PageStaysInv DEF Recheck, IInv
<1>. QED BY <1>1, <1>2, <1>3, <1>4

(* Nothing that is proved about changes.                                   *)
LEMMA OthersStill ==
  ASSUME IInv, UNCHANGED <<post, link, note, nudge, page>>, DraftOK(draft')
  PROVE  Good
BY NudgesStill, NotesSame DEF Good, IInv

(***************************************************************************)
(* The worker                                                              *)
(***************************************************************************)
LEMMA ClaimInv ==
  ASSUME IInv, NEW k \in JobKey, ClaimNote(k) \/ ClaimSummary(k) \/ ClaimSource(k)
  PROVE  Good
<1>1. PICK d : draft' = [draft EXCEPT ![k] = d] /\ DOMAIN d = DraftField /\ ~d.ready
  <2>1. CASE ClaimNote(k)
    <3>. DEFINE d == [NoDraft EXCEPT !.version = noteVersion(k)]
    <3>1. draft' = [draft EXCEPT ![k] = d]
      BY <2>1 DEF ClaimNote, Claim
    <3>2. DOMAIN d = DraftField /\ ~d.ready
      BY DEF NoDraft, DraftField
    <3>. QED BY <3>1, <3>2
  <2>2. CASE ClaimSummary(k)
    <3>. DEFINE d == [NoDraft EXCEPT !.version = post[Long].version]
    <3>1. draft' = [draft EXCEPT ![k] = d]
      BY <2>2 DEF ClaimSummary, Claim
    <3>2. DOMAIN d = DraftField /\ ~d.ready
      BY DEF NoDraft, DraftField
    <3>. QED BY <3>1, <3>2
  <2>3. CASE ClaimSource(k)
    <3>. DEFINE row == page[k[2]]
                d == [NoDraft EXCEPT !.version = row.version, !.seen = {row.hash},
                        !.skip = k[1] = "source" /\ (row.via = "described" \/ row.status = "removed"),
                        !.out = IF k[1] = "seed" \/ row.summary = 0 THEN "blank" ELSE "known"]
    <3>1. draft' = [draft EXCEPT ![k] = d]
      BY <2>3 DEF ClaimSource, Claim
    <3>2. DOMAIN d = DraftField /\ ~d.ready
      BY DEF NoDraft, DraftField
    <3>. QED BY <3>1, <3>2
  <2>. QED BY <2>1, <2>2, <2>3
<1>2. DraftOK(draft')
  BY <1>1, DraftSet DEF IInv
<1>. QED BY <1>2, OthersStill DEF ClaimNote, ClaimSummary, ClaimSource, threadVars, pageVars

LEMMA ReadInv ==
  ASSUME IInv, NEW k \in JobKey,
         ReadNote(k) \/ ReadComments(k) \/ (\E blocked \in BOOLEAN : FetchPage(k, blocked))
  PROVE  Good
<1>0. DOMAIN draft = JobKey /\ DOMAIN draft[k] = DraftField
  BY DEF IInv, DraftOK
<1>1. ASSUME NEW skip, NEW seen, k \in NoteKey,
             draft' = [draft EXCEPT ![k].ready = TRUE, ![k].skip = skip, ![k].seen = seen]
      PROVE  DraftOK(draft')
  <2>. DEFINE one == [draft EXCEPT ![k].ready = TRUE]
              two == [one EXCEPT ![k].skip = skip]
  <2>1. draft' = [two EXCEPT ![k].seen = seen]
    BY <1>0, <1>1 DEF DraftField
  <2>2. k[1] # "source"
    BY <1>1, Keys
  <2>3. DraftOK(one)
    BY <2>2 DEF IInv, DraftOK, DraftField
  <2>. HIDE DEF one
  <2>4. DraftOK(two)
    BY <2>2, <2>3 DEF DraftOK, DraftField
  <2>. HIDE DEF two
  <2>. QED BY <2>1, <2>2, <2>4 DEF DraftOK, DraftField
<1>2. CASE ReadNote(k)
  <2>1. DraftOK(draft')
    BY <1>1, <1>2, Keys DEF ReadNote
  <2>. QED BY <1>2, <2>1, OthersStill DEF ReadNote, threadVars, pageVars
<1>3. CASE ReadComments(k)
  <2>. DEFINE skip == ~post[Long].shown \/ Cardinality(ShownComments) < SummaryMin
  <2>1. draft' = [draft EXCEPT ![k].ready = TRUE, ![k].skip = skip, ![k].seen = ShownComments]
    <3>. DEFINE one == [draft EXCEPT ![k].ready = TRUE]
    <3>1. draft' = [[one EXCEPT ![k].seen = ShownComments] EXCEPT ![k].skip = skip]
      BY <1>0, <1>3 DEF ReadComments, DraftField
    <3>2. DOMAIN one = JobKey /\ DOMAIN one[k] = DraftField
      BY <1>0 DEF DraftField
    <3>3. [draft EXCEPT ![k].ready = TRUE, ![k].skip = skip, ![k].seen = ShownComments]
             = [[one EXCEPT ![k].skip = skip] EXCEPT ![k].seen = ShownComments]
      BY <1>0 DEF DraftField
    <3>. HIDE DEF one, skip
    <3>. QED BY <3>1, <3>2, <3>3 DEF DraftField
  <2>2. k \in NoteKey
    BY <1>3, Keys DEF ReadComments
  <2>3. DraftOK(draft')
    BY <1>1, <2>1, <2>2
  <2>. QED BY <1>3, <2>3, OthersStill DEF ReadComments, threadVars, pageVars
<1>4. ASSUME NEW blocked \in BOOLEAN, FetchPage(k, blocked) PROVE Good
  <2>. DEFINE d == Fetched(k, blocked)
  <2>1. DOMAIN d = DraftField /\ d.out \in {"same", "problem", "gone", "read"}
    BY <1>0, <1>4 DEF Fetched, DraftField
  <2>2. draft' = [draft EXCEPT ![k] = d]
    BY <1>4 DEF FetchPage
  <2>. HIDE DEF d
  <2>3. DraftOK(draft')
    BY <2>1, <2>2, DraftSet DEF IInv
  <2>. QED BY <1>4, <2>3, OthersStill DEF FetchPage, threadVars, pageVars
<1>. QED BY <1>2, <1>3, <1>4

LEMMA FinishOK ==
  ASSUME IInv, NEW k \in JobKey, finishJob(k)
  PROVE  DraftOK(draft')
BY DraftSet, EmptyDraft DEF finishJob, IInv

LEMMA WriteInv ==
  ASSUME IInv, NEW k \in JobKey,
         \/ Refuse(k) \/ SetNote(k)
         \/ \E covers, useful \in SUBSET Comment : SetSummary(k, covers, useful)
  PROVE  Good
<1>0. DraftOK(draft')
  BY FinishOK DEF Refuse, SetNote, SetSummary
<1>1. CASE Refuse(k)
  BY <1>0, <1>1, OthersStill DEF Refuse, threadVars, pageVars
<1>2. CASE SetNote(k)
  <2>. DEFINE n == [note[k] EXCEPT !.stale = FALSE, !.mixed = draft[k].crossed,
                                   !.from = IF draft[k].skip THEN note[k].from ELSE draft[k].seen]
  <2>1. k \in NoteKey /\ note' = [note EXCEPT ![k] = n]
    <3>1. k \in NoteKey
      BY <1>2, Keys DEF SetNote
    <3>2. note' = [note EXCEPT ![k] = n]
      BY <1>2 DEF SetNote
    <3>. QED BY <3>1, <3>2
  <2>2. /\ DOMAIN n = NoteField /\ n.state = note[k].state /\ n.byMod = note[k].byMod
        /\ n.sources = note[k].sources
    BY <2>1 DEF IInv, NoteOK, NoteField
  <2>. HIDE DEF n
  <2>3. NoteOK(note') /\ \A x \in NoteKey : /\ note'[x].state = note[x].state
                                            /\ note'[x].byMod = note[x].byMod
                                            /\ note'[x].sources = note[x].sources
    BY <2>1, <2>2 DEF IInv, NoteOK
  <2>4. TakenDown(note')
    BY <2>3, Keys DEF IInv, TakenDown, Lasting
  <2>5. UNCHANGED <<post, link, nudge, page>>
    BY <1>2 DEF SetNote, threadVars, pageVars
  <2>6. NotePart
    BY <2>3, <2>4, <2>5, Keys, NotesStill DEF Lasting
  <2>. QED BY <1>0, <2>5, <2>6, NudgesStill DEF Good, IInv
<1>3. ASSUME NEW covers, NEW useful, SetSummary(k, covers, useful) PROVE Good
  <2>. DEFINE n == setSummaryNote(note[k], ~draft[k].skip, covers)
  <2>1. /\ k \in SummaryNote /\ k \in NoteKey /\ k \notin LinkNote \cup CombinedNote
        /\ note' = [note EXCEPT ![k] = n] /\ nudge' = setNudges(useful)
        /\ UNCHANGED <<post, link, page>>
    BY <1>3, Keys DEF SetSummary, threadVars, pageVars
  <2>2. DOMAIN note[k] = NoteField
    BY <2>1 DEF IInv, NoteOK
  <2>3. DOMAIN n = NoteField /\ n.byMod = note[k].byMod /\ (note[k].byMod => n = note[k])
    BY <2>2 DEF setSummaryNote, NoteField
  <2>. HIDE DEF n
  <2>4. NoteOK(note') /\ note'[k] = n /\ \A x \in NoteKey \ {k} : note'[x] = note[x]
    BY <2>1, <2>3 DEF IInv, NoteOK
  <2>5. \A x \in Lasting : /\ x \in NoteKey /\ note'[x].byMod = note[x].byMod
                           /\ note[x].byMod => note'[x] = note[x]
    BY <2>3, <2>4, Keys DEF Lasting
  <2>6. TakenDown(note')
    BY <2>5 DEF IInv, TakenDown
  <2>7. \A x \in LinkNote \cup CombinedNote : note'[x] = note[x]
    BY <2>1, <2>4, Keys
  <2>8. NotePart
    BY <2>1, <2>4, <2>5, <2>6, <2>7, NotesStill
  <2>9. /\ DOMAIN nudge' = NudgeKey
        /\ \A x \in NudgeKey : x[1] = "feed_weight" \/ nudge[x] = "reversed" => nudge'[x] = nudge[x]
    BY <2>1 DEF setNudges
  <2>10. \A p \in Post : nudge'[<<"feed_weight", p>>] = nudge[<<"feed_weight", p>>]
    BY <2>9, NudgeKeys
  <2>11. NudgePart
    BY <2>1, <2>9, <2>10 DEF NudgePart, Reversed, IInv
  <2>. QED BY <1>0, <2>1, <2>8, <2>11 DEF Good, IInv
<1>. QED BY <1>1, <1>2, <1>3

LEMMA SetSourceInv ==
  ASSUME IInv, NEW s \in Page, SetSource(s)
  PROVE  Good
<1>. DEFINE k == <<"source", s, 0>>
            c == CHOOSE x \in draft[k].seen : TRUE
            answer == Answered(page[s], draft[k].out, c)
            row == IF Ignored(s) THEN page[s] ELSE sourceIndex(answer)
            jobs == [job EXCEPT ![k] = [open |-> FALSE, claimed |-> FALSE]]
<1>1. k \in JobKey /\ DOMAIN page[s] = PageField
  BY Keys DEF IInv, PageOK
<1>2. draft[k].out \in {"same", "problem", "gone", "read"}
  BY <1>1 DEF SetSource, IInv, DraftOK
<1>3. Stays(s, row)
  <2>1. Stays(s, page[s])
    BY <1>1 DEF Stays
  <2>2. ASSUME NEW x, NEW out \in {"same", "problem", "gone", "read"}
        PROVE  Stays(s, Answered(page[s], out, x))
    BY <1>1 DEF Answered, Revived, Stays, PageField
  <2>3. Stays(s, answer)
    BY <1>2, <2>2
  <2>. HIDE DEF answer
  <2>. QED BY <2>1, <2>3, IndexStays
<1>4. \/ sourceChanged(s, row, jobs) /\ draft' = [Crossed(FromPage(s)) EXCEPT ![k] = NoDraft]
      \/ PageStays(s, row, jobs) /\ draft' = [draft EXCEPT ![k] = NoDraft]
  BY DEF SetSource
<1>. HIDE DEF row, jobs, k
<1>5. DraftOK(draft')
  BY <1>1, <1>4, DraftSet, EmptyDraft, CrossedOK DEF IInv
<1>. QED BY <1>3, <1>4, <1>5, sourceChangedInv, PageStaysInv

LEMMA AddSeedsInv ==
  ASSUME IInv, NEW s \in Page, NEW found, AddSeeds(s, found)
  PROVE  Good
<1>. DEFINE k == <<"seed", s, 0>>
            new == {f \in found \ {s} : page[f].status = "none"}
            problem == draft[k].out = "problem"
            row == NewRow("seed", FALSE, FALSE)
<1>1. /\ page' = [f \in Page |-> IF f \in new THEN row
                                 ELSE IF f = s THEN [page[s] EXCEPT !.problem = problem] ELSE page[f]]
      /\ draft' = [draft EXCEPT ![k] = NoDraft]
      /\ UNCHANGED <<post, link, note, nudge>>
  BY DEF AddSeeds, threadVars
<1>2. DraftOK(draft')
  BY <1>1, Keys, DraftSet, EmptyDraft DEF IInv
<1>3. DOMAIN row = PageField /\ row.placed = {} /\ row.status = "pending"
  BY DEF NewRow, sourceIndex, NoPage, PageField
<1>4. /\ DOMAIN [page[s] EXCEPT !.problem = problem] = PageField
      /\ [page[s] EXCEPT !.problem = problem].placed = page[s].placed
      /\ [page[s] EXCEPT !.problem = problem].status = page[s].status
  BY DEF IInv, PageOK, PageField
<1>5. \A f \in Page : f \in new => page[f].placed = {}
  BY DEF IInv, PageOK
<1>. HIDE DEF row, problem, new
<1>6. PageOK(page') /\ \A r \in Page : page'[r].placed = page[r].placed
  BY <1>1, <1>3, <1>4, <1>5 DEF IInv, PageOK
<1>. QED BY <1>1, <1>2, <1>6, NotesSame, NudgesStill DEF Good, IInv

(***************************************************************************)
(* The theorems                                                            *)
(***************************************************************************)
LEMMA InitInv == Init => IInv
<1>. SUFFICES ASSUME Init PROVE IInv
  OBVIOUS
<1>1. PostOK(post)
  BY DEF Init, PostOK, NoPost, PostField
<1>2. NoteOK(note) /\ \A k \in NoteKey : note[k].state = "none" /\ note[k].byMod = FALSE
  BY DEF Init, NoteOK, NoNote, NoteField
<1>3. PageOK(page)
  BY DEF Init, PageOK, NoPage, PageField
<1>4. DraftOK(draft)
  BY DEF Init, DraftOK, NoDraft, DraftField
<1>5. TakenDown(note)
  BY <1>2, Keys DEF TakenDown, Lasting
<1>6. DOMAIN link = Pairs /\ DOMAIN nudge = NudgeKey
  BY DEF Init
<1>7. Reversed(nudge, post)
  BY NudgeKeys DEF Init, Reversed
<1>8. Agree(note, link, page)
  <2>1. \A p, q \in Post : p # q => note[<<"link", p, q>>].state = "none" /\ link[{p, q}] = "none"
    BY <1>2, Keys DEF Init
  <2>2. \A h \in Post : note[<<"combined", h, 0>>].state = "none"
    BY <1>2, Keys
  <2>. QED BY <2>1, <2>2 DEF Agree, Gathers
<1>. QED BY <1>1, <1>2, <1>3, <1>4, <1>5, <1>6, <1>7, <1>8 DEF IInv

(* Every step shows its parts, one kind of step at a time.                 *)
LEMMA NextGood == IInv /\ [Next]_vars => Good
<1>. SUFFICES ASSUME IInv, [Next]_vars PROVE Good
  OBVIOUS
<1>1. ASSUME linkPost PROVE Good
  BY <1>1, addLinkInv DEF linkPost, AddLink
<1>2. ASSUME unlinkPost PROVE Good
  <2>1. PICK p \in Post, q \in Post : p < q /\ RemoveLink(p, q)
    BY <1>2 DEF unlinkPost
  <2>2. p # q
    BY <2>1
  <2>. QED BY <2>1, <2>2, RemoveLinkInv
<1>3. ASSUME movePost \/ moveOutPost PROVE Good
  BY <1>3, ThreadsInv DEF movePost, moveOutPost
<1>4. ASSUME reverseNudge PROVE Good
  BY <1>4, ReverseNudgeInv DEF reverseNudge
<1>5. ASSUME removeNote PROVE Good
  BY <1>5, RemoveNoteInv DEF removeNote
<1>6. ASSUME addSource PROVE Good
  BY <1>6, AddSourceInv DEF addSource
<1>7. ASSUME sourceActions PROVE Good
  <2>1. ASSUME NEW s \in Page, NEW on, AllowDomain(s, on) PROVE Good
    BY <2>1, OthersStill DEF AllowDomain, threadVars, jobVars, IInv
  <2>. QED BY <1>7, <2>1, ModeratorsInv, DetachSourceInv DEF sourceActions
<1>8. ASSUME \/ \E p \in Post : ChangeThread(p) \/ ChangeStatus(p)
             \/ \E c \in Comment, to \in {"shown", "hidden"} : ChangeComment(c, to)
      PROVE  Good
  BY <1>8, ThreadsInv
<1>9. ASSUME Others PROVE Good
  <2>1. ASSUME NEW p \in Post, NEW q \in Post, SetCheck(p, q) PROVE Good
    BY <2>1, addLinkInv DEF SetCheck
  <2>2. ASSUME NEW s \in Page, NEW to, WebChanges(s, to) PROVE Good
    BY <2>2, OthersStill DEF WebChanges, threadVars, jobVars, IInv
  <2>3. ASSUME NEW s \in Page, Recheck(s) PROVE Good
    BY <2>3, ModeratorsInv
  <2>. QED BY <1>9, <2>1, <2>2, <2>3 DEF Others
<1>10. ASSUME NEW k \in JobKey, Read(k) PROVE Good
  BY <1>10, ClaimInv, ReadInv DEF Read
<1>11. ASSUME NEW k \in JobKey, Write(k) PROVE Good
  BY <1>11, WriteInv, SetSourceInv, AddSeedsInv DEF Write
<1>12. CASE UNCHANGED vars
  BY <1>12, OthersStill DEF vars, IInv
<1>. QED BY <1>1, <1>2, <1>3, <1>4, <1>5, <1>6, <1>7, <1>8, <1>9, <1>10, <1>11, <1>12
         DEF Next, People

LEMMA NextInv == IInv /\ [Next]_vars => IInv'
<1>. SUFFICES ASSUME Good PROVE IInv'
  BY NextGood
<1>1. PostOK(post)' /\ NoteOK(note)' /\ PageOK(page)' /\ DraftOK(draft)'
  BY DEF Good, NudgePart, NotePart, PostOK, NoteOK, PageOK, DraftOK
<1>2. TakenDown(note)' /\ Reversed(nudge, post)'
  BY DEF Good, NudgePart, NotePart, TakenDown, Reversed
<1>3. Agree(note, link, page)'
  BY DEF Good, NotePart, Agree, Gathers
<1>. QED BY <1>1, <1>2, <1>3 DEF IInv, Good, NudgePart, NotePart

LEMMA Invariant == Spec => []IInv
BY InitInv, NextInv, PTL DEF Spec

(* A link note shows exactly while its threads are linked, on both, and a  *)
(* combined note gathers no thread that was unlinked, no page taken off    *)
(* the thread, and never too little, whatever checks, moderators and       *)
(* workers do (cmd/links.go, syncCombined).                                *)
THEOREM LinksAlwaysShow == Spec => []LinksShow
<1>1. IInv => LinksShow
  <2>. SUFFICES ASSUME IInv PROVE LinksShow
    OBVIOUS
  <2>1. ASSUME NEW k \in LinkNote PROVE note[k].state = "active" <=> link[{k[2], k[3]}] = "active"
    <3>1. k = <<"link", k[2], k[3]>> /\ k[2] \in Post /\ k[3] \in Post /\ k[2] # k[3]
      BY Keys
    <3>2. \A p, q \in Post : p # q =>
             (note[<<"link", p, q>>].state = "active" <=> link[{p, q}] = "active")
      BY DEF IInv, Agree
    <3>3. note[<<"link", k[2], k[3]>>].state = "active" <=> link[{k[2], k[3]}] = "active"
      BY <3>1, <3>2
    <3>. QED BY <3>1, <3>3
  <2>2. ASSUME NEW k \in CombinedNote, note[k].state = "active"
        PROVE  /\ Cardinality(note[k].sources) >= CombinedMin
               /\ \A s \in note[k].sources :
                     IF s[1] = "post" THEN link[{k[2], s[2]}] = "active" ELSE k[2] \in page[s[2]].placed
    <3>. DEFINE h == k[2]
    <3>1. k = <<"combined", h, 0>> /\ h \in Post
      BY Keys
    <3>. HIDE DEF h
    <3>2. Gathers(note, link, page, h)
      BY <3>1 DEF IInv, Agree
    <3>3. /\ Cardinality(note[k].sources) >= CombinedMin
          /\ \A s \in note[k].sources :
                \/ \E q \in Post \ {h} : s = <<"post", q>> /\ link[{h, q}] = "active"
                \/ \E r \in Page : s = <<"page", r>> /\ h \in page[r].placed
      BY <2>2, <3>1, <3>2 DEF Gathers
    <3>4. \A s \in note[k].sources :
             IF s[1] = "post" THEN link[{h, s[2]}] = "active" ELSE h \in page[s[2]].placed
      <4>. SUFFICES ASSUME NEW s \in note[k].sources
                    PROVE  IF s[1] = "post" THEN link[{h, s[2]}] = "active" ELSE h \in page[s[2]].placed
        OBVIOUS
      <4>1. ASSUME NEW q \in Post, s = <<"post", q>>, link[{h, q}] = "active"
            PROVE  s[1] = "post" /\ link[{h, s[2]}] = "active"
        BY <4>1
      <4>2. ASSUME NEW r \in Page, s = <<"page", r>>, h \in page[r].placed
            PROVE  s[1] # "post" /\ h \in page[s[2]].placed
        BY <4>2
      <4>. QED BY <3>3, <4>1, <4>2
    <3>. QED BY <3>3, <3>4 DEF h
  <2>. QED BY <2>1, <2>2 DEF LinksShow
<1>. QED BY <1>1, Invariant, PTL

(* What a moderator undid stays undone: a note that was taken down, a      *)
(* nudge that was reversed and its thread's sinking (cmd/nudges.go).       *)
THEOREM UndoneForGood == Spec => UndoneStays
<1>1. IInv /\ [Next]_vars =>
        [/\ \A k \in CombinedNote \cup SummaryNote : note[k].byMod => note'[k].state = "removed"
         /\ \A n \in NudgeKey : nudge[n] = "reversed" =>
               nudge'[n] = "reversed" /\ (n[1] = "feed_weight" => ~post'[n[2]].sink)]_vars
  <2>. SUFFICES ASSUME Good
                PROVE  /\ \A k \in Lasting : note[k].byMod => note'[k].state = "removed"
                       /\ \A n \in NudgeKey : nudge[n] = "reversed" =>
                             nudge'[n] = "reversed" /\ (n[1] = "feed_weight" => ~post'[n[2]].sink)
    BY NextGood DEF Lasting
  <2>1. \A k \in Lasting : note[k].byMod => note'[k].state = "removed"
    BY DEF Good, NotePart, TakenDown
  <2>2. ASSUME NEW n \in NudgeKey, nudge[n] = "reversed"
        PROVE  nudge'[n] = "reversed" /\ (n[1] = "feed_weight" => ~post'[n[2]].sink)
    <3>1. nudge'[n] = "reversed"
      BY <2>2 DEF Good, NudgePart
    <3>2. ASSUME n[1] = "feed_weight" PROVE ~post'[n[2]].sink
      <4>1. n = <<"feed_weight", n[2]>> /\ n[2] \in Post
        BY <3>2, NudgeKeys
      <4>. QED BY <3>1, <4>1 DEF Good, NudgePart, Reversed
    <3>. QED BY <3>1, <3>2
  <2>. QED BY <2>1, <2>2
<1>. QED BY <1>1, Invariant, PTL DEF Spec, UndoneStays

(***************************************************************************)
(* Pages                                                                   *)
(*                                                                         *)
(* PagesVetted needs to know why a page that waits for a summary will get  *)
(* one: its job is open, or a worker that has claimed it will write one,   *)
(* or report a problem.  An answer may say that the page is the same as    *)
(* before, and leave the row as it was, so what the worker remembers of    *)
(* the row must still be so (ReadSafe).  Only a removal changes the row    *)
(* under it, and what is restored has another version.                     *)
(***************************************************************************)
SourceKey(s) == <<"source", s, 0>>
SeedKey(s) == <<"seed", s, 0>>

JobOK(jobs) == DOMAIN jobs = JobKey /\ \A k \in JobKey : DOMAIN jobs[k] = {"open", "claimed"}

RowSafe(row) ==
    /\ row.status \in {"none", "pending", "active", "gone", "removed"} /\ row.version \in Nat
    /\ row.status \in {"none", "removed"} => row.summary = 0 /\ row.hash = 0
    /\ row.status \in {"active", "gone"} => row.cleared
    /\ row.index = (row.status = "active" /\ row.summary # 0 /\ ~row.list)
    /\ row.hash # 0 => row.summary # 0
    /\ row.via = "described" /\ row.status # "removed" => row.summary # 0

(* reads and lists are its two jobs.                                       *)
JobSafe(row, reads, lists) ==
    /\ reads.open \/ reads.claimed => row.status # "none"
    /\ lists.open \/ lists.claimed => row.status # "none" /\ row.list
    /\ row.status = "active" /\ ~row.list /\ ~row.problem /\ ~reads.open => row.summary # 0

ReadSafe(row, reads, d) ==
    reads.claimed =>
        /\ d.version \in Nat /\ d.version <= row.version
        /\ d.version = row.version /\ row.status # "removed" /\ row.via # "described" =>
              /\ ~d.skip
              /\ d.out \in {"known", "same"} => row.summary # 0 /\ d.seen = {row.hash}
              /\ d.out = "read" => \E c : c # 0 /\ d.seen = {c}

Safe(row, reads, lists, d) == RowSafe(row) /\ JobSafe(row, reads, lists) /\ ReadSafe(row, reads, d)

PagesInv ==
    /\ JobOK(job)
    /\ \A s \in Page : Safe(page[s], job[SourceKey(s)], job[SeedKey(s)], draft[SourceKey(s)])

LEMMA PageKeys ==
  /\ \A s \in Page : /\ SourceKey(s) \in JobKey \ NoteKey /\ SeedKey(s) \in JobKey \ NoteKey
                     /\ SourceKey(s)[1] = "source" /\ SeedKey(s)[1] = "seed"
                     /\ SourceKey(s)[2] = s /\ SeedKey(s)[2] = s
  /\ \A k \in JobKey : k \in NoteKey \/ \E s \in Page : k = SourceKey(s) \/ k = SeedKey(s)
<1>1. \A s \in Page : SourceKey(s) \in JobKey /\ SeedKey(s) \in JobKey
  BY DEF JobKey, SourceKey, SeedKey
<1>2. \A s \in Page : /\ SourceKey(s)[1] = "source" /\ SeedKey(s)[1] = "seed"
                      /\ SourceKey(s)[2] = s /\ SeedKey(s)[2] = s
  BY DEF SourceKey, SeedKey
<1>3. \A s \in Page : SourceKey(s) \notin NoteKey /\ SeedKey(s) \notin NoteKey
  BY <1>2, Keys
<1>4. \A k \in JobKey : k \in NoteKey \/ \E s \in Page : k = SourceKey(s) \/ k = SeedKey(s)
  BY DEF JobKey, SourceKey, SeedKey
<1>. QED BY <1>1, <1>2, <1>3, <1>4

(* The row is as before, on whatever threads.                              *)
SameRow(row, row2) ==
    /\ row2.status = row.status /\ row2.via = row.via /\ row2.list = row.list
    /\ row2.summary = row.summary /\ row2.hash = row.hash /\ row2.version = row.version
    /\ row2.index = row.index /\ row2.problem = row.problem /\ row2.cleared = row.cleared
SameDraft(d, d2) == d2.version = d.version /\ d2.skip = d.skip /\ d2.seen = d.seen /\ d2.out = d.out

(* A page stays safe while its jobs are at most opened, and what was read  *)
(* of it is as it was.                                                     *)
LEMMA SafeStill ==
  ASSUME NEW row, NEW row2, NEW reads, NEW reads2, NEW lists, NEW lists2, NEW d, NEW d2,
         Safe(row, reads, lists, d), SameRow(row, row2), SameDraft(d, d2),
         reads.open => reads2.open, reads2.open => reads.open \/ row.status # "none",
         reads2.claimed => reads.claimed,
         lists2.open => lists.open, lists2.claimed => lists.claimed
  PROVE  Safe(row2, reads2, lists2, d2)
<1>1. RowSafe(row2)
  BY DEF Safe, RowSafe, SameRow
<1>2. JobSafe(row2, reads2, lists2)
  BY DEF Safe, JobSafe, SameRow
<1>3. ReadSafe(row2, reads2, d2)
  BY DEF Safe, ReadSafe, SameRow, SameDraft
<1>. QED BY <1>1, <1>2, <1>3 DEF Safe

(* Steps that leave pages and their jobs alone.                            *)
LEMMA PagesStill ==
  ASSUME PagesInv, JobOK(job'), \A s \in Page : SameRow(page[s], page'[s]),
         \A k \in JobKey \ NoteKey : job'[k] = job[k] /\ SameDraft(draft[k], draft'[k])
  PROVE  PagesInv'
<1>1. ASSUME NEW s \in Page
      PROVE  Safe(page'[s], job'[SourceKey(s)], job'[SeedKey(s)], draft'[SourceKey(s)])
  <2>1. Safe(page[s], job[SourceKey(s)], job[SeedKey(s)], draft[SourceKey(s)])
    BY DEF PagesInv
  <2>2. /\ job'[SourceKey(s)] = job[SourceKey(s)] /\ job'[SeedKey(s)] = job[SeedKey(s)]
        /\ SameDraft(draft[SourceKey(s)], draft'[SourceKey(s)])
    BY PageKeys
  <2>. QED BY <2>1, <2>2, SafeStill
<1>. QED BY <1>1 DEF PagesInv, JobOK, Safe, RowSafe, JobSafe, ReadSafe

LEMMA Scheduled ==
  ASSUME NEW jobs, JobOK(jobs), NEW ks
  PROVE  /\ JobOK(schedule(jobs, ks))
         /\ \A k \in JobKey : /\ k \notin ks => schedule(jobs, ks)[k] = jobs[k]
                              /\ schedule(jobs, ks)[k].claimed = jobs[k].claimed
                              /\ k \in ks => schedule(jobs, ks)[k].open
                              /\ jobs[k].open => schedule(jobs, ks)[k].open
BY DEF JobOK, schedule

LEMMA CrossedSame ==
  ASSUME DraftOK(draft), NEW ks
  PROVE  \A k \in JobKey : SameDraft(draft[k], Crossed(ks)[k])
BY DEF DraftOK, DraftField, Crossed, SameDraft

LEMMA RowsSame ==
  ASSUME page' = page
  PROVE  \A s \in Page : SameRow(page[s], page'[s])
BY DEF SameRow

LEMMA SameDrafts ==
  ASSUME draft' = draft
  PROVE  \A k \in JobKey : SameDraft(draft[k], draft'[k])
BY DEF SameDraft

(* What people do to threads, links and notes: notes' jobs are opened.     *)
LEMMA ThreadsSafe ==
  ASSUME IInv, PagesInv, NEW ks, ks \subseteq NoteKey, job' = schedule(job, ks) \/ job' = job,
         \A s \in Page : SameRow(page[s], page'[s]),
         draft' = draft \/ \E xs : draft' = Crossed(xs)
  PROVE  PagesInv'
<1>1. JobOK(job') /\ \A k \in JobKey \ NoteKey : job'[k] = job[k]
  BY Scheduled DEF PagesInv
<1>2. \A k \in JobKey : SameDraft(draft[k], draft'[k])
  BY CrossedSame, SameDrafts DEF IInv
<1>. QED BY <1>1, <1>2, PagesStill

LEMMA ThreadChangedSafe ==
  ASSUME IInv, PagesInv, NEW ps, NEW cs, NEW ids, threadChanged(ps, cs, ids)
  PROVE  PagesInv'
<1>1. PICK ks : job' = schedule(job, ks) /\ ks \subseteq NoteKey
  <2>. DEFINE long == Long \in ids /\ Cardinality({c \in Comment : cs[c] = "shown"}) >= SummaryMin
              ks == WrittenFrom(ids) \cup (IF long THEN SummaryNote ELSE {})
  <2>1. job' = schedule(job, ks)
    BY DEF threadChanged
  <2>2. ks \subseteq NoteKey
    BY DEF WrittenFrom, NoteKey
  <2>. QED BY <2>1, <2>2
<1>2. page' = page /\ draft' = draft
  BY DEF threadChanged, pageVars
<1>. QED BY <1>1, <1>2, ThreadsSafe, RowsSame

LEMMA NotesBecomeSafe ==
  ASSUME IInv, PagesInv, NEW notes, NotesBecome(notes), page' = page
  PROVE  PagesInv'
<1>1. job' = schedule(job, Requeued(notes)) /\ draft' = Crossed(Requeued(notes))
  BY DEF NotesBecome
<1>2. Requeued(notes) \subseteq NoteKey
  BY DEF Requeued
<1>. QED BY <1>1, <1>2, ThreadsSafe, RowsSame

LEMMA PeopleSafe ==
  ASSUME IInv, PagesInv,
         \/ linkPost \/ unlinkPost \/ movePost \/ moveOutPost \/ reverseNudge \/ removeNote
         \/ \E p \in Post : ChangeThread(p) \/ ChangeStatus(p)
         \/ \E c \in Comment, to \in {"shown", "hidden"} : ChangeComment(c, to)
         \/ \E p, q \in Post : SetCheck(p, q)
  PROVE  PagesInv'
<1>1. ASSUME NEW p, NEW q, NEW byPerson, addLink(p, q, byPerson) PROVE PagesInv'
  BY <1>1, NotesBecomeSafe DEF addLink, pageVars
<1>2. ASSUME NEW p, NEW q, RemoveLink(p, q) PROVE PagesInv'
  BY <1>2, NotesBecomeSafe DEF RemoveLink, pageVars
<1>3. ASSUME NEW ps, NEW cs, NEW ids, threadChanged(ps, cs, ids) PROVE PagesInv'
  BY <1>3, ThreadChangedSafe
<1>4. ASSUME UNCHANGED <<page, job, draft>> PROVE PagesInv'
  BY <1>4, RowsSame, ThreadsSafe
<1>5. CASE reverseNudge \/ removeNote
  BY <1>4, <1>5 DEF reverseNudge, removeNote, ReverseNudge, RemoveNote, pageVars, jobVars
<1>6. CASE linkPost \/ unlinkPost \/ \E p, q \in Post : SetCheck(p, q)
  BY <1>1, <1>2, <1>6 DEF linkPost, unlinkPost, AddLink, SetCheck
<1>7. CASE \/ movePost \/ moveOutPost
           \/ \E p \in Post : ChangeThread(p) \/ ChangeStatus(p)
           \/ \E c \in Comment, to \in {"shown", "hidden"} : ChangeComment(c, to)
  <2>1. \E ps, cs, ids : threadChanged(ps, cs, ids)
    BY <1>7, Zenon DEF movePost, moveOutPost, ChangeThread, ChangeStatus, ChangeComment, MoveUnder, MoveOut
  <2>. QED BY <1>3, <2>1
<1>. QED BY <1>5, <1>6, <1>7

(***************************************************************************)
(* What people do to pages                                                 *)
(***************************************************************************)

(* A page's row and its reading job change, and nothing of other pages.    *)
LEMMA OnePage ==
  ASSUME PagesInv, JobOK(job'), NEW s \in Page,
         \A r \in Page \ {s} : SameRow(page[r], page'[r]),
         \A k \in JobKey \ NoteKey : k # SourceKey(s) /\ k # SeedKey(s) =>
             job'[k] = job[k] /\ SameDraft(draft[k], draft'[k]),
         Safe(page'[s], job'[SourceKey(s)], job'[SeedKey(s)], draft'[SourceKey(s)])
  PROVE  PagesInv'
<1>1. ASSUME NEW r \in Page \ {s}
      PROVE  Safe(page'[r], job'[SourceKey(r)], job'[SeedKey(r)], draft'[SourceKey(r)])
  <2>1. Safe(page[r], job[SourceKey(r)], job[SeedKey(r)], draft[SourceKey(r)])
    BY DEF PagesInv
  <2>2. SourceKey(r) \notin {SourceKey(s), SeedKey(s)} /\ SeedKey(r) \notin {SourceKey(s), SeedKey(s)}
    BY PageKeys
  <2>3. /\ job'[SourceKey(r)] = job[SourceKey(r)] /\ job'[SeedKey(r)] = job[SeedKey(r)]
        /\ SameDraft(draft[SourceKey(r)], draft'[SourceKey(r)])
    BY <2>2, PageKeys
  <2>. QED BY <2>1, <2>3, SafeStill
<1>2. \A r \in Page : Safe(page'[r], job'[SourceKey(r)], job'[SeedKey(r)], draft'[SourceKey(r)])
  BY <1>1
<1>. QED BY <1>2 DEF PagesInv, JobOK, Safe, RowSafe, JobSafe, ReadSafe

(* A page that somebody adds is not known yet, or stays as it is.          *)
LEMMA AddSourceSafe ==
  ASSUME IInv, PagesInv, NEW s \in Page, NEW list \in BOOLEAN, NEW h \in Post \cup {0},
         NEW via \in {"described", "member", "mod", "seed"}, AddSource(s, via, list, h)
  PROVE  PagesInv'
<1>. DEFINE on == s \in allowed
            new == NewRow(via, list, on)
            row == IF page[s].status # "none" THEN page[s] ELSE new
            row2 == [row EXCEPT !.placed = row.placed \cup ({h} \ {0})]
            read == page[s].status = "none" /\ IsRead(via, on)
            ks == Requeued(note') \cup (IF read THEN {IF list THEN SeedKey(s) ELSE SourceKey(s)} ELSE {})
<1>0. DOMAIN page = Page /\ DOMAIN page[s] = PageField
  BY DEF IInv, PageOK
<1>1. /\ page' = [page EXCEPT ![s] = row2] /\ job' = schedule(job, ks)
      /\ draft' = draft \/ \E xs : draft' = Crossed(xs)
      /\ list => via = "seed"
  BY DEF AddSource, PagesBecome, SourceKey, SeedKey
<1>2. Requeued(note') \subseteq NoteKey
  BY DEF Requeued
<1>3. DOMAIN new = PageField /\ new.placed = {}
  BY DEF NewRow, sourceIndex, NoPage, PageField
<1>4. SameRow(row, row2)
  BY <1>0, <1>3 DEF SameRow, PageField
<1>5. CASE page[s].status # "none"
  <2>1. \A r \in Page : SameRow(page[r], page'[r])
    BY <1>0, <1>1, <1>4, <1>5 DEF SameRow
  <2>2. ks = Requeued(note')
    BY <1>5
  <2>. QED BY <1>1, <1>2, <2>1, <2>2, ThreadsSafe
<1>6. CASE page[s].status = "none"
  <2>. DEFINE reads == job'[SourceKey(s)]
              lists == job'[SeedKey(s)]
  <2>1. /\ \A r \in Page \ {s} : SameRow(page[r], page'[r])
        /\ page'[s] = row2 /\ row = new
    BY <1>0, <1>1, <1>6 DEF SameRow
  <2>2. ~job[SourceKey(s)].claimed /\ ~job[SeedKey(s)].claimed /\ ~job[SeedKey(s)].open
    BY <1>6 DEF PagesInv, Safe, JobSafe
  <2>3. /\ JobOK(job') /\ \A k \in JobKey \ NoteKey : k \notin {SourceKey(s), SeedKey(s)} => job'[k] = job[k]
        /\ ~reads.claimed /\ ~lists.claimed
        /\ read /\ ~list => reads.open
        /\ lists.open => list
    BY <1>1, <1>2, <2>2, Scheduled, PageKeys DEF PagesInv
  <2>4. \A k \in JobKey : SameDraft(draft[k], draft'[k])
    BY <1>1, CrossedSame, SameDrafts DEF IInv
  <2>5. RowSafe(new) /\ new.status # "none" /\ new.list = list
        /\ (new.status = "active" /\ ~list => read \/ new.summary # 0)
    <3>1. /\ new.status = IF via = "seed" \/ (via = "member" /\ ~on) THEN "pending" ELSE "active"
          /\ new.summary = (IF via = "described" THEN Written ELSE 0) /\ new.hash = 0
          /\ via \in {"described", "mod"} \/ on => new.cleared
          /\ new.version = 1
          /\ new.via = via /\ new.list = list
          /\ new.index = (new.status = "active" /\ new.summary # 0 /\ ~new.list)
      BY DEF NewRow, sourceIndex, NoPage
    <3>. HIDE DEF new, on
    <3>2. read <=> IsRead(via, on)
      BY <1>6
    <3>. HIDE DEF read
    <3>3. RowSafe(new)
      BY <3>1 DEF RowSafe, Written
    <3>. QED BY <1>1, <3>1, <3>2, <3>3 DEF IsRead, Written
  <2>. HIDE DEF new, reads, lists, read
  <2>6. Safe(row2, reads, lists, draft'[SourceKey(s)])
    <3>1. RowSafe(row2) /\ row2.status = new.status /\ row2.list = list /\ row2.summary = new.summary
      BY <1>4, <2>1, <2>5 DEF RowSafe, SameRow
    <3>2. JobSafe(row2, reads, lists)
      BY <2>3, <2>5, <3>1 DEF JobSafe
    <3>. QED BY <2>3, <3>1, <3>2 DEF Safe, ReadSafe
  <2>7. Safe(page'[s], job'[SourceKey(s)], job'[SeedKey(s)], draft'[SourceKey(s)])
    BY <2>1, <2>6 DEF reads, lists
  <2>8. \A k \in JobKey \ NoteKey : k # SourceKey(s) /\ k # SeedKey(s) =>
             job'[k] = job[k] /\ SameDraft(draft[k], draft'[k])
    BY <2>3, <2>4
  <2>9. JobOK(job') /\ \A r \in Page \ {s} : SameRow(page[r], page'[r])
    BY <2>1, <2>3
  <2>. QED BY <2>7, <2>8, <2>9, OnePage
<1>. QED BY <1>5, <1>6

LEMMA DetachSourceSafe ==
  ASSUME IInv, PagesInv, NEW s \in Page, NEW h \in Post, DetachSource(s, h)
  PROVE  PagesInv'
<1>1. /\ page' = [page EXCEPT ![s].placed = @ \ {h}] /\ job' = schedule(job, Requeued(note'))
      /\ draft' = draft \/ \E xs : draft' = Crossed(xs)
  BY DEF DetachSource, PagesBecome
<1>2. \A r \in Page : SameRow(page[r], page'[r])
  BY <1>1 DEF IInv, PageOK, PageField, SameRow
<1>3. Requeued(note') \subseteq NoteKey
  BY DEF Requeued
<1>. QED BY <1>1, <1>2, <1>3, ThreadsSafe

(* A new row for s, and perhaps its reading job opened.                    *)
LEMMA RowSet ==
  ASSUME IInv, PagesInv, NEW s \in Page, NEW row, page' = [page EXCEPT ![s] = row],
         NEW ks, ks \subseteq NoteKey \cup {SourceKey(s)}, job' = schedule(job, ks),
         draft' = draft \/ \E xs : draft' = Crossed(xs),
         RowSafe(row), row.status # "none", row.list = page[s].list,
         row.status = "active" /\ ~row.list /\ ~row.problem /\ ~job[SourceKey(s)].open
             => row.summary # 0 \/ SourceKey(s) \in ks,
         ReadSafe(page[s], job[SourceKey(s)], draft[SourceKey(s)])
             => ReadSafe(row, job[SourceKey(s)], draft[SourceKey(s)])
  PROVE  PagesInv'
<1>1. page'[s] = row /\ \A r \in Page \ {s} : SameRow(page[r], page'[r])
  BY DEF IInv, PageOK, SameRow
<1>2. /\ JobOK(job') /\ \A k \in JobKey \ NoteKey : k # SourceKey(s) => job'[k] = job[k]
      /\ job'[SourceKey(s)].claimed = job[SourceKey(s)].claimed
      /\ job[SourceKey(s)].open => job'[SourceKey(s)].open
      /\ SourceKey(s) \in ks => job'[SourceKey(s)].open
  BY Scheduled, PageKeys DEF PagesInv
<1>3. \A k \in JobKey : SameDraft(draft[k], draft'[k])
  BY CrossedSame, SameDrafts DEF IInv
<1>4. Safe(page[s], job[SourceKey(s)], job[SeedKey(s)], draft[SourceKey(s)])
  BY DEF PagesInv
<1>5. JobSafe(row, job'[SourceKey(s)], job'[SeedKey(s)])
  BY <1>2, <1>4, PageKeys DEF Safe, JobSafe
<1>6. ReadSafe(row, job'[SourceKey(s)], draft'[SourceKey(s)])
  <2>1. ReadSafe(row, job[SourceKey(s)], draft[SourceKey(s)])
    BY <1>4 DEF Safe
  <2>2. SameDraft(draft[SourceKey(s)], draft'[SourceKey(s)])
    BY <1>3, PageKeys
  <2>. QED BY <1>2, <2>1, <2>2 DEF ReadSafe, SameDraft
<1>. QED BY <1>1, <1>2, <1>3, <1>5, <1>6, OnePage DEF Safe

LEMMA ModeratorsSafe ==
  ASSUME IInv, PagesInv, NEW s \in Page,
         ApproveSources(s) \/ RemoveSource(s) \/ RestoreSource(s) \/ Recheck(s)
  PROVE  PagesInv'
<1>0. /\ DOMAIN page[s] = PageField /\ RowSafe(page[s])
      /\ JobSafe(page[s], job[SourceKey(s)], job[SeedKey(s)])
  BY DEF IInv, PageOK, PagesInv, Safe
<1>1. CASE ApproveSources(s)
  <2>. DEFINE up == [page[s] EXCEPT !.status = "active", !.cleared = TRUE]
              row == sourceIndex(up)
              ks == IF page[s].summary = 0 THEN {SourceKey(s)} ELSE {}
  <2>1. /\ page' = [page EXCEPT ![s] = row] /\ job' = schedule(job, ks) /\ draft' = draft
        /\ page[s].status = "pending" /\ ~page[s].list
    BY <1>1 DEF ApproveSources, PageStays, SourceJob, SourceKey
  <2>2. /\ row.status = "active" /\ row.cleared /\ row.summary = page[s].summary /\ row.list = page[s].list
        /\ row.hash = page[s].hash /\ row.version = page[s].version /\ row.via = page[s].via
        /\ row.index = (row.status = "active" /\ row.summary # 0 /\ ~row.list)
    BY <1>0 DEF sourceIndex, PageField
  <2>. HIDE DEF row
  <2>3. RowSafe(row)
    BY <1>0, <2>1, <2>2 DEF RowSafe
  <2>4. ReadSafe(page[s], job[SourceKey(s)], draft[SourceKey(s)])
             => ReadSafe(row, job[SourceKey(s)], draft[SourceKey(s)])
    BY <2>1, <2>2 DEF ReadSafe
  <2>. QED BY <2>1, <2>2, <2>3, <2>4, RowSet
<1>2. CASE RemoveSource(s)
  <2>. DEFINE row == [page[s] EXCEPT !.status = "removed", !.summary = 0, !.hash = 0, !.index = FALSE]
  <2>1. /\ page' = [page EXCEPT ![s] = row] /\ job' = schedule(job, FromPage(s))
        /\ draft' = Crossed(FromPage(s))
    BY <1>2 DEF RemoveSource, sourceChanged
  <2>2. /\ row.status = "removed" /\ row.summary = 0 /\ row.hash = 0 /\ row.index = FALSE
        /\ row.list = page[s].list /\ row.version = page[s].version
    BY <1>0 DEF PageField
  <2>. HIDE DEF row
  <2>3. RowSafe(row)
    BY <1>0, <2>2 DEF RowSafe
  <2>4. ReadSafe(page[s], job[SourceKey(s)], draft[SourceKey(s)])
             => ReadSafe(row, job[SourceKey(s)], draft[SourceKey(s)])
    BY <2>2 DEF ReadSafe
  <2>5. FromPage(s) \subseteq NoteKey
    BY DEF FromPage, NoteKey
  <2>. QED BY <2>1, <2>2, <2>3, <2>4, <2>5, RowSet
<1>3. CASE RestoreSource(s)
  <2>. DEFINE row == [page[s] EXCEPT !.status = "active", !.version = @ + 1, !.cleared = TRUE]
              ks == {SourceKey(s)}
  <2>1. /\ page' = [page EXCEPT ![s] = row] /\ job' = schedule(job, ks) /\ draft' = draft
        /\ page[s].status = "removed" /\ page[s].via # "described"
    BY <1>3 DEF RestoreSource, PageStays, SourceKey
  <2>2. /\ row.status = "active" /\ row.cleared /\ row.version = page[s].version + 1
        /\ row.summary = page[s].summary /\ row.hash = page[s].hash /\ row.index = page[s].index
        /\ row.list = page[s].list /\ row.via = page[s].via
    BY <1>0 DEF PageField
  <2>. HIDE DEF row
  <2>3. RowSafe(row)
    BY <1>0, <2>1, <2>2 DEF RowSafe
  <2>4. ReadSafe(page[s], job[SourceKey(s)], draft[SourceKey(s)])
             => ReadSafe(row, job[SourceKey(s)], draft[SourceKey(s)])
    BY <1>0, <2>2 DEF ReadSafe, RowSafe
  <2>. QED BY <2>1, <2>2, <2>3, <2>4, RowSet
<1>4. CASE Recheck(s)
  <2>. DEFINE ks == {SourceKey(s)}
  <2>1. /\ page' = [page EXCEPT ![s] = page[s]] /\ job' = schedule(job, ks) /\ draft' = draft
        /\ page[s].status # "none"
    BY <1>4 DEF Recheck, PageStays, SourceKey
  <2>. QED BY <1>0, <2>1, RowSet DEF JobSafe
<1>. QED BY <1>1, <1>2, <1>3, <1>4

(***************************************************************************)
(* What workers do                                                         *)
(***************************************************************************)

(* One key's job and draft are set; if it is a note's, that is all.        *)
LEMMA KeySet ==
  ASSUME IInv, PagesInv, NEW k \in JobKey, NEW j, NEW d, DOMAIN j = {"open", "claimed"},
         job' = [job EXCEPT ![k] = j], draft' = [draft EXCEPT ![k] = d], page' = page,
         \A s \in Page : k = SourceKey(s) => Safe(page[s], j, job[SeedKey(s)], d),
         \A s \in Page : k = SeedKey(s) /\ (j.open \/ j.claimed) => page[s].status # "none" /\ page[s].list
  PROVE  PagesInv'
<1>1. /\ JobOK(job') /\ job'[k] = j /\ draft'[k] = d
      /\ \A x \in JobKey \ {k} : job'[x] = job[x] /\ draft'[x] = draft[x]
  BY DEF PagesInv, JobOK, IInv, DraftOK
<1>2. \A s \in Page : SameRow(page[s], page'[s])
  BY RowsSame
<1>3. \A x \in JobKey \ {k} : SameDraft(draft[x], draft'[x])
  BY <1>1 DEF SameDraft
<1>4. CASE k \in NoteKey
  BY <1>1, <1>2, <1>3, <1>4, PagesStill
<1>5. ASSUME NEW s \in Page, k = SourceKey(s) PROVE PagesInv'
  <2>1. job'[SeedKey(s)] = job[SeedKey(s)]
    BY <1>1, <1>5, PageKeys
  <2>2. Safe(page'[s], job'[SourceKey(s)], job'[SeedKey(s)], draft'[SourceKey(s)])
    BY <1>1, <1>5, <2>1
  <2>. QED BY <1>1, <1>2, <1>3, <1>5, <2>2, OnePage
<1>6. ASSUME NEW s \in Page, k = SeedKey(s) PROVE PagesInv'
  <2>1. SourceKey(s) \in JobKey /\ SourceKey(s) # k
    BY <1>6, PageKeys
  <2>2. Safe(page[s], job[SourceKey(s)], job[SeedKey(s)], draft[SourceKey(s)])
    BY DEF PagesInv
  <2>3. Safe(page'[s], job'[SourceKey(s)], job'[SeedKey(s)], draft'[SourceKey(s)])
    BY <1>1, <1>6, <2>1, <2>2 DEF Safe, JobSafe
  <2>. QED BY <1>1, <1>2, <1>3, <1>6, <2>3, OnePage
<1>. QED BY <1>4, <1>5, <1>6, PageKeys

LEMMA ClaimSafe ==
  ASSUME IInv, PagesInv, NEW k \in JobKey, ClaimNote(k) \/ ClaimSummary(k) \/ ClaimSource(k)
  PROVE  PagesInv'
<1>. DEFINE j == [job[k] EXCEPT !.claimed = TRUE]
<1>1. /\ job' = [job EXCEPT ![k] = j] /\ page' = page /\ job[k].open
      /\ DOMAIN j = {"open", "claimed"} /\ j.open /\ j.claimed
  BY DEF ClaimNote, ClaimSummary, ClaimSource, Claim, pageVars, PagesInv, JobOK
<1>. HIDE DEF j
<1>2. CASE k \in NoteKey
  <2>1. PICK d : draft' = [draft EXCEPT ![k] = d]
    BY DEF ClaimNote, ClaimSummary, ClaimSource, Claim
  <2>2. \A s \in Page : k # SourceKey(s) /\ k # SeedKey(s)
    BY <1>2, PageKeys
  <2>. QED BY <1>1, <2>1, <2>2, KeySet
<1>3. ASSUME NEW s \in Page, k \in {SourceKey(s), SeedKey(s)} PROVE PagesInv'
  <2>. DEFINE skip == k[1] = "source" /\ (page[s].via = "described" \/ page[s].status = "removed")
              out == IF k[1] = "seed" \/ page[s].summary = 0 THEN "blank" ELSE "known"
              d == [NoDraft EXCEPT !.version = page[s].version, !.seen = {page[s].hash},
                                   !.skip = skip, !.out = out]
  <2>1. draft' = [draft EXCEPT ![k] = d]
    <3>1. ClaimSource(k) /\ k[2] = s
      BY <1>3, PageKeys, Keys DEF ClaimNote, ClaimSummary
    <3>. QED BY <3>1 DEF ClaimSource, Claim
  <2>2. d.version = page[s].version /\ d.seen = {page[s].hash} /\ d.skip = skip /\ d.out = out
    BY DEF NoDraft
  <2>3. Safe(page[s], job[SourceKey(s)], job[SeedKey(s)], draft[SourceKey(s)])
    BY DEF PagesInv
  <2>. HIDE DEF d
  <2>4. ASSUME k = SourceKey(s) PROVE Safe(page[s], j, job[SeedKey(s)], d)
    <3>1. JobSafe(page[s], j, job[SeedKey(s)])
      BY <1>1, <2>3, <2>4 DEF Safe, JobSafe
    <3>2. k[1] = "source" /\ page[s].version \in Nat
      BY <2>3, <2>4, PageKeys DEF Safe, RowSafe
    <3>3. d.out = IF page[s].summary = 0 THEN "blank" ELSE "known"
      BY <2>2, <3>2
    <3>4. d.skip => page[s].via = "described" \/ page[s].status = "removed"
      BY <2>2
    <3>5. ReadSafe(page[s], j, d)
      BY <2>2, <3>2, <3>3, <3>4 DEF ReadSafe
    <3>. QED BY <2>3, <3>1, <3>5 DEF Safe
  <2>5. ASSUME k = SeedKey(s) PROVE page[s].status # "none" /\ page[s].list
    BY <1>1, <2>3, <2>5 DEF Safe, JobSafe
  <2>6. \A r \in Page : k = SourceKey(r) \/ k = SeedKey(r) => r = s
    BY <1>3, PageKeys
  <2>7. \A r \in Page : k = SourceKey(r) => Safe(page[r], j, job[SeedKey(r)], d)
    BY <2>4, <2>6
  <2>8. \A r \in Page : k = SeedKey(r) /\ (j.open \/ j.claimed) => page[r].status # "none" /\ page[r].list
    BY <2>5, <2>6
  <2>. QED BY <1>1, <2>1, <2>7, <2>8, KeySet
<1>. QED BY <1>2, <1>3, PageKeys

LEMMA ReadSafely ==
  ASSUME IInv, PagesInv, NEW k \in JobKey,
         ReadNote(k) \/ ReadComments(k) \/ (\E blocked \in BOOLEAN : FetchPage(k, blocked))
  PROVE  PagesInv'
<1>1. job' = job /\ page' = page /\ JobOK(job')
  BY DEF ReadNote, ReadComments, FetchPage, pageVars, PagesInv
<1>2. CASE ReadNote(k) \/ ReadComments(k)
  <2>1. k \in NoteKey /\ \A x \in JobKey \ {k} : draft'[x] = draft[x]
    BY <1>2, Keys DEF ReadNote, ReadComments, IInv, DraftOK
  <2>2. \A x \in JobKey \ NoteKey : job'[x] = job[x] /\ SameDraft(draft[x], draft'[x])
    BY <1>1, <2>1 DEF SameDraft
  <2>. QED BY <1>1, <2>2, PagesStill, RowsSame
<1>3. ASSUME NEW blocked \in BOOLEAN, FetchPage(k, blocked), NEW s \in Page, k = SourceKey(s) PROVE PagesInv'
  <2>. DEFINE d == Fetched(k, blocked)
  <2>1. draft' = [draft EXCEPT ![k] = d] /\ k[1] = "source" /\ k[2] = s
    BY <1>3, PageKeys DEF FetchPage
  <2>2. Safe(page[s], job[k], job[SeedKey(s)], draft[k])
    BY <1>3 DEF PagesInv
  <2>3. /\ d.version = draft[k].version /\ d.skip = draft[k].skip
        /\ ~d.skip => \/ d.out = "problem" \/ d.out = "gone"
                      \/ d.out = "same" /\ draft[k].out = "known"
                         /\ web[s] \in draft[k].seen /\ d.seen = {web[s]}
                      \/ d.out = "read" /\ web[s] # 0 /\ d.seen = {web[s]}
    BY <2>1 DEF Fetched, IInv, DraftOK, DraftField
  <2>. HIDE DEF d
  <2>4. ReadSafe(page[s], job[k], d)
    BY <2>2, <2>3 DEF Safe, ReadSafe
  <2>5. Safe(page[s], job[k], job[SeedKey(s)], d)
    BY <2>2, <2>4 DEF Safe
  <2>6. Safe(page'[s], job'[SourceKey(s)], job'[SeedKey(s)], draft'[SourceKey(s)])
    BY <1>1, <1>3, <2>1, <2>5 DEF IInv, DraftOK
  <2>7. \A x \in JobKey : x # SourceKey(s) => job'[x] = job[x] /\ SameDraft(draft[x], draft'[x])
    BY <1>1, <1>3, <2>1 DEF IInv, DraftOK, SameDraft
  <2>. QED BY <1>1, <2>6, <2>7, OnePage, RowsSame
<1>4. ASSUME NEW blocked \in BOOLEAN, FetchPage(k, blocked), NEW s \in Page, k = SeedKey(s) PROVE PagesInv'
  <2>1. draft' = [draft EXCEPT ![k] = Fetched(k, blocked)] /\ SourceKey(s) # k /\ SourceKey(s) \in JobKey
    BY <1>4, PageKeys DEF FetchPage
  <2>2. \A x \in JobKey : x # SeedKey(s) => job'[x] = job[x] /\ SameDraft(draft[x], draft'[x])
    BY <1>1, <1>4, <2>1 DEF IInv, DraftOK, SameDraft
  <2>3. draft'[SourceKey(s)] = draft[SourceKey(s)]
    BY <2>1 DEF IInv, DraftOK
  <2>4. Safe(page'[s], job'[SourceKey(s)], job'[SeedKey(s)], draft'[SourceKey(s)])
    BY <1>1, <2>3 DEF PagesInv
  <2>. QED BY <1>1, <2>2, <2>4, OnePage, RowsSame
<1>5. ASSUME NEW blocked \in BOOLEAN, FetchPage(k, blocked) PROVE k \notin NoteKey
  BY <1>5, Keys DEF FetchPage
<1>. QED BY <1>2, <1>3, <1>4, <1>5, PageKeys

(* An answer that is refused, or is a note's.                              *)
LEMMA WriteSafe ==
  ASSUME IInv, PagesInv, NEW k \in JobKey,
         \/ Refuse(k) \/ SetNote(k)
         \/ \E covers, useful \in SUBSET Comment : SetSummary(k, covers, useful)
  PROVE  PagesInv'
<1>. DEFINE j == [open |-> ~Fits(k), claimed |-> FALSE]
<1>1. /\ job' = [job EXCEPT ![k] = j] /\ draft' = [draft EXCEPT ![k] = NoDraft] /\ page' = page
      /\ job[k].claimed
  BY DEF Refuse, SetNote, SetSummary, finishJob, pageVars
<1>2. k \notin NoteKey => j.open
  BY Keys DEF Refuse, SetNote, SetSummary
<1>3. DOMAIN j = {"open", "claimed"} /\ ~j.claimed
  OBVIOUS
<1>. HIDE DEF j
<1>4. ASSUME NEW s \in Page, k = SourceKey(s) PROVE Safe(page[s], j, job[SeedKey(s)], NoDraft)
  <2>1. Safe(page[s], job[SourceKey(s)], job[SeedKey(s)], draft[SourceKey(s)])
    BY DEF PagesInv
  <2>2. JobSafe(page[s], j, job[SeedKey(s)])
    BY <1>1, <1>2, <1>3, <1>4, <2>1, PageKeys DEF Safe, JobSafe
  <2>. QED BY <1>3, <2>1, <2>2 DEF Safe, ReadSafe
<1>5. ASSUME NEW s \in Page, k = SeedKey(s) PROVE page[s].status # "none" /\ page[s].list
  BY <1>1, <1>5 DEF PagesInv, Safe, JobSafe
<1>. QED BY <1>1, <1>3, <1>4, <1>5, KeySet

(* What a reading leaves of a row it was about.                            *)
LEMMA AnsweredSafe ==
  ASSUME NEW row, DOMAIN row = PageField, RowSafe(row), row.status # "none",
         row.status # "removed", row.via # "described",
         NEW out \in {"same", "problem", "gone", "read"}, NEW c,
         out = "same" => row.summary # 0 /\ c = row.hash,
         out = "read" => c # 0
  PROVE  LET row2 == sourceIndex(Answered(row, out, c)) IN
         /\ RowSafe(row2) /\ row2.status # "none" /\ row2.list = row.list
         /\ row2.status = "active" /\ ~row2.problem => row2.summary # 0
<1>. DEFINE up == Answered(row, out, c)
            row2 == sourceIndex(up)
<1>1. /\ DOMAIN up = PageField /\ up.via = row.via /\ up.list = row.list /\ up.version = row.version
      /\ up.cleared = row.cleared
  BY DEF Answered, Revived, PageField
<1>2. up.status = row.status \/ (up.status = "gone" /\ row.status = "active")
        \/ (up.status = "active" /\ row.status = "gone")
  BY DEF Answered, Revived, PageField
<1>3. /\ out = "problem" => up.problem
      /\ out = "gone" => up.status # "active"
  BY DEF Answered, PageField
<1>4. \/ up.hash = row.hash /\ up.summary = row.summary
      \/ out = "read" /\ up.hash = c /\ up.summary = c
  BY DEF Answered, Revived, PageField
<1>5. out = "read" /\ up.hash = row.hash /\ up.summary = row.summary => up.hash = c \/ up.summary = c
  BY DEF Answered, Revived, PageField
<1>. HIDE DEF up
<1>6. /\ row2.status = up.status /\ row2.via = up.via /\ row2.list = up.list /\ row2.version = up.version
      /\ row2.summary = up.summary /\ row2.hash = up.hash /\ row2.problem = up.problem
      /\ row2.cleared = up.cleared
      /\ row2.index = (row2.status = "active" /\ row2.summary # 0 /\ ~row2.list)
  BY <1>1 DEF sourceIndex, PageField
<1>. HIDE DEF row2
<1>7. out \in {"same", "read"} => up.summary # 0
  BY <1>4, <1>5 DEF RowSafe
<1>8. up.hash # 0 => up.summary # 0
  BY <1>4 DEF RowSafe
<1>9. RowSafe(row2)
  BY <1>1, <1>2, <1>6, <1>8 DEF RowSafe
<1>10. row2.status = "active" /\ ~row2.problem => row2.summary # 0
  BY <1>3, <1>6, <1>7
<1>11. row2.status # "none" /\ row2.list = row.list
  BY <1>1, <1>2, <1>6
<1>. QED BY <1>9, <1>10, <1>11 DEF row2, up

LEMMA SetSourceSafe ==
  ASSUME IInv, PagesInv, NEW s \in Page, SetSource(s)
  PROVE  PagesInv'
<1>. DEFINE k == SourceKey(s)
            c == CHOOSE x \in draft[k].seen : TRUE
            answer == sourceIndex(Answered(page[s], draft[k].out, c))
            row == IF Ignored(s) THEN page[s] ELSE answer
            jobs == [job EXCEPT ![k] = [open |-> FALSE, claimed |-> FALSE]]
<1>1. /\ job[k].claimed /\ draft[k].ready /\ Fits(k)
      /\ page' = [page EXCEPT ![s] = row]
      /\ \/ job' = schedule(jobs, FromPage(s)) /\ draft' = [Crossed(FromPage(s)) EXCEPT ![k] = NoDraft]
         \/ job' = jobs /\ draft' = [draft EXCEPT ![k] = NoDraft]
  BY DEF SetSource, sourceChanged, PageStays, SourceKey
<1>2. /\ k \in JobKey /\ k \notin NoteKey /\ k[1] = "source" /\ k[2] = s
      /\ DOMAIN page = Page /\ DOMAIN page[s] = PageField
  BY PageKeys DEF IInv, PageOK
<1>3. Safe(page[s], job[k], job[SeedKey(s)], draft[k])
  BY DEF PagesInv
<1>4. draft[k].version = page[s].version
  <2>1. Current(k) = page[s].version
    BY <1>2, Keys DEF Current
  <2>. QED BY <1>1, <2>1 DEF Fits
<1>5. page[s].status # "none" /\ draft[k].out \in {"same", "problem", "gone", "read"}
  BY <1>1, <1>2, <1>3 DEF Safe, JobSafe, IInv, DraftOK
<1>6. /\ RowSafe(row) /\ row.status # "none" /\ row.list = page[s].list
      /\ row.status = "active" /\ ~row.problem => row.summary # 0
  <2>1. CASE Ignored(s)
    BY <1>3, <1>5, <2>1 DEF Ignored, Safe, RowSafe
  <2>2. CASE ~Ignored(s)
    <3>1. draft[k].out = "same" => page[s].summary # 0 /\ draft[k].seen = {page[s].hash}
      BY <1>1, <1>3, <1>4, <2>2 DEF Ignored, Safe, ReadSafe
    <3>2. draft[k].out = "read" => \E x : x # 0 /\ draft[k].seen = {x}
      BY <1>1, <1>3, <1>4, <2>2 DEF Ignored, Safe, ReadSafe
    <3>3. draft[k].out = "same" => c = page[s].hash
      BY <3>1
    <3>4. draft[k].out = "read" => c # 0
      BY <3>2
    <3>5. page[s].status # "removed" /\ page[s].via # "described" /\ row = answer
      BY <2>2 DEF Ignored
    <3>. HIDE DEF c
    <3>6. /\ RowSafe(answer) /\ answer.status # "none" /\ answer.list = page[s].list
          /\ answer.status = "active" /\ ~answer.problem => answer.summary # 0
      BY <1>2, <1>3, <1>5, <3>1, <3>3, <3>4, <3>5, AnsweredSafe DEF Safe
    <3>. QED BY <3>5, <3>6
  <2>. QED BY <2>1, <2>2
<1>. HIDE DEF row
<1>7. /\ JobOK(jobs) /\ ~jobs[k].open /\ ~jobs[k].claimed /\ \A x \in JobKey \ {k} : jobs[x] = job[x]
  BY <1>2 DEF PagesInv, JobOK
<1>. HIDE DEF jobs
<1>8. FromPage(s) \subseteq NoteKey
  BY DEF FromPage, NoteKey
<1>9. /\ JobOK(job') /\ ~job'[k].open /\ ~job'[k].claimed
      /\ \A x \in JobKey \ NoteKey : x # k => job'[x] = job[x]
  BY <1>1, <1>2, <1>7, <1>8, Scheduled
<1>10. \A x \in JobKey : x # k => SameDraft(draft[x], draft'[x])
  <2>1. CASE draft' = [draft EXCEPT ![k] = NoDraft]
    BY <1>2, <2>1 DEF IInv, DraftOK, SameDraft
  <2>2. CASE draft' = [Crossed(FromPage(s)) EXCEPT ![k] = NoDraft]
    <3>1. \A x \in JobKey : x # k => draft'[x] = Crossed(FromPage(s))[x]
      BY <1>2, <2>2 DEF Crossed
    <3>. QED BY <3>1, CrossedSame DEF IInv
  <2>. QED BY <1>1, <2>1, <2>2
<1>11. page'[s] = row /\ \A r \in Page \ {s} : SameRow(page[r], page'[r])
  BY <1>1, <1>2 DEF SameRow
<1>12. JobSafe(row, job'[k], job'[SeedKey(s)])
  <2>1. job'[SeedKey(s)] = job[SeedKey(s)]
    BY <1>9, PageKeys
  <2>. QED BY <1>3, <1>6, <1>9, <2>1 DEF Safe, JobSafe
<1>13. ReadSafe(row, job'[k], draft'[k])
  BY <1>9 DEF ReadSafe
<1>14. Safe(page'[s], job'[SourceKey(s)], job'[SeedKey(s)], draft'[SourceKey(s)])
  BY <1>6, <1>11, <1>12, <1>13 DEF Safe
<1>. QED BY <1>9, <1>10, <1>11, <1>14, OnePage

LEMMA AddSeedsSafe ==
  ASSUME IInv, PagesInv, NEW s \in Page, NEW found \in SUBSET Page, AddSeeds(s, found)
  PROVE  PagesInv'
<1>. DEFINE k == SeedKey(s)
            new == {f \in found \ {s} : page[f].status = "none"}
            problem == draft[k].out = "problem"
            own == [page[s] EXCEPT !.problem = problem]
            row == NewRow("seed", FALSE, FALSE)
            jobs == [job EXCEPT ![k] = [open |-> FALSE, claimed |-> FALSE]]
            ks == {"source"} \X new \X {0}
<1>1. /\ page' = [f \in Page |-> IF f \in new THEN row ELSE IF f = s THEN own ELSE page[f]]
      /\ job' = schedule(jobs, ks) /\ draft' = [draft EXCEPT ![k] = NoDraft]
      /\ job[k].claimed
  BY DEF AddSeeds, SeedKey
<1>2. k \in JobKey /\ k \notin NoteKey
  BY PageKeys
<1>3. /\ JobOK(jobs) /\ ~jobs[k].open /\ ~jobs[k].claimed /\ \A x \in JobKey \ {k} : jobs[x] = job[x]
  BY <1>2 DEF PagesInv, JobOK
<1>4. \A x \in JobKey : x # k => SameDraft(draft[x], draft'[x])
  BY <1>1, <1>2 DEF IInv, DraftOK, SameDraft
<1>5. \A r \in Page : SourceKey(r) \in ks <=> r \in new
  BY DEF SourceKey
<1>6. \A r \in Page : SeedKey(r) \notin ks
  BY DEF SeedKey
<1>7. /\ row.status = "pending" /\ row.summary = 0 /\ row.hash = 0 /\ ~row.list /\ row.version = 1
      /\ row.via = "seed" /\ row.index = (row.status = "active" /\ row.summary # 0 /\ ~row.list)
  BY DEF NewRow, sourceIndex, NoPage
<1>8. /\ own.status = page[s].status /\ own.via = page[s].via /\ own.list = page[s].list
      /\ own.summary = page[s].summary /\ own.hash = page[s].hash /\ own.version = page[s].version
      /\ own.index = page[s].index /\ own.cleared = page[s].cleared
  BY DEF IInv, PageOK, PageField
<1>9. new \subseteq Page \ {s} /\ \A f \in new : page[f].status = "none"
  OBVIOUS
<1>. HIDE DEF new, own, row, jobs, ks, k
<1>10. /\ JobOK(job')
       /\ \A x \in JobKey : /\ x \notin ks => job'[x] = jobs[x]
                            /\ job'[x].claimed = jobs[x].claimed
                            /\ x \in ks => job'[x].open
  BY <1>1, <1>3, Scheduled
<1>11. \A r \in Page : SourceKey(r) \in JobKey /\ SourceKey(r) # k /\ SeedKey(r) \in JobKey
                       /\ (SeedKey(r) = k => r = s)
  BY PageKeys DEF k
<1>12. ASSUME NEW r \in Page
       PROVE  Safe(page'[r], job'[SourceKey(r)], job'[SeedKey(r)], draft'[SourceKey(r)])
  <2>1. Safe(page[r], job[SourceKey(r)], job[SeedKey(r)], draft[SourceKey(r)])
    BY DEF PagesInv
  <2>2. SameDraft(draft[SourceKey(r)], draft'[SourceKey(r)])
    BY <1>4, <1>11
  <2>3. job'[SourceKey(r)].claimed = job[SourceKey(r)].claimed
    BY <1>3, <1>10, <1>11
  <2>4. /\ job'[SeedKey(r)].open => job[SeedKey(r)].open
        /\ job'[SeedKey(r)].claimed => job[SeedKey(r)].claimed
    BY <1>3, <1>6, <1>10, <1>11
  <2>5. CASE r \in new
    <3>1. page'[r] = row /\ page[r].status = "none" /\ job'[SourceKey(r)].open
      BY <1>1, <1>5, <1>9, <1>10, <1>11, <2>5
    <3>2. ~job'[SourceKey(r)].claimed /\ ~job'[SeedKey(r)].open /\ ~job'[SeedKey(r)].claimed
      BY <2>1, <2>3, <2>4, <3>1 DEF Safe, JobSafe
    <3>3. RowSafe(row)
      BY <1>7 DEF RowSafe
    <3>. QED BY <1>7, <3>1, <3>2, <3>3 DEF Safe, JobSafe, ReadSafe
  <2>6. CASE r \notin new
    <3>1. job'[SourceKey(r)] = job[SourceKey(r)]
      BY <1>3, <1>5, <1>10, <1>11, <2>6
    <3>2. CASE r # s
      <4>1. SameRow(page[r], page'[r])
        BY <1>1, <2>6, <3>2 DEF SameRow
      <4>. QED BY <2>1, <2>2, <2>4, <3>1, <4>1, SafeStill
    <3>3. CASE r = s
      <4>1. page'[r] = own /\ page[s].status # "none" /\ page[s].list
        BY <1>1, <2>1, <2>6, <3>3 DEF Safe, JobSafe, k
      <4>2. RowSafe(own)
        BY <1>8, <2>1, <3>3 DEF Safe, RowSafe
      <4>3. JobSafe(own, job'[SourceKey(r)], job'[SeedKey(r)])
        BY <1>8, <4>1 DEF JobSafe
      <4>4. ReadSafe(own, job'[SourceKey(r)], draft'[SourceKey(r)])
        BY <1>8, <2>1, <2>2, <3>1, <3>3 DEF Safe, ReadSafe, SameDraft
      <4>. QED BY <4>1, <4>2, <4>3, <4>4 DEF Safe
    <3>. QED BY <3>2, <3>3
  <2>. QED BY <2>5, <2>6
<1>. QED BY <1>10, <1>12 DEF PagesInv, JobOK, Safe, RowSafe, JobSafe, ReadSafe

LEMMA PagesInit == Init => PagesInv
<1>. SUFFICES ASSUME Init PROVE PagesInv
  OBVIOUS
<1>1. JobOK(job) /\ \A k \in JobKey : ~job[k].open /\ ~job[k].claimed
  BY DEF Init, JobOK
<1>2. ASSUME NEW s \in Page
      PROVE  Safe(page[s], job[SourceKey(s)], job[SeedKey(s)], draft[SourceKey(s)])
  <2>1. page[s] = NoPage
    BY DEF Init
  <2>2. RowSafe(NoPage) /\ NoPage.status = "none"
    BY DEF RowSafe, NoPage
  <2>. QED BY <1>1, <2>1, <2>2, PageKeys DEF Safe, JobSafe, ReadSafe
<1>. QED BY <1>1, <1>2 DEF PagesInv

LEMMA PagesNext == IInv /\ PagesInv /\ [Next]_vars => PagesInv'
<1>. SUFFICES ASSUME IInv, PagesInv, [Next]_vars PROVE PagesInv'
  OBVIOUS
<1>1. ASSUME UNCHANGED <<page, job, draft>> PROVE PagesInv'
  BY <1>1, RowsSame, ThreadsSafe
<1>2. CASE /\ People
           /\ ~addSource /\ ~sourceActions
  BY <1>2, PeopleSafe DEF People
<1>3. CASE addSource
  <2>1. PICK s \in Page, h \in Post \cup {0} :
           \/ \E via \in {"described", "member"} : h # 0 /\ AddSource(s, via, FALSE, h)
           \/ AddSource(s, "mod", FALSE, h)
           \/ \E list \in BOOLEAN : AddSource(s, "seed", list, 0)
    BY <1>3 DEF addSource
  <2>. QED BY <2>1, AddSourceSafe
<1>4. CASE sourceActions
  <2>1. ASSUME NEW s \in Page, NEW on, AllowDomain(s, on) PROVE PagesInv'
    BY <1>1, <2>1 DEF AllowDomain, jobVars
  <2>. QED BY <1>4, <2>1, ModeratorsSafe, DetachSourceSafe DEF sourceActions
<1>5. CASE Others
  <2>1. ASSUME NEW s \in Page, NEW to, WebChanges(s, to) PROVE PagesInv'
    BY <1>1, <2>1 DEF WebChanges, jobVars
  <2>. QED BY <1>5, <2>1, ModeratorsSafe, PeopleSafe DEF Others
<1>6. ASSUME NEW k \in JobKey, Read(k) PROVE PagesInv'
  BY <1>6, ClaimSafe, ReadSafely DEF Read
<1>7. ASSUME NEW k \in JobKey, Write(k) PROVE PagesInv'
  BY <1>7, WriteSafe, SetSourceSafe, AddSeedsSafe DEF Write
<1>8. CASE UNCHANGED vars
  BY <1>1, <1>8 DEF vars
<1>. QED BY <1>2, <1>3, <1>4, <1>5, <1>6, <1>7, <1>8 DEF Next

(* Nothing is published unseen, what was taken down keeps no summary even  *)
(* when a worker was reading it, and a page that is meant to show is shown *)
(* or on its way (cmd/sources.go).                                         *)
THEOREM PagesAreVetted == Spec => []PagesVetted
<1>1. PagesInv => PagesVetted
  <2>. SUFFICES ASSUME PagesInv, NEW s \in Page
                PROVE  /\ page[s].index \/ Shown(s) => page[s].cleared
                       /\ page[s].index = (page[s].status = "active" /\ Shown(s))
                       /\ page[s].status = "removed" => page[s].summary = 0 /\ page[s].hash = 0
                       /\ /\ page[s].status = "active" /\ ~page[s].list
                          /\ ~page[s].problem /\ ~job[<<"source", s, 0>>].open
                          => page[s].summary # 0
    BY DEF PagesVetted
  <2>1. RowSafe(page[s]) /\ JobSafe(page[s], job[SourceKey(s)], job[SeedKey(s)])
    BY DEF PagesInv, Safe
  <2>2. page[s].index = (page[s].status = "active" /\ page[s].summary # 0 /\ ~page[s].list)
    BY <2>1 DEF RowSafe
  <2>3. page[s].index = (page[s].status = "active" /\ Shown(s))
    <3>1. page[s].status = "active" /\ Shown(s)
             <=> page[s].status = "active" /\ page[s].summary # 0 /\ ~page[s].list
      BY DEF Shown
    <3>. QED BY <2>2, <3>1
  <2>4. page[s].index \/ Shown(s) => page[s].cleared
    BY <2>1, <2>2 DEF RowSafe, Shown
  <2>. QED BY <2>1, <2>3, <2>4 DEF RowSafe, JobSafe, SourceKey
<1>. QED BY <1>1, PagesInit, PagesNext, Invariant, PTL DEF Spec

(***************************************************************************)
(* Sums of versions                                                        *)
(***************************************************************************)
(* What holds of 0, and of n + 1 where of n, holds of every number.        *)
LEMMA Counting ==
  ASSUME NEW Q, 0 \in Q, \A n \in Nat : n \in Q => n + 1 \in Q
  PROVE  Nat \subseteq Q
<1>. DEFINE R == OpToRel(<, Nat)
            T == Nat \ Q
<1>1. IsWellFoundedOn(R, Nat)
  BY NatLessThanWellFounded
<1>2. \A x, y \in Nat : x < y => <<x, y>> \in R
  BY DEF OpToRel
<1>. SUFFICES ASSUME T # {} PROVE FALSE
  OBVIOUS
<1>. HIDE DEF R, T
<1>3. T \subseteq Nat
  BY DEF T
<1>4. PICK m \in T : \A k \in T : ~(<<k, m>> \in R)
  BY <1>1, <1>3, WFMin
<1>5. m \in Nat /\ m # 0 /\ m \notin Q
  BY <1>4 DEF T
<1>6. m - 1 \in Nat /\ m - 1 < m /\ m = (m - 1) + 1
  BY <1>5
<1>7. m - 1 \notin T
  BY <1>2, <1>4, <1>5, <1>6
<1>8. m - 1 \in Q
  BY <1>6, <1>7 DEF T
<1>. QED BY <1>5, <1>6, <1>8

Pick(T) == CHOOSE x \in T : TRUE
Adds(f, v, S) ==
    f = [T \in SUBSET S |-> IF T = {} THEN 0 ELSE v[Pick(T)[2]] + f[T \ {Pick(T)}]]
Tally(v, S, n) == \E f : Adds(f, v, S) /\ n = f[S]

(* Any finite set can be added up.                                         *)
LEMMA Addable ==
  ASSUME NEW S, IsFiniteSet(S), NEW v
  PROVE  \E f : Adds(f, v, S)
<1>. DEFINE Small(n) == {T \in SUBSET S : Cardinality(T) <= n}
            Sum(f, T) == IF T = {} THEN 0 ELSE v[Pick(T)[2]] + f[T \ {Pick(T)}]
            Q == {n \in Nat : \E f : DOMAIN f = Small(n) /\ \A T \in Small(n) : f[T] = Sum(f, T)}
<1>1. \A T \in SUBSET S : Cardinality(T) \in Nat /\ IsFiniteSet(T) /\ Cardinality(T) <= Cardinality(S)
  BY FS_Subset, FS_CardinalityType
<1>2. \A T \in SUBSET S : T # {} => /\ Cardinality(T) # 0 /\ T \ {Pick(T)} \in SUBSET S
                                    /\ Cardinality(T \ {Pick(T)}) = Cardinality(T) - 1
  BY <1>1, FS_RemoveElement, FS_EmptySet DEF Pick
<1>3. 0 \in Q
  <2>. DEFINE f == [T \in Small(0) |-> 0]
  <2>1. \A T \in Small(0) : T = {}
    BY <1>1, FS_EmptySet
  <2>2. DOMAIN f = Small(0) /\ \A T \in Small(0) : f[T] = Sum(f, T)
    BY <2>1
  <2>. HIDE DEF f
  <2>. QED BY <2>2
<1>4. ASSUME NEW n \in Nat, n \in Q PROVE n + 1 \in Q
  <2>1. PICK f : DOMAIN f = Small(n) /\ \A T \in Small(n) : f[T] = Sum(f, T)
    BY <1>4
  <2>. DEFINE g == [T \in Small(n + 1) |-> Sum(f, T)]
  <2>2. \A T \in Small(n) : T \in Small(n + 1)
    BY <1>1
  <2>3. \A T \in Small(n + 1) : T # {} => T \ {Pick(T)} \in Small(n)
    BY <1>1, <1>2
  <2>4. \A T \in Small(n) : g[T] = f[T]
    BY <2>1, <2>2
  <2>5. DOMAIN g = Small(n + 1) /\ \A T \in Small(n + 1) : g[T] = Sum(f, T)
    OBVIOUS
  <2>. HIDE DEF g, Small
  <2>6. \A T \in Small(n + 1) : Sum(f, T) = Sum(g, T)
    BY <2>3, <2>4
  <2>7. DOMAIN g = Small(n + 1) /\ \A T \in Small(n + 1) : g[T] = Sum(g, T)
    BY <2>5, <2>6
  <2>8. \E h : DOMAIN h = Small(n + 1) /\ \A T \in Small(n + 1) : h[T] = Sum(h, T)
    BY <2>7
  <2>. HIDE DEF Sum
  <2>. QED BY <2>8
<1>. HIDE DEF Q
<1>5. Cardinality(S) \in Q
  BY <1>1, <1>3, <1>4, Counting
<1>6. Small(Cardinality(S)) = SUBSET S
  BY <1>1
<1>7. PICK f : DOMAIN f = Small(Cardinality(S)) /\ \A T \in Small(Cardinality(S)) : f[T] = Sum(f, T)
  BY <1>5 DEF Q
<1>. DEFINE g == [T \in SUBSET S |-> Sum(f, T)]
<1>8. \A T \in SUBSET S : g[T] = f[T]
  BY <1>6, <1>7
<1>9. \A T \in SUBSET S : Sum(g, T) = Sum(f, T)
  BY <1>2, <1>8
<1>. HIDE DEF Q, Small
<1>10. g = [T \in SUBSET S |-> Sum(g, T)]
  BY <1>9
<1>11. Adds(g, v, S)
  BY <1>10 DEF Adds
<1>. QED BY <1>11

Counted(sources) == {s \in sources : s[1] = "post"}

LEMMA VersionIs ==
  ASSUME NEW k, IsFiniteSet(Counted(note[k].sources)), NEW v,
         \A s \in Counted(note[k].sources) : v[s[2]] = post[s[2]].version
  PROVE  Tally(v, Counted(note[k].sources), noteVersion(k))
<1>. DEFINE S == Counted(note[k].sources)
            Sum(f, T) == IF T = {} THEN 0 ELSE post[Pick(T)[2]].version + f[T \ {Pick(T)}]
            fold == CHOOSE f : f = [T \in SUBSET S |-> Sum(f, T)]
<1>1. noteVersion(k) = fold[S]
  BY DEF noteVersion, MapThenSumSet, MapThenFoldSet, Pick, Counted
<1>2. PICK f : Adds(f, v, S)
  BY Addable
<1>3. \A T \in SUBSET S : T # {} => Pick(T) \in S
  BY DEF Pick
<1>. HIDE DEF fold, S
<1>4. f = [T \in SUBSET S |-> Sum(f, T)]
  BY <1>2, <1>3 DEF Adds, S
<1>5. fold = [T \in SUBSET S |-> Sum(fold, T)]
  BY <1>4 DEF fold
<1>6. [T \in SUBSET S |-> Sum(fold, T)]
      = [T \in SUBSET S |-> IF T = {} THEN 0 ELSE v[Pick(T)[2]] + fold[T \ {Pick(T)}]]
  <2>1. \A T \in SUBSET S : Sum(fold, T) = IF T = {} THEN 0 ELSE v[Pick(T)[2]] + fold[T \ {Pick(T)}]
    BY <1>3 DEF S
  <2>. HIDE DEF Sum
  <2>. QED BY <2>1
<1>7. Adds(fold, v, S)
  BY <1>5, <1>6 DEF Adds
<1>. QED BY <1>1, <1>7 DEF Tally, S

(* Versions only go up: an equal sum is the sum of equal versions.         *)
LEMMA EqualSums ==
  ASSUME NEW S, IsFiniteSet(S), NEW v, NEW w, NEW n, Tally(v, S, n), Tally(w, S, n),
         \A s \in S : v[s[2]] \in Nat /\ w[s[2]] \in Nat /\ v[s[2]] <= w[s[2]]
  PROVE  \A s \in S : v[s[2]] = w[s[2]]
<1>1. PICK f : Adds(f, v, S) /\ n = f[S]
  BY DEF Tally
<1>2. PICK g : Adds(g, w, S) /\ n = g[S]
  BY DEF Tally
<1>. DEFINE P(T) == /\ f[T] \in Nat /\ g[T] \in Nat /\ f[T] <= g[T]
                    /\ f[T] = g[T] => \A s \in T : v[s[2]] = w[s[2]]
            Q == {m \in Nat : \A T \in SUBSET S : Cardinality(T) <= m => P(T)}
<1>3. \A T \in SUBSET S : Cardinality(T) \in Nat /\ IsFiniteSet(T) /\ Cardinality(T) <= Cardinality(S)
  BY FS_Subset, FS_CardinalityType
<1>4. P({})
  <2>1. f[{}] = 0 /\ g[{}] = 0
    BY <1>1, <1>2 DEF Adds
  <2>. QED BY <2>1
<1>5. 0 \in Q
  BY <1>3, <1>4, FS_EmptySet
<1>6. ASSUME NEW m \in Nat, m \in Q PROVE m + 1 \in Q
  <2>0. \A T \in SUBSET S : Cardinality(T) <= m => P(T)
    BY <1>6
  <2>. HIDE DEF P
  <2>. SUFFICES ASSUME NEW T \in SUBSET S, Cardinality(T) <= m + 1, T # {} PROVE P(T)
    BY <1>4
  <2>. USE DEF P
  <2>. DEFINE x == Pick(T)
              U == T \ {x}
  <2>1. x \in T /\ U \in SUBSET S /\ T = U \cup {x}
    BY DEF Pick
  <2>2. Cardinality(U) = Cardinality(T) - 1
    BY <1>3, <2>1, FS_RemoveElement
  <2>3. P(U)
    BY <1>3, <2>0, <2>1, <2>2
  <2>4. f[T] = v[x[2]] + f[U] /\ g[T] = w[x[2]] + g[U]
    BY <1>1, <1>2 DEF Adds
  <2>5. v[x[2]] \in Nat /\ w[x[2]] \in Nat /\ v[x[2]] <= w[x[2]]
    BY <2>1
  <2>. HIDE DEF x, U
  <2>6. f[T] \in Nat /\ g[T] \in Nat /\ f[T] <= g[T] /\ (f[T] = g[T] => v[x[2]] = w[x[2]] /\ f[U] = g[U])
    BY <2>3, <2>4, <2>5
  <2>. QED BY <2>1, <2>3, <2>6
<1>. HIDE DEF Q, P
<1>7. Cardinality(S) \in Q
  BY <1>3, <1>5, <1>6, Counting
<1>8. P(S)
  BY <1>3, <1>7 DEF Q
<1>. QED BY <1>1, <1>2, <1>8 DEF P

(***************************************************************************)
(* What notes are written from                                             *)
(***************************************************************************)
Texts == LinkNote \cup CombinedNote
Cited(k) == ({"post"} \X (Post \ {k[2]})) \cup (IF k \in CombinedNote THEN {"page"} \X Page ELSE {})
TextOf(ps, p) == <<ps[p].own, {<<u, ps[u].own>> : u \in Updates(ps, p)}>>

(* What a text was made from has what thread p says now, if it is there.   *)
Tells(from, ps, p) ==
    {f \in from : f[1] = <<"post", p>>} =
        IF ps[p].shown THEN {<<<<"post", p>>, TextOf(ps, p)>>} ELSE {}

(* It is from nothing but those sources, and from pages as they are.       *)
Cites(from, sources, pages) ==
    \A f \in from : f[1] \in sources /\ (f[1][1] = "page" => pages[f[1][2]].summary = f[2])

TextFresh(n, ps, pages) ==
    n.state = "active" /\ ~n.stale /\ ~n.mixed =>
        /\ Cites(n.from, n.sources, pages)
        /\ \A p \in Post : <<"post", p>> \in n.sources => Tells(n.from, ps, p)

(* vs are the versions a worker counted; the threads whose versions are    *)
(* still those say what it has read.                                       *)
ReadFresh(n, ps, pages, d, vs) ==
    /\ \A p \in Post : vs[p] <= ps[p].version
    /\ Tally(vs, Counted(n.sources), d.version)
    /\ d.ready => /\ ~d.skip /\ Cites(d.seen, n.sources, pages)
                  /\ \A p \in Post : <<"post", p>> \in n.sources /\ vs[p] = ps[p].version => Tells(d.seen, ps, p)

DraftFresh(n, ps, pages, claimed, d) ==
    n.state = "active" /\ claimed /\ ~d.crossed =>
        \E vs \in [Post -> Nat] : ReadFresh(n, ps, pages, d, vs)

TextInv ==
    /\ \A p \in Post : post[p].version \in Nat
    /\ \A k \in Texts : /\ note[k].sources \subseteq Cited(k)
                        /\ TextFresh(note[k], post, page)
                        /\ DraftFresh(note[k], post, page, job[k].claimed, draft[k])

(* A note that is down, or was queued again.                               *)
Again(n, claimed, d) == n.state # "active" \/ (n.stale /\ (claimed => d.crossed))

(* One that may have gone stale, that is all.                              *)
SameNote(n, n2) == /\ n2.state = n.state /\ n2.sources = n.sources /\ n2.from = n.from
                   /\ n2.mixed = n.mixed /\ (n.stale => n2.stale)
SameWork(claimed, d, claimed2, d2) == claimed2 => claimed /\ (d2 = d \/ d2.crossed)

SameThread(ps, ps2, p) == TextOf(ps2, p) = TextOf(ps, p) /\ ps2[p].shown = ps[p].shown
SaysSame(n, ps, pages, n2, ps2, pages2, claimed2, d2) ==
    /\ \A p \in Post : <<"post", p>> \in n.sources =>
          SameThread(ps, ps2, p) \/ (n2.stale /\ ps[p].version < ps2[p].version)
    /\ \A r \in Page : <<"page", r>> \in n.sources =>
          pages2[r].summary = pages[r].summary \/ (n2.stale /\ (claimed2 => d2.crossed))

LEMMA AgainFresh ==
  ASSUME NEW n, NEW ps, NEW pages, NEW claimed, NEW d, Again(n, claimed, d)
  PROVE  TextFresh(n, ps, pages) /\ DraftFresh(n, ps, pages, claimed, d)
BY DEF Again, TextFresh, DraftFresh

LEMMA SameFresh ==
  ASSUME NEW k, NEW n, NEW ps, NEW pages, NEW claimed, NEW d,
         NEW n2, NEW ps2, NEW pages2, NEW claimed2, NEW d2,
         TextFresh(n, ps, pages), DraftFresh(n, ps, pages, claimed, d), n.sources \subseteq Cited(k),
         SameNote(n, n2), SameWork(claimed, d, claimed2, d2),
         SaysSame(n, ps, pages, n2, ps2, pages2, claimed2, d2),
         \A p \in Post : ps[p].version \in Nat /\ ps2[p].version \in Nat /\ ps[p].version <= ps2[p].version
  PROVE  TextFresh(n2, ps2, pages2) /\ DraftFresh(n2, ps2, pages2, claimed2, d2)
<1>1. \A s \in n.sources : s[1] = "page" => s[2] \in Page /\ s = <<"page", s[2]>>
  BY DEF Cited
<1>2. ASSUME NEW from, Cites(from, n.sources, pages), ~(n2.stale /\ (claimed2 => d2.crossed))
      PROVE  Cites(from, n2.sources, pages2)
  <2>. SUFFICES ASSUME NEW f \in from
                PROVE  f[1] \in n2.sources /\ (f[1][1] = "page" => pages2[f[1][2]].summary = f[2])
    BY DEF Cites
  <2>1. f[1] \in n.sources /\ (f[1][1] = "page" => pages[f[1][2]].summary = f[2])
    BY <1>2 DEF Cites
  <2>. QED BY <1>1, <1>2, <2>1 DEF SaysSame, SameNote
<1>3. ASSUME NEW from, NEW p \in Post, SameThread(ps, ps2, p), Tells(from, ps, p) PROVE Tells(from, ps2, p)
  BY <1>3 DEF SameThread, Tells
<1>4. TextFresh(n2, ps2, pages2)
  <2>. SUFFICES ASSUME n2.state = "active", ~n2.stale, ~n2.mixed
                PROVE  /\ Cites(n2.from, n2.sources, pages2)
                       /\ \A p \in Post : <<"post", p>> \in n2.sources => Tells(n2.from, ps2, p)
    BY DEF TextFresh
  <2>1. /\ Cites(n2.from, n.sources, pages)
        /\ \A p \in Post : <<"post", p>> \in n2.sources => Tells(n2.from, ps, p) /\ SameThread(ps, ps2, p)
    BY DEF TextFresh, SameNote, SaysSame
  <2>. QED BY <1>2, <1>3, <2>1
<1>5. DraftFresh(n2, ps2, pages2, claimed2, d2)
  <2>. SUFFICES ASSUME n2.state = "active", claimed2, ~d2.crossed
                PROVE  \E vs \in [Post -> Nat] : ReadFresh(n2, ps2, pages2, d2, vs)
    BY DEF DraftFresh
  <2>1. d2 = d /\ n.state = "active" /\ claimed /\ ~d.crossed /\ n2.sources = n.sources
    BY DEF SameWork, SameNote
  <2>2. PICK vs \in [Post -> Nat] : ReadFresh(n, ps, pages, d, vs)
    BY <2>1 DEF DraftFresh
  <2>3. \A p \in Post : vs[p] \in Nat /\ vs[p] <= ps[p].version
    BY <2>2 DEF ReadFresh
  <2>4. ASSUME NEW p \in Post PROVE vs[p] <= ps2[p].version
    <3>1. /\ vs[p] \in Nat /\ ps[p].version \in Nat /\ ps2[p].version \in Nat
          /\ vs[p] <= ps[p].version /\ ps[p].version <= ps2[p].version
      BY <2>3
    <3>. QED BY <3>1
  <2>5. Tally(vs, Counted(n2.sources), d2.version)
    BY <2>1, <2>2 DEF ReadFresh
  <2>6. ASSUME d2.ready
        PROVE  /\ ~d2.skip /\ Cites(d2.seen, n2.sources, pages2)
               /\ \A p \in Post : <<"post", p>> \in n2.sources /\ vs[p] = ps2[p].version => Tells(d2.seen, ps2, p)
    <3>1. /\ ~d.skip /\ Cites(d.seen, n.sources, pages)
          /\ \A p \in Post : <<"post", p>> \in n.sources /\ vs[p] = ps[p].version => Tells(d.seen, ps, p)
      BY <2>1, <2>2, <2>6 DEF ReadFresh
    <3>2. Cites(d.seen, n2.sources, pages2)
      BY <1>2, <2>1, <3>1
    <3>3. ASSUME NEW p \in Post, <<"post", p>> \in n2.sources, vs[p] = ps2[p].version
          PROVE  Tells(d2.seen, ps2, p)
      <4>1. vs[p] = ps[p].version /\ ~(ps[p].version < ps2[p].version)
        BY <2>3, <3>3
      <4>2. SameThread(ps, ps2, p) /\ Tells(d.seen, ps, p)
        BY <2>1, <3>1, <3>3, <4>1 DEF SaysSame
      <4>. QED BY <1>3, <2>1, <4>2
    <3>. QED BY <2>1, <3>1, <3>2, <3>3
  <2>. QED BY <2>4, <2>5, <2>6 DEF ReadFresh
<1>. QED BY <1>4, <1>5

(* What a step does to a note and the work on it, but for what the worker  *)
(* who writes it does.                                                     *)
Kept(k) == /\ SameNote(note[k], note'[k])
           /\ SameWork(job[k].claimed, draft[k], job'[k].claimed, draft'[k])
           /\ SaysSame(note[k], post, page, note'[k], post', page', job'[k].claimed, draft'[k])
Fresh(k) == TextFresh(note'[k], post', page') /\ DraftFresh(note'[k], post', page', job'[k].claimed, draft'[k])
Upwards == \A p \in Post : post'[p].version \in Nat /\ post[p].version <= post'[p].version

LEMMA TextStep ==
  ASSUME TextInv, Upwards,
         \A k \in Texts : /\ note'[k].sources \subseteq Cited(k)
                          /\ Again(note'[k], job'[k].claimed, draft'[k]) \/ Kept(k) \/ Fresh(k)
  PROVE  TextInv'
<1>1. ASSUME NEW k \in Texts PROVE Fresh(k)
  <2>1. CASE Again(note'[k], job'[k].claimed, draft'[k])
    BY <2>1, AgainFresh DEF Fresh
  <2>2. CASE Kept(k)
    <3>1. /\ TextFresh(note[k], post, page) /\ DraftFresh(note[k], post, page, job[k].claimed, draft[k])
          /\ note[k].sources \subseteq Cited(k)
      BY DEF TextInv
    <3>2. \A p \in Post : /\ post[p].version \in Nat /\ post'[p].version \in Nat
                          /\ post[p].version <= post'[p].version
      BY DEF TextInv, Upwards
    <3>3. /\ SameNote(note[k], note'[k])
          /\ SameWork(job[k].claimed, draft[k], job'[k].claimed, draft'[k])
          /\ SaysSame(note[k], post, page, note'[k], post', page', job'[k].claimed, draft'[k])
      BY <2>2 DEF Kept
    <3>. QED BY <3>1, <3>2, <3>3, SameFresh DEF Fresh
  <2>. QED BY <2>1, <2>2
<1>2. \A p \in Post : post'[p].version \in Nat
  BY DEF Upwards
<1>. QED BY <1>1, <1>2 DEF TextInv, Fresh, TextFresh, DraftFresh, ReadFresh, Tells, Cites, TextOf, Updates

LEMMA TextKeys == Texts \subseteq NoteKey /\ Texts \subseteq JobKey /\ \A k \in Texts : k[2] \in Post
BY Keys DEF Texts

LEMMA CrossedIs ==
  ASSUME DraftOK(draft), NEW ks, NEW k \in JobKey
  PROVE  /\ Crossed(ks)[k] = draft[k] \/ Crossed(ks)[k].crossed
         /\ k \in ks /\ job[k].claimed => Crossed(ks)[k].crossed
BY DEF DraftOK, DraftField, Crossed

(* Nobody shows a note from a page that nobody knows.                      *)
LEMMA Known ==
  ASSUME IInv, TextInv, NEW k \in Texts, note[k].state = "active", NEW r \in Page,
         <<"page", r>> \in note[k].sources
  PROVE  page[r].status # "none"
<1>1. k \in CombinedNote
  BY DEF TextInv, Cited
<1>2. k = <<"combined", k[2], 0>> /\ k[2] \in Post
  BY <1>1, Keys
<1>3. Gathers(note, link, page, k[2])
  BY <1>2 DEF IInv, Agree
<1>4. \/ \E q \in Post : <<"page", r>> = <<"post", q>>
      \/ \E x \in Page : <<"page", r>> = <<"page", x>> /\ k[2] \in page[x].placed
  BY <1>2, <1>3 DEF Gathers
<1>5. k[2] \in page[r].placed
  BY <1>4
<1>. QED BY <1>5 DEF IInv, PageOK

(* Threads say what they said, and so do the pages that anybody knew.      *)
ThreadsSame == Upwards /\ \A p \in Post : SameThread(post, post', p)
PagesSame == \A r \in Page : page[r].status # "none" => page'[r].summary = page[r].summary

LEMMA NothingNew ==
  ASSUME TextInv, post' = post
  PROVE  ThreadsSame
BY DEF TextInv, ThreadsSame, Upwards, SameThread, TextOf, Updates

LEMMA Texting ==
  ASSUME TextInv,
         \A p \in Post : /\ post'[p].version = post[p].version /\ post'[p].own = post[p].own
                         /\ post'[p].shown = post[p].shown /\ post'[p].under = post[p].under
  PROVE  ThreadsSame
<1>1. \A p \in Post : Updates(post', p) = Updates(post, p)
  BY DEF Updates
<1>2. \A p \in Post : \A u \in Updates(post, p) : post'[u].own = post[u].own
  BY DEF Updates
<1>3. \A p \in Post : TextOf(post', p) = TextOf(post, p)
  BY <1>1, <1>2 DEF TextOf
<1>. QED BY <1>3 DEF TextInv, ThreadsSame, Upwards, SameThread

LEMMA PagesStay ==
  ASSUME page' = page
  PROVE  PagesSame
BY DEF PagesSame

(* Notes that are as they were, or are queued again.                       *)
LEMMA NotesFresh ==
  ASSUME IInv, TextInv, ThreadsSame, PagesSame,
         \A k \in Texts : /\ note'[k].sources \subseteq Cited(k)
                          /\ SameWork(job[k].claimed, draft[k], job'[k].claimed, draft'[k])
                          /\ note'[k] = note[k] \/ Again(note'[k], job'[k].claimed, draft'[k])
  PROVE  TextInv'
<1>1. Upwards
  BY DEF ThreadsSame
<1>2. ASSUME NEW k \in Texts, note'[k] = note[k], note[k].state = "active" PROVE Kept(k)
  <2>1. SameNote(note[k], note'[k])
    BY <1>2 DEF SameNote
  <2>2. \A r \in Page : <<"page", r>> \in note[k].sources => page'[r].summary = page[r].summary
    BY <1>2, Known DEF PagesSame
  <2>. QED BY <1>2, <2>1, <2>2 DEF Kept, SaysSame, ThreadsSame
<1>3. ASSUME NEW k \in Texts
      PROVE  Again(note'[k], job'[k].claimed, draft'[k]) \/ Kept(k) \/ Fresh(k)
  BY <1>2 DEF Again
<1>. QED BY <1>1, <1>3, TextStep

(* Steps that leave notes alone.                                           *)
LEMMA NotesAlone ==
  ASSUME IInv, TextInv, ThreadsSame, PagesSame,
         \A k \in Texts : /\ note'[k] = note[k]
                          /\ SameWork(job[k].claimed, draft[k], job'[k].claimed, draft'[k])
  PROVE  TextInv'
BY NotesFresh DEF TextInv

LEMMA ThreadFresh ==
  ASSUME IInv, JobOK(job), TextInv, NEW ps, NEW cs, NEW ids, threadChanged(ps, cs, ids), PostOK(ps),
         \A p \in Post : ps[p].version = post[p].version,
         \A p \in Post \ ids : SameThread(post, ps, p)
  PROVE  TextInv'
<1>. DEFINE long == Long \in ids /\ Cardinality({c \in Comment : cs[c] = "shown"}) >= SummaryMin
            ks == WrittenFrom(ids) \cup (IF long THEN SummaryNote ELSE {})
<1>1. /\ post' = [q \in Post |-> IF q \in ids THEN [ps[q] EXCEPT !.version = @ + 1] ELSE ps[q]]
      /\ note' = [k \in NoteKey |-> IF k \in WrittenFrom(ids) THEN [note[k] EXCEPT !.stale = TRUE]
                                    ELSE note[k]]
      /\ job' = schedule(job, ks) /\ page' = page /\ draft' = draft
  BY DEF threadChanged, pageVars
<1>. HIDE DEF ks
<1>2. \A p \in Post : /\ post'[p].version = IF p \in ids THEN post[p].version + 1 ELSE post[p].version
                      /\ post'[p].own = ps[p].own /\ post'[p].shown = ps[p].shown
                      /\ post'[p].under = ps[p].under
  BY <1>1 DEF PostOK, PostField
<1>3. Upwards
  BY <1>2 DEF Upwards, TextInv
<1>4. ASSUME NEW p \in Post PROVE TextOf(post', p) = TextOf(ps, p)
  <2>1. Updates(post', p) = Updates(ps, p)
    BY <1>2 DEF Updates
  <2>2. \A u \in Updates(ps, p) : post'[u].own = ps[u].own
    BY <1>2 DEF Updates
  <2>. QED BY <1>2, <2>1, <2>2 DEF TextOf
<1>5. ASSUME NEW p \in Post
      PROVE  (p \in ids /\ post[p].version < post'[p].version) \/ SameThread(post, post', p)
  BY <1>2, <1>4 DEF SameThread, TextInv
<1>6. \A k \in JobKey : job'[k].claimed = job[k].claimed
  BY <1>1, Scheduled
<1>7. ASSUME NEW k \in Texts
      PROVE  /\ SameNote(note[k], note'[k])
             /\ k \in WrittenFrom(ids) => note'[k].stale
    BY <1>1, TextKeys DEF SameNote, IInv, NoteOK, NoteField
<1>8. ASSUME NEW k \in Texts, note[k].state = "active" PROVE Kept(k)
  <2>1. SameWork(job[k].claimed, draft[k], job'[k].claimed, draft'[k])
    BY <1>1, <1>6, TextKeys DEF SameWork
  <2>2. ASSUME NEW p \in Post, <<"post", p>> \in note[k].sources, p \in ids PROVE note'[k].stale
    <3>1. <<"post", p>> \in Cited(k)
      BY <2>2 DEF TextInv
    <3>2. p # k[2]
      BY <3>1 DEF Cited
    <3>3. k \in WrittenFrom(ids)
      BY <1>8, <2>2, <3>2 DEF WrittenFrom, Texts
    <3>. QED BY <1>7, <3>3
  <2>3. SaysSame(note[k], post, page, note'[k], post', page', job'[k].claimed, draft'[k])
    BY <1>1, <1>5, <2>2 DEF SaysSame
  <2>. QED BY <1>7, <2>1, <2>3 DEF Kept
<1>9. ASSUME NEW k \in Texts
      PROVE  /\ note'[k].sources \subseteq Cited(k)
             /\ Again(note'[k], job'[k].claimed, draft'[k]) \/ Kept(k) \/ Fresh(k)
  BY <1>7, <1>8 DEF SameNote, Again, TextInv
<1>. QED BY <1>3, <1>9, TextStep

LEMMA ThreadsFresh ==
  ASSUME IInv, JobOK(job), TextInv,
         \/ \E p \in Post : ChangeThread(p) \/ ChangeStatus(p) \/ MoveOut(p)
         \/ \E c \in Comment, to \in {"shown", "hidden"} : ChangeComment(c, to)
         \/ \E p, u \in Post : MoveUnder(p, u)
  PROVE  TextInv'
<1>8. 0 \notin Post
  BY PostAssumption
<1>0. PostOK(post) /\ 0 \notin Post
  BY <1>8 DEF IInv
<1>1. ASSUME NEW p, NEW ps, NEW cs, threadChanged(ps, cs, ThreadOf(post, p)),
             PostOK(ps), \A q \in Post : ps[q].version = post[q].version,
             \A q \in Post : ps[q].under = post[q].under,
             \A q \in Post \ {p} : ps[q].own = post[q].own /\ ps[q].shown = post[q].shown
      PROVE  TextInv'
  <2>. DEFINE ids == ThreadOf(post, p)
  <2>1. ASSUME NEW q \in Post \ ids PROVE SameThread(post, ps, q)
    <3>1. q # p /\ (p \in Post => post[p].under # q)
      BY <1>0, <2>1 DEF ThreadOf
    <3>2. Updates(ps, q) = Updates(post, q) /\ p \notin Updates(post, q)
      BY <1>1, <3>1 DEF Updates
    <3>3. \A u \in Updates(post, q) : ps[u].own = post[u].own
      BY <1>1, <3>2 DEF Updates
    <3>4. TextOf(ps, q) = TextOf(post, q)
      BY <1>1, <3>1, <3>2, <3>3 DEF TextOf
    <3>. QED BY <1>1, <3>1, <3>4 DEF SameThread
  <2>. QED BY <1>1, <2>1, ThreadFresh
<1>2. ASSUME NEW p, NEW ids, NEW ps, NEW cs, threadChanged(ps, cs, ids), p \in ids,
             PostOK(ps), \A q \in Post : ps[q].version = post[q].version,
             \A q \in Post : ps[q].own = post[q].own /\ ps[q].shown = post[q].shown,
             \A q \in Post \ {p} : ps[q].under = post[q].under,
             p \in Post => post[p].under \in ids \cup {0} /\ ps[p].under \in ids \cup {0}
      PROVE  TextInv'
  <2>1. ASSUME NEW q \in Post \ ids PROVE SameThread(post, ps, q)
    <3>1. Updates(ps, q) = Updates(post, q)
      <4>1. \A u \in Post : ps[u].under = q <=> post[u].under = q
        BY <1>0, <1>2, <2>1
      <4>. QED BY <1>2, <4>1 DEF Updates
    <3>2. \A u \in Updates(post, q) : ps[u].own = post[u].own
      BY <1>2 DEF Updates
    <3>3. TextOf(ps, q) = TextOf(post, q)
      BY <1>2, <3>1, <3>2 DEF TextOf
    <3>. QED BY <1>2, <3>3 DEF SameThread
  <2>. QED BY <1>2, <2>1, ThreadFresh
<1>3. ASSUME NEW p \in Post, ChangeThread(p) PROVE TextInv'
  <2>. DEFINE ps == [post EXCEPT ![p].own = @ + 1]
  <2>1. threadChanged(ps, comment, ThreadOf(post, p))
    BY <1>3 DEF ChangeThread
  <2>2. /\ PostOK(ps)
        /\ \A q \in Post : ps[q].version = post[q].version /\ ps[q].under = post[q].under
        /\ \A q \in Post \ {p} : ps[q].own = post[q].own /\ ps[q].shown = post[q].shown
    BY <1>0 DEF PostOK, PostField
  <2>. HIDE DEF ps
  <2>. QED BY <1>1, <2>1, <2>2
<1>4. ASSUME NEW p \in Post, ChangeStatus(p) PROVE TextInv'
  <2>. DEFINE ps == [post EXCEPT ![p].shown = ~@]
              qs == [ps EXCEPT ![p].own = @ + 1]
  <2>1. [post EXCEPT ![p].shown = ~@, ![p].own = @ + 1] = qs
    BY <1>0 DEF PostOK, PostField
  <2>2. /\ PostOK(ps)
        /\ \A q \in Post : ps[q].version = post[q].version /\ ps[q].under = post[q].under
        /\ \A q \in Post \ {p} : ps[q].own = post[q].own /\ ps[q].shown = post[q].shown
    BY <1>0 DEF PostOK, PostField
  <2>3. threadChanged(qs, comment, ThreadOf(post, p))
    BY <1>4, <2>1 DEF ChangeStatus
  <2>. HIDE DEF ps
  <2>4. /\ PostOK(qs)
        /\ \A q \in Post : qs[q].version = post[q].version /\ qs[q].under = post[q].under
        /\ \A q \in Post \ {p} : qs[q].own = post[q].own /\ qs[q].shown = post[q].shown
    BY <2>2 DEF PostOK, PostField
  <2>. HIDE DEF qs
  <2>. QED BY <1>1, <2>3, <2>4
<1>5. ASSUME NEW c, NEW to, ChangeComment(c, to) PROVE TextInv'
  <2>. DEFINE ps == [post EXCEPT ![Long].own = @ + 1]
  <2>1. threadChanged(ps, [comment EXCEPT ![c] = to], ThreadOf(post, Long))
    BY <1>5 DEF ChangeComment
  <2>2. /\ PostOK(ps)
        /\ \A q \in Post : ps[q].version = post[q].version /\ ps[q].under = post[q].under
        /\ \A q \in Post \ {Long} : ps[q].own = post[q].own /\ ps[q].shown = post[q].shown
    BY <1>0 DEF PostOK, PostField
  <2>. HIDE DEF ps
  <2>. QED BY <1>1, <2>1, <2>2
<1>6. ASSUME NEW p \in Post, MoveOut(p) PROVE TextInv'
  <2>. DEFINE ps == [post EXCEPT ![p].under = 0]
              ids == ThreadOf(post, p)
  <2>1. threadChanged(ps, comment, ids) /\ p \in ids /\ post[p].under \in ids \cup {0}
    BY <1>0, <1>6 DEF MoveOut, ThreadOf
  <2>2. /\ PostOK(ps) /\ ps[p].under = 0
        /\ \A q \in Post : /\ ps[q].version = post[q].version
                           /\ ps[q].own = post[q].own /\ ps[q].shown = post[q].shown
        /\ \A q \in Post \ {p} : ps[q].under = post[q].under
    BY <1>0 DEF PostOK, PostField
  <2>. HIDE DEF ps, ids
  <2>. QED BY <1>2, <2>1, <2>2
<1>7. ASSUME NEW p \in Post, NEW u \in Post, MoveUnder(p, u) PROVE TextInv'
  <2>. DEFINE ps == [post EXCEPT ![p].under = u]
              ids == {p, u}
  <2>1. threadChanged(ps, comment, ids) /\ p \in ids /\ post[p].under \in ids \cup {0}
    BY <1>7 DEF MoveUnder
  <2>2. /\ PostOK(ps) /\ ps[p].under \in ids
        /\ \A q \in Post : /\ ps[q].version = post[q].version
                           /\ ps[q].own = post[q].own /\ ps[q].shown = post[q].shown
        /\ \A q \in Post \ {p} : ps[q].under = post[q].under
    BY <1>0 DEF PostOK, PostField
  <2>. HIDE DEF ps, ids
  <2>. QED BY <1>2, <2>1, <2>2
<1>. QED BY <1>3, <1>4, <1>5, <1>6, <1>7

(* A sync leaves a note alone, takes it down, or has it written again, from *)
(* what its thread is related to.                                          *)
LEMMA SyncFresh ==
  ASSUME NEW ns, NoteOK(ns), NEW links, NEW pages, NEW h \in Post, NEW new,
         NEW ms, ms = syncCombined(ns, Related(links, pages, h), h, new)
  PROVE  /\ NoteOK(ms)
         /\ \A k \in Texts : /\ ms[k] = ns[k] \/ ms[k].state # "active" \/ ms[k].stale
                             /\ ns[k].sources \subseteq Cited(k) => ms[k].sources \subseteq Cited(k)
<1>. DEFINE k == <<"combined", h, 0>>
            want == Related(links, pages, h)
            off == [ns EXCEPT ![k].state = "removed"]
            on == [ns EXCEPT ![k] = [@ EXCEPT !.state = "active", !.stale = TRUE, !.sources = want]]
<1>1. k \in CombinedNote /\ k \in NoteKey /\ k[2] = h
  BY Keys
<1>2. want \subseteq Cited(k)
  <2>1. Cited(k) = ({"post"} \X (Post \ {h})) \cup ({"page"} \X Page)
    BY <1>1 DEF Cited
  <2>2. ASSUME NEW s \in want PROVE \/ \E q \in Post \ {h} : s = <<"post", q>>
                                    \/ \E r \in Page : s = <<"page", r>>
    BY <2>2 DEF Related
  <2>. QED BY <2>1, <2>2
<1>3. ms \in {off, on, ns}
  BY DEF syncCombined
<1>. HIDE DEF k, want
<1>4. CASE ms = off
  <2>1. /\ DOMAIN ms = NoteKey /\ \A x \in NoteKey : x # k => ms[x] = ns[x]
        /\ DOMAIN ms[k] = NoteField /\ ms[k].state = "removed" /\ ms[k].sources = ns[k].sources
    BY <1>1, <1>4 DEF NoteOK, NoteField
  <2>. QED BY <2>1, TextKeys DEF NoteOK
<1>5. CASE ms = on
  <2>1. /\ DOMAIN ms = NoteKey /\ \A x \in NoteKey : x # k => ms[x] = ns[x]
        /\ DOMAIN ms[k] = NoteField /\ ms[k].stale /\ ms[k].sources = want
    BY <1>1, <1>5 DEF NoteOK, NoteField
  <2>. QED BY <1>2, <2>1, TextKeys DEF NoteOK
<1>. QED BY <1>3, <1>4, <1>5

(* Notes that changed by such commands are queued again.                   *)
LEMMA SyncedFresh ==
  ASSUME IInv, JobOK(job), TextInv, ThreadsSame, PagesSame, NEW ks,
         \A k \in Texts : /\ note'[k] = note[k] \/ note'[k].state # "active" \/ note'[k].stale
                          /\ note'[k].sources \subseteq Cited(k),
         job' = schedule(job, ks), draft' = Crossed(Requeued(note'))
  PROVE  TextInv'
<1>1. ASSUME NEW k \in Texts
      PROVE  /\ SameWork(job[k].claimed, draft[k], job'[k].claimed, draft'[k])
             /\ note'[k] = note[k] \/ Again(note'[k], job'[k].claimed, draft'[k])
  <2>1. k \in JobKey /\ k \in NoteKey
    BY TextKeys
  <2>2. job'[k].claimed = job[k].claimed
    BY <2>1, Scheduled
  <2>3. /\ draft'[k] = draft[k] \/ draft'[k].crossed
        /\ k \in Requeued(note') /\ job[k].claimed => draft'[k].crossed
    BY <2>1, CrossedIs DEF IInv
  <2>4. note'[k] # note[k] /\ note'[k].state = "active" => k \in Requeued(note')
    BY <2>1 DEF Requeued
  <2>. QED BY <2>2, <2>3, <2>4 DEF SameWork, Again
<1>. QED BY <1>1, NotesFresh

LEMMA LinkNoteFresh ==
  ASSUME NEW ns, NoteOK(ns), NEW h \in Post, NEW q \in Post, h # q
  PROVE  /\ NoteOK(linkNote(ns, h, q))
         /\ \A k \in Texts : LET m == linkNote(ns, h, q)[k]
                             IN /\ m = ns[k] \/ m.stale
                                /\ ns[k].sources \subseteq Cited(k) => m.sources \subseteq Cited(k)
<1>. DEFINE k == <<"link", h, q>>
            ms == linkNote(ns, h, q)
<1>1. k \in LinkNote /\ k \in NoteKey /\ k[2] = h
  BY Keys
<1>2. {<<"post", q>>} \subseteq Cited(k)
  BY <1>1 DEF Cited
<1>3. ms = [ns EXCEPT ![k] = [@ EXCEPT !.state = "active", !.byMod = FALSE, !.stale = TRUE,
                                       !.sources = {<<"post", q>>}]]
  BY DEF linkNote
<1>. HIDE DEF k, ms
<1>4. /\ DOMAIN ms = NoteKey /\ \A x \in NoteKey : x # k => ms[x] = ns[x]
      /\ DOMAIN ms[k] = NoteField /\ ms[k].stale /\ ms[k].sources = {<<"post", q>>}
  BY <1>1, <1>3 DEF NoteOK, NoteField
<1>5. NoteOK(ms)
  BY <1>4 DEF NoteOK
<1>6. \A x \in Texts : /\ ms[x] = ns[x] \/ ms[x].stale
                       /\ ns[x].sources \subseteq Cited(x) => ms[x].sources \subseteq Cited(x)
  BY <1>2, <1>4, TextKeys
<1>. QED BY <1>5, <1>6 DEF ms

LEMMA LinksFresh ==
  ASSUME IInv, JobOK(job), TextInv,
         \E p, q \in Post : AddLink(p, q) \/ SetCheck(p, q) \/ RemoveLink(p, q)
  PROVE  TextInv'
<1>0. NoteOK(note) /\ PostOK(post) /\ \A k \in Texts : note[k].sources \subseteq Cited(k)
  BY DEF IInv, TextInv
<1>. DEFINE Changed(ns) == \A k \in Texts : /\ ns[k] = note[k] \/ ns[k].state # "active" \/ ns[k].stale
                                            /\ ns[k].sources \subseteq Cited(k)
<1>1. ASSUME NEW ns, NoteOK(ns), Changed(ns), NEW links, NEW h \in Post, NEW q \in Post, NEW new,
             page' = page, ThreadsSame,
             NotesBecome(syncCombined(syncCombined(ns, Related(links, page, h), h, new),
                                      Related(links, page, q), q, new))
      PROVE  TextInv'
  <2>. DEFINE here == syncCombined(ns, Related(links, page, h), h, new)
              ms == syncCombined(here, Related(links, page, q), q, new)
  <2>1. NoteOK(here) /\ Changed(here)
    BY <1>1, SyncFresh
  <2>. HIDE DEF here
  <2>2. Changed(ms)
    BY <2>1, SyncFresh
  <2>3. note' = ms /\ job' = schedule(job, Requeued(note')) /\ draft' = Crossed(Requeued(note'))
    BY <1>1 DEF NotesBecome, here
  <2>. HIDE DEF ms
  <2>. QED BY <1>1, <2>2, <2>3, PagesStay, SyncedFresh
<1>2. ASSUME NEW p \in Post, NEW q \in Post, NEW byPerson, addLink(p, q, byPerson) PROVE TextInv'
  <2>. DEFINE links == [link EXCEPT ![{p, q}] = "active"]
              one == linkNote(note, p, q)
              both == linkNote(one, q, p)
  <2>1. /\ p # q /\ page' = page /\ feedWeight(p, q)
        /\ NotesBecome(syncCombined(syncCombined(both, Related(links, page, p), p, TRUE),
                                    Related(links, page, q), q, TRUE))
    BY <1>2 DEF addLink, pageVars
  <2>. HIDE DEF links
  <2>2. NoteOK(one) /\ Changed(one)
    BY <1>0, <2>1, LinkNoteFresh
  <2>. HIDE DEF one
  <2>3. NoteOK(both) /\ Changed(both)
    BY <2>1, <2>2, LinkNoteFresh
  <2>. HIDE DEF both
  <2>4. ThreadsSame
    <3>. DEFINE newer == Max({p, q})
    <3>1. post' = post \/ post' = [post EXCEPT ![newer].sink = TRUE]
      BY <2>1 DEF feedWeight
    <3>. HIDE DEF newer
    <3>2. \A x \in Post : /\ post'[x].version = post[x].version /\ post'[x].own = post[x].own
                          /\ post'[x].shown = post[x].shown /\ post'[x].under = post[x].under
      BY <1>0, <3>1 DEF PostOK, PostField
    <3>. QED BY <3>2, Texting
  <2>. QED BY <1>1, <2>1, <2>3, <2>4
<1>3. ASSUME NEW p \in Post, NEW q \in Post, RemoveLink(p, q) PROVE TextInv'
  <2>. DEFINE links == [link EXCEPT ![{p, q}] = "rejected"]
              gone == [k \in NoteKey |-> IF k \in {<<"link", p, q>>, <<"link", q, p>>}
                                         THEN [note[k] EXCEPT !.state = "removed", !.byMod = TRUE]
                                         ELSE note[k]]
  <2>1. /\ page' = page /\ post' = post
        /\ NotesBecome(syncCombined(syncCombined(gone, Related(links, page, p), p, FALSE),
                                    Related(links, page, q), q, FALSE))
    BY <1>3 DEF RemoveLink, pageVars, threadVars
  <2>. HIDE DEF links
  <2>2. \A k \in NoteKey : \/ gone[k] = note[k]
                           \/ /\ DOMAIN gone[k] = NoteField /\ gone[k].state = "removed"
                              /\ gone[k].sources = note[k].sources
    BY <1>0 DEF NoteOK, NoteField
  <2>3. DOMAIN gone = NoteKey
    OBVIOUS
  <2>. HIDE DEF gone
  <2>4. NoteOK(gone) /\ Changed(gone)
    BY <1>0, <2>2, <2>3, TextKeys DEF NoteOK
  <2>. QED BY <1>1, <2>1, <2>4, NothingNew
<1>. QED BY <1>2, <1>3 DEF AddLink, SetCheck

(* A note is taken down; a thread no longer sinks.                         *)
LEMMA UndoneFresh ==
  ASSUME IInv, TextInv, (\E k \in NoteKey : RemoveNote(k)) \/ (\E n \in NudgeKey : ReverseNudge(n))
  PROVE  TextInv'
<1>0. NoteOK(note) /\ PostOK(post) /\ \A k \in Texts : note[k].sources \subseteq Cited(k)
  BY DEF IInv, TextInv
<1>1. ASSUME NEW k \in NoteKey, RemoveNote(k) PROVE TextInv'
  <2>. DEFINE down == [note EXCEPT ![k].state = "removed"]
  <2>1. /\ page' = page /\ post' = post /\ job' = job /\ draft' = draft
        /\ note' = [down EXCEPT ![k].byMod = TRUE]
    BY <1>0, <1>1 DEF RemoveNote, pageVars, threadVars, jobVars, NoteOK, NoteField
  <2>2. /\ DOMAIN down = NoteKey /\ DOMAIN down[k] = NoteField /\ down[k].state = "removed"
        /\ down[k].sources = note[k].sources /\ \A x \in NoteKey : x # k => down[x] = note[x]
    BY <1>0 DEF NoteOK, NoteField
  <2>. HIDE DEF down
  <2>3. \A x \in NoteKey : \/ note'[x] = note[x]
                           \/ note'[x].state = "removed" /\ note'[x].sources = note[x].sources
    BY <2>1, <2>2 DEF NoteField
  <2>4. \A x \in Texts : /\ note'[x].sources \subseteq Cited(x)
                         /\ SameWork(job[x].claimed, draft[x], job'[x].claimed, draft'[x])
                         /\ note'[x] = note[x] \/ Again(note'[x], job'[x].claimed, draft'[x])
    BY <1>0, <2>1, <2>3, TextKeys DEF SameWork, Again
  <2>. QED BY <2>1, <2>4, NothingNew, PagesStay, NotesFresh
<1>2. ASSUME NEW n \in NudgeKey, ReverseNudge(n) PROVE TextInv'
  <2>1. /\ page' = page /\ note' = note /\ job' = job /\ draft' = draft
        /\ post' = post \/ (n[2] \in Post /\ post' = [post EXCEPT ![n[2]].sink = FALSE])
    BY <1>2, NudgeKeys DEF ReverseNudge, pageVars, jobVars
  <2>2. \A x \in Post : /\ post'[x].version = post[x].version /\ post'[x].own = post[x].own
                        /\ post'[x].shown = post[x].shown /\ post'[x].under = post[x].under
    BY <1>0, <2>1 DEF PostOK, PostField
  <2>. QED BY <2>1, <2>2, Texting, PagesStay, NotesAlone DEF SameWork
<1>. QED BY <1>1, <1>2

(***************************************************************************)
(* Pages                                                                   *)
(***************************************************************************)
LEMMA PageStaysFresh ==
  ASSUME IInv, TextInv, NEW s, NEW row, NEW jobs, PageStays(s, row, jobs),
         s \in Page => row.summary = page[s].summary,
         \A k \in Texts : /\ jobs[k].claimed = job[k].claimed
                          /\ SameWork(job[k].claimed, draft[k], job[k].claimed, draft'[k])
  PROVE  TextInv'
<1>1. /\ page' = [page EXCEPT ![s] = row] /\ job' = jobs /\ note' = note /\ post' = post
  BY DEF PageStays, threadVars
<1>2. PagesSame
  BY <1>1 DEF PagesSame, IInv, PageOK
<1>. QED BY <1>1, <1>2, NothingNew, NotesAlone

(* What a page says changes: the notes from it are queued again.           *)
LEMMA PageChangedFresh ==
  ASSUME IInv, JobOK(job), TextInv, NEW s \in Page, NEW row, NEW jobs, sourceChanged(s, row, jobs),
         JobOK(jobs), \A k \in Texts : jobs[k].claimed = job[k].claimed /\ draft'[k] = Crossed(FromPage(s))[k]
  PROVE  TextInv'
<1>1. /\ page' = [page EXCEPT ![s] = row] /\ post' = post /\ job' = schedule(jobs, FromPage(s))
      /\ note' = [k \in NoteKey |-> IF k \in FromPage(s) THEN [note[k] EXCEPT !.stale = TRUE]
                                    ELSE note[k]]
  BY DEF sourceChanged, threadVars
<1>2. Upwards /\ \A p \in Post : SameThread(post, post', p)
  BY <1>1, NothingNew DEF ThreadsSame
<1>3. ASSUME NEW k \in Texts
      PROVE  /\ note'[k].sources \subseteq Cited(k)
             /\ Kept(k)
  <2>1. k \in JobKey /\ k \in NoteKey /\ note[k].sources \subseteq Cited(k)
    BY TextKeys DEF TextInv
  <2>2. SameNote(note[k], note'[k]) /\ (k \in FromPage(s) => note'[k].stale)
    BY <1>1, <2>1 DEF SameNote, IInv, NoteOK, NoteField
  <2>3. job'[k].claimed = job[k].claimed
    BY <1>1, <2>1, Scheduled
  <2>4. /\ draft'[k] = draft[k] \/ draft'[k].crossed
        /\ k \in FromPage(s) /\ job'[k].claimed => draft'[k].crossed
    BY <2>1, <2>3, CrossedIs DEF IInv
  <2>5. <<"page", s>> \in note[k].sources => k \in FromPage(s)
    BY <2>1 DEF FromPage, Cited
  <2>6. \A r \in Page : r # s => page'[r].summary = page[r].summary
    BY <1>1 DEF IInv, PageOK
  <2>7. SaysSame(note[k], post, page, note'[k], post', page', job'[k].claimed, draft'[k])
    BY <1>2, <2>2, <2>4, <2>5, <2>6 DEF SaysSame
  <2>. QED BY <2>1, <2>2, <2>3, <2>4, <2>7 DEF Kept, SameWork, SameNote
<1>. QED BY <1>2, <1>3, TextStep

LEMMA PagesBecomeFresh ==
  ASSUME IInv, JobOK(job), TextInv, NEW pages, NEW h \in Post \cup {0}, PagesBecome(pages, h),
         \A r \in Page : page[r].status # "none" => pages[r].summary = page[r].summary,
         NEW ks, job' = schedule(job, ks)
  PROVE  TextInv'
<1>1. page' = pages /\ post' = post
  BY DEF PagesBecome, threadVars
<1>2. PagesSame /\ ThreadsSame
  BY <1>1, NothingNew DEF PagesSame
<1>3. CASE h = 0
  <2>1. note' = note /\ draft' = draft
    BY <1>3 DEF PagesBecome
  <2>2. \A k \in Texts : job'[k].claimed = job[k].claimed
    BY TextKeys, Scheduled
  <2>. QED BY <1>2, <2>1, <2>2, NotesAlone DEF SameWork
<1>4. CASE h # 0
  <2>. DEFINE ms == syncCombined(note, Related(link, pages, h), h, FALSE)
  <2>1. note' = ms /\ draft' = Crossed(Requeued(note'))
    BY <1>4 DEF PagesBecome
  <2>2. h \in Post /\ NoteOK(note)
    BY <1>4 DEF IInv
  <2>. DEFINE Synced(ns) ==
                 \A k \in Texts : /\ ns[k] = note[k] \/ ns[k].state # "active" \/ ns[k].stale
                                  /\ note[k].sources \subseteq Cited(k) => ns[k].sources \subseteq Cited(k)
  <2>3. Synced(ms)
    <3>1. ASSUME NEW new PROVE Synced(syncCombined(note, Related(link, pages, h), h, new))
      BY <2>2, SyncFresh
    <3>. HIDE DEF Synced
    <3>. QED BY <3>1, Zenon
  <2>. HIDE DEF ms
  <2>4. Synced(note')
    BY <2>1, <2>3
  <2>. QED BY <1>2, <2>1, <2>4, SyncedFresh DEF TextInv
<1>. QED BY <1>3, <1>4

LEMMA PeopleFresh ==
  ASSUME IInv, JobOK(job), TextInv, NEW s \in Page,
         \/ \E h \in Post \cup {0}, via \in {"described", "member", "mod", "seed"}, list \in BOOLEAN :
               AddSource(s, via, list, h)
         \/ \E h \in Post : DetachSource(s, h)
         \/ ApproveSources(s) \/ RemoveSource(s) \/ RestoreSource(s) \/ Recheck(s)
         \/ \E on \in BOOLEAN : AllowDomain(s, on)
         \/ \E to \in {0, web[s] + 1} : WebChanges(s, to)
  PROVE  TextInv'
<1>0. DOMAIN page = Page /\ DOMAIN page[s] = PageField
  BY DEF IInv, PageOK
<1>1. ASSUME NEW h \in Post \cup {0}, NEW via, NEW list, AddSource(s, via, list, h) PROVE TextInv'
  <2>. DEFINE known == page[s].status # "none"
              row == IF known THEN page[s] ELSE NewRow(via, list, s \in allowed)
              pages == [page EXCEPT ![s] = [row EXCEPT !.placed = row.placed \cup ({h} \ {0})]]
  <2>1. PagesBecome(pages, h) /\ \E ks : job' = schedule(job, ks)
    BY <1>1 DEF AddSource
  <2>2. \A r \in Page : page[r].status # "none" => pages[r].summary = page[r].summary
    BY <1>0 DEF PageField
  <2>. HIDE DEF pages
  <2>. QED BY <2>1, <2>2, PagesBecomeFresh
<1>2. ASSUME NEW h \in Post, DetachSource(s, h) PROVE TextInv'
  <2>. DEFINE pages == [page EXCEPT ![s].placed = @ \ {h}]
  <2>1. PagesBecome(pages, h) /\ job' = schedule(job, Requeued(note'))
    BY <1>2 DEF DetachSource
  <2>2. \A r \in Page : pages[r].summary = page[r].summary
    BY <1>0 DEF PageField
  <2>. HIDE DEF pages
  <2>. QED BY <2>1, <2>2, PagesBecomeFresh
<1>3. ASSUME NEW row, NEW ks, PageStays(s, row, schedule(job, ks)), row.summary = page[s].summary, draft' = draft
      PROVE  TextInv'
  <2>1. \A k \in Texts : schedule(job, ks)[k].claimed = job[k].claimed
    BY TextKeys, Scheduled
  <2>. QED BY <1>3, <2>1, PageStaysFresh DEF SameWork
<1>4. CASE ApproveSources(s)
  <2>. DEFINE on == [page[s] EXCEPT !.status = "active"]
              clear == [on EXCEPT !.cleared = TRUE]
              row == sourceIndex(clear)
  <2>1. [page[s] EXCEPT !.status = "active", !.cleared = TRUE] = clear
    BY <1>0 DEF PageField
  <2>2. DOMAIN clear = PageField /\ clear.summary = page[s].summary
    BY <1>0 DEF PageField
  <2>3. /\ PageStays(s, row, schedule(job, IF page[s].summary = 0 THEN {SourceJob(s)} ELSE {}))
        /\ draft' = draft
    BY <1>4, <2>1 DEF ApproveSources
  <2>. HIDE DEF clear
  <2>4. row.summary = page[s].summary
    BY <2>2 DEF sourceIndex, PageField
  <2>. QED BY <1>3, <2>3, <2>4
<1>5. CASE RestoreSource(s)
  <2>. DEFINE row == [page[s] EXCEPT !.status = "active", !.version = @ + 1, !.cleared = TRUE]
  <2>1. row.summary = page[s].summary
    BY <1>0 DEF PageField
  <2>2. PageStays(s, row, schedule(job, {<<"source", s, 0>>})) /\ draft' = draft
    BY <1>5 DEF RestoreSource
  <2>. HIDE DEF row
  <2>. QED BY <1>3, <2>1, <2>2
<1>6. CASE Recheck(s)
  BY <1>3, <1>6 DEF Recheck
<1>7. CASE RemoveSource(s)
  <2>. DEFINE row == [page[s] EXCEPT !.status = "removed", !.summary = 0, !.hash = 0, !.index = FALSE]
  <2>1. sourceChanged(s, row, job) /\ draft' = Crossed(FromPage(s))
    BY <1>7 DEF RemoveSource
  <2>. HIDE DEF row
  <2>. QED BY <2>1, PageChangedFresh
<1>8. ASSUME UNCHANGED <<threadVars, link, note, page, jobVars>> PROVE TextInv'
  BY <1>8, NothingNew, PagesStay, NotesAlone DEF threadVars, jobVars, SameWork
<1>9. ASSUME (\E on \in BOOLEAN : AllowDomain(s, on)) \/ (\E to \in {0, web[s] + 1} : WebChanges(s, to))
      PROVE  TextInv'
  BY <1>8, <1>9 DEF AllowDomain, WebChanges
<1>. QED BY <1>1, <1>2, <1>4, <1>5, <1>6, <1>7, <1>9

(***************************************************************************)
(* The worker                                                              *)
(***************************************************************************)
LEMMA CountedFinite ==
  ASSUME NEW k, NEW S, S \subseteq Cited(k)
  PROVE  IsFiniteSet(Counted(S)) /\ \A s \in Counted(S) : s[2] \in Post /\ s = <<"post", s[2]>>
<1>1. IsFiniteSet(Post)
  BY FS_Subset, PostAssumption
<1>2. \A s \in Counted(S) : s[2] \in Post /\ s = <<"post", s[2]>>
  BY DEF Counted, Cited
<1>. DEFINE f == [s \in Counted(S) |-> s[2]]
<1>3. f \in Injection(Counted(S), Post)
  BY <1>2 DEF Injection, IsInjective
<1>. HIDE DEF f
<1>. QED BY <1>1, <1>2, <1>3, FS_Injection

(* What a worker reads of a note's sources is what they say.               *)
LEMMA SaysWhatIs ==
  ASSUME NEW S
  PROVE  Cites(Says(S), S, page) /\ \A p \in Post : <<"post", p>> \in S => Tells(Says(S), post, p)
<1>1. ASSUME NEW f \in Says(S) PROVE f[1] \in S /\ (f[1][1] = "page" => page[f[1][2]].summary = f[2])
  BY DEF Says
<1>2. ASSUME NEW p \in Post, <<"post", p>> \in S PROVE Tells(Says(S), post, p)
  <2>1. \A f \in Says(S) : f[1] = <<"post", p>> => f = <<<<"post", p>>, TextOf(post, p)>> /\ post[p].shown
    BY DEF Says, ThreadText, TextOf
  <2>2. post[p].shown => <<<<"post", p>>, TextOf(post, p)>> \in Says(S)
    BY <1>2 DEF Says, ThreadText, TextOf
  <2>3. CASE post[p].shown
    BY <2>1, <2>2, <2>3 DEF Tells
  <2>4. CASE ~post[p].shown
    BY <2>1, <2>4 DEF Tells
  <2>. QED BY <2>3, <2>4
<1>. QED BY <1>1, <1>2 DEF Cites

(* One note is worked on.                                                  *)
LEMMA OneNote ==
  ASSUME IInv, JobOK(job), TextInv, NEW k \in Texts, post' = post, page' = page,
         \A x \in Texts : x # k => note'[x] = note[x] /\ job'[x] = job[x] /\ draft'[x] = draft[x],
         note'[k].sources = note[k].sources, Fresh(k)
  PROVE  TextInv'
<1>1. Upwards /\ \A p \in Post : SameThread(post, post', p)
  BY NothingNew DEF ThreadsSame
<1>2. ASSUME NEW x \in Texts
      PROVE  /\ note'[x].sources \subseteq Cited(x)
             /\ Again(note'[x], job'[x].claimed, draft'[x]) \/ Kept(x) \/ Fresh(x)
  <2>1. CASE x = k
    BY <2>1 DEF TextInv
  <2>2. CASE x # k
    BY <1>1, <2>2 DEF TextInv, Kept, SameNote, SameWork, SaysSame
  <2>. QED BY <2>1, <2>2
<1>. QED BY <1>1, <1>2, TextStep

LEMMA ClaimFresh ==
  ASSUME IInv, JobOK(job), TextInv, NEW k \in JobKey, ClaimNote(k)
  PROVE  TextInv'
<1>. DEFINE d == [NoDraft EXCEPT !.version = noteVersion(k)]
<1>1. /\ k \in Texts /\ UNCHANGED <<post, note, page>>
      /\ job' = [job EXCEPT ![k].claimed = TRUE] /\ draft' = [draft EXCEPT ![k] = d]
  BY DEF ClaimNote, Claim, Texts, threadVars, pageVars
<1>2. d.version = noteVersion(k) /\ ~d.ready
  BY DEF NoDraft
<1>. HIDE DEF d
<1>3. /\ draft'[k] = d
      /\ \A x \in JobKey : x # k => job'[x] = job[x] /\ draft'[x] = draft[x]
  BY <1>1 DEF IInv, DraftOK, JobOK
<1>. DEFINE S == Counted(note[k].sources)
            vs == [p \in Post |-> post[p].version]
<1>4. IsFiniteSet(S) /\ (\A s \in S : s[2] \in Post) /\ TextFresh(note[k], post, page)
      /\ \A p \in Post : post[p].version \in Nat
  BY <1>1, CountedFinite DEF TextInv
<1>5. Tally(vs, S, noteVersion(k))
  BY <1>4, VersionIs
<1>6. vs \in [Post -> Nat] /\ \A p \in Post : vs[p] <= post[p].version
  BY <1>4
<1>. HIDE DEF vs
<1>7. ReadFresh(note[k], post, page, d, vs)
  BY <1>2, <1>5, <1>6 DEF ReadFresh
<1>8. Fresh(k)
  BY <1>1, <1>3, <1>4, <1>6, <1>7 DEF Fresh, DraftFresh
<1>. QED BY <1>1, <1>3, <1>8, TextKeys, OneNote

LEMMA ReadNoteFresh ==
  ASSUME IInv, JobOK(job), TextInv, NEW k \in JobKey, ReadNote(k)
  PROVE  TextInv'
<1>. DEFINE skip == note[k].state # "active"
            seen == Says(note[k].sources)
<1>1. /\ k \in Texts /\ UNCHANGED <<post, note, page, job>> /\ job[k].claimed
      /\ draft' = [draft EXCEPT ![k].ready = TRUE, ![k].skip = skip, ![k].seen = seen]
  BY DEF ReadNote, Texts, threadVars, pageVars
<1>. HIDE DEF skip
<1>2. /\ draft'[k].skip = skip /\ draft'[k].seen = seen /\ draft'[k].version = draft[k].version
      /\ draft'[k].crossed = draft[k].crossed
      /\ \A x \in JobKey : x # k => draft'[x] = draft[x]
  BY <1>1 DEF IInv, DraftOK, DraftField
<1>3. TextFresh(note[k], post, page) /\ DraftFresh(note[k], post, page, job[k].claimed, draft[k])
  BY <1>1 DEF TextInv
<1>4. ASSUME note[k].state = "active", ~draft'[k].crossed
      PROVE  \E vs \in [Post -> Nat] : ReadFresh(note[k], post, page, draft'[k], vs)
  <2>1. PICK vs \in [Post -> Nat] : ReadFresh(note[k], post, page, draft[k], vs)
    BY <1>1, <1>2, <1>3, <1>4 DEF DraftFresh
  <2>2. ~skip /\ Cites(seen, note[k].sources, page)
        /\ \A p \in Post : <<"post", p>> \in note[k].sources => Tells(seen, post, p)
    BY <1>4, SaysWhatIs DEF skip
  <2>. HIDE DEF seen
  <2>. QED BY <1>2, <2>1, <2>2 DEF ReadFresh
<1>5. Fresh(k)
  BY <1>1, <1>3, <1>4 DEF Fresh, DraftFresh
<1>. QED BY <1>1, <1>2, <1>5, TextKeys, OneNote

(* A text that is accepted is made from what its sources say now: as the   *)
(* sum is the same, no thread has changed.                                 *)
LEMMA SetNoteFresh ==
  ASSUME IInv, JobOK(job), TextInv, NEW k \in JobKey, SetNote(k)
  PROVE  TextInv'
<1>. DEFINE from == IF draft[k].skip THEN note[k].from ELSE draft[k].seen
            crossed == draft[k].crossed
            S == note[k].sources
<1>1. /\ k \in Texts /\ UNCHANGED <<post, page>> /\ job[k].claimed /\ draft[k].ready
      /\ job' = [job EXCEPT ![k] = [open |-> ~Fits(k), claimed |-> FALSE]]
      /\ draft' = [draft EXCEPT ![k] = NoDraft]
      /\ note' = [note EXCEPT ![k] = [@ EXCEPT !.stale = FALSE, !.mixed = crossed, !.from = from]]
  BY DEF SetNote, finishJob, Texts, threadVars, pageVars
<1>6. draft[k].version = noteVersion(k)
  <2>1. k[1] \in {"link", "combined"} /\ k \notin SummaryNote
    BY <1>1, Keys DEF Texts
  <2>. QED BY <1>1, <2>1 DEF SetNote, Fits, Current, Texts
<1>2. /\ ~job'[k].claimed
      /\ \A x \in JobKey : x # k => job'[x] = job[x] /\ draft'[x] = draft[x]
  BY <1>1 DEF IInv, DraftOK, JobOK
<1>. HIDE DEF from, crossed
<1>3. /\ note'[k].sources = S /\ note'[k].mixed = crossed /\ note'[k].from = from
      /\ note'[k].state = note[k].state
      /\ \A x \in NoteKey : x # k => note'[x] = note[x]
  BY <1>1, TextKeys DEF IInv, NoteOK, NoteField
<1>4. ASSUME note[k].state = "active", ~crossed
      PROVE  Cites(from, S, page) /\ \A p \in Post : <<"post", p>> \in S => Tells(from, post, p)
  <2>1. DraftFresh(note[k], post, page, job[k].claimed, draft[k])
    BY <1>1 DEF TextInv
  <2>2. PICK vs \in [Post -> Nat] : ReadFresh(note[k], post, page, draft[k], vs)
    BY <1>1, <1>4, <2>1 DEF DraftFresh, crossed
  <2>3. /\ \A p \in Post : vs[p] <= post[p].version
        /\ Tally(vs, Counted(S), draft[k].version)
        /\ ~draft[k].skip /\ Cites(draft[k].seen, S, page)
        /\ \A p \in Post : <<"post", p>> \in S /\ vs[p] = post[p].version => Tells(draft[k].seen, post, p)
    BY <1>1, <2>2 DEF ReadFresh
  <2>. DEFINE ws == [p \in Post |-> post[p].version]
  <2>4. /\ IsFiniteSet(Counted(S)) /\ \A s \in Counted(S) : s[2] \in Post
        /\ \A p \in Post : post[p].version \in Nat
    BY <1>1, CountedFinite DEF TextInv
  <2>5. Tally(ws, Counted(S), noteVersion(k))
    BY <2>4, VersionIs
  <2>6. \A p \in Post : ws[p] = post[p].version
    OBVIOUS
  <2>. HIDE DEF ws
  <2>7. \A s \in Counted(S) : vs[s[2]] = ws[s[2]]
    <3>1. \A s \in Counted(S) : vs[s[2]] \in Nat /\ ws[s[2]] \in Nat /\ vs[s[2]] <= ws[s[2]]
      BY <2>3, <2>4, <2>6
    <3>2. Tally(vs, Counted(S), noteVersion(k))
      BY <1>6, <2>3
    <3>. HIDE DEF S
    <3>. QED BY <2>4, <2>5, <3>1, <3>2, EqualSums
  <2>8. ASSUME NEW p \in Post, <<"post", p>> \in S PROVE vs[p] = post[p].version
    <3>1. <<"post", p>> \in Counted(S)
      BY <2>8 DEF Counted
    <3>. QED BY <2>6, <2>7, <3>1
  <2>. QED BY <2>3, <2>8 DEF from
<1>5. Fresh(k)
  BY <1>1, <1>2, <1>3, <1>4 DEF Fresh, TextFresh, DraftFresh
<1>. QED BY <1>1, <1>2, <1>3, <1>5, TextKeys, OneNote

(* Other work, and an answer that is refused, leaves these notes alone.    *)
LEMMA OtherWorkFresh ==
  ASSUME IInv, JobOK(job), TextInv, NEW k \in JobKey,
         \/ Refuse(k) \/ ClaimSummary(k) \/ ReadComments(k) \/ ClaimSource(k)
         \/ \E covers, useful \in SUBSET Comment : SetSummary(k, covers, useful)
         \/ \E blocked \in BOOLEAN : FetchPage(k, blocked)
  PROVE  TextInv'
<1>0. /\ \A x \in Texts : x \in JobKey /\ x \in NoteKey /\ x \notin SummaryNote
      /\ \A x \in Texts : x[1] \notin {"source", "seed"}
  BY Keys DEF Texts
<1>1. ASSUME UNCHANGED <<post, page>>, \A x \in Texts : note'[x] = note[x], NEW d, draft' = [draft EXCEPT ![k] = d],
             \A x \in JobKey : x # k => job'[x] = job[x], k \in Texts => ~job'[k].claimed
      PROVE  TextInv'
  <2>1. \A x \in JobKey : x # k => draft'[x] = draft[x]
    BY <1>1 DEF IInv, DraftOK
  <2>2. \A x \in Texts : SameWork(job[x].claimed, draft[x], job'[x].claimed, draft'[x])
    BY <1>0, <1>1, <2>1 DEF SameWork
  <2>. QED BY <1>1, <2>2, NothingNew, PagesStay, NotesAlone
<1>2. ASSUME finishJob(k)
      PROVE  /\ draft' = [draft EXCEPT ![k] = NoDraft] /\ ~job'[k].claimed
             /\ \A x \in JobKey : x # k => job'[x] = job[x]
  BY <1>2 DEF finishJob, JobOK
<1>3. ASSUME NEW d, Claim(k, d)
      PROVE  draft' = [draft EXCEPT ![k] = d] /\ \A x \in JobKey : x # k => job'[x] = job[x]
  BY <1>3 DEF Claim, JobOK
<1>4. CASE Refuse(k)
  BY <1>1, <1>2, <1>4 DEF Refuse, threadVars, pageVars
<1>5. CASE ClaimSummary(k)
  <2>. DEFINE d == [NoDraft EXCEPT !.version = post[Long].version]
  <2>1. Claim(k, d) /\ k \notin Texts /\ UNCHANGED <<post, page, note>>
    BY <1>0, <1>5 DEF ClaimSummary, threadVars, pageVars
  <2>. HIDE DEF d
  <2>. QED BY <1>1, <1>3, <2>1
<1>6. CASE ClaimSource(k)
  <2>1. /\ \E d : Claim(k, d)
        /\ k \notin Texts /\ UNCHANGED <<post, page, note>>
    BY <1>0, <1>6 DEF ClaimSource, threadVars, pageVars
  <2>. QED BY <1>1, <1>3, <2>1
<1>7. CASE ReadComments(k)
  <2>. DEFINE one == [draft EXCEPT ![k].ready = TRUE]
              skip == ~post[Long].shown \/ Cardinality(ShownComments) < SummaryMin
              d == [[one[k] EXCEPT !.seen = ShownComments] EXCEPT !.skip = skip]
  <2>1. /\ k \notin Texts /\ UNCHANGED <<post, page, note, job>>
        /\ draft' = [draft EXCEPT ![k].ready = TRUE, ![k].seen = ShownComments, ![k].skip = skip]
    BY <1>0, <1>7 DEF ReadComments, threadVars, pageVars
  <2>. HIDE DEF skip
  <2>2. draft' = [draft EXCEPT ![k] = d]
    BY <2>1 DEF IInv, DraftOK, DraftField
  <2>. HIDE DEF d
  <2>. QED BY <1>1, <2>1, <2>2
<1>8. ASSUME NEW blocked \in BOOLEAN, FetchPage(k, blocked) PROVE TextInv'
  <2>1. /\ k \notin Texts /\ UNCHANGED <<post, page, note, job>>
        /\ draft' = [draft EXCEPT ![k] = Fetched(k, blocked)]
    BY <1>0, <1>8 DEF FetchPage, threadVars, pageVars
  <2>. QED BY <1>1, <2>1
<1>9. ASSUME NEW covers, NEW useful, SetSummary(k, covers, useful) PROVE TextInv'
  <2>1. /\ k \notin Texts /\ UNCHANGED <<post, page>> /\ finishJob(k)
        /\ note' = [note EXCEPT ![k] = setSummaryNote(@, ~draft[k].skip, covers)]
    BY <1>0, <1>9 DEF SetSummary, threadVars, pageVars
  <2>2. \A x \in Texts : note'[x] = note[x]
    BY <1>0, <2>1 DEF IInv, NoteOK
  <2>. QED BY <1>1, <1>2, <2>1, <2>2
<1>. QED BY <1>4, <1>5, <1>6, <1>7, <1>8, <1>9

LEMMA SetSourceFresh ==
  ASSUME IInv, JobOK(job), TextInv, NEW s \in Page, SetSource(s)
  PROVE  TextInv'
<1>. DEFINE k == <<"source", s, 0>>
            answer == Answered(page[s], draft[k].out, CHOOSE c \in draft[k].seen : TRUE)
            row == IF Ignored(s) THEN page[s] ELSE sourceIndex(answer)
            jobs == [job EXCEPT ![k] = [open |-> FALSE, claimed |-> FALSE]]
<1>1. k \in JobKey /\ k \notin Texts
  BY Keys DEF Texts
<1>2. IF row.summary # page[s].summary
      THEN sourceChanged(s, row, jobs) /\ draft' = [Crossed(FromPage(s)) EXCEPT ![k] = NoDraft]
      ELSE PageStays(s, row, jobs) /\ draft' = [draft EXCEPT ![k] = NoDraft]
  BY DEF SetSource
<1>. HIDE DEF row, k
<1>3. JobOK(jobs) /\ \A x \in Texts : jobs[x].claimed = job[x].claimed
  BY <1>1, TextKeys DEF JobOK
<1>. HIDE DEF jobs
<1>4. CASE row.summary # page[s].summary
  <2>1. DOMAIN Crossed(FromPage(s)) = JobKey
    BY DEF Crossed
  <2>2. sourceChanged(s, row, jobs) /\ \A x \in Texts : draft'[x] = Crossed(FromPage(s))[x]
    BY <1>1, <1>2, <1>4, <2>1, TextKeys
  <2>. QED BY <1>3, <2>2, PageChangedFresh
<1>5. CASE row.summary = page[s].summary
  <2>1. PageStays(s, row, jobs) /\ \A x \in Texts : draft'[x] = draft[x]
    BY <1>1, <1>2, <1>5, TextKeys DEF IInv, DraftOK
  <2>. QED BY <1>3, <1>5, <2>1, PageStaysFresh DEF SameWork
<1>. QED BY <1>4, <1>5

LEMMA AddSeedsFresh ==
  ASSUME IInv, JobOK(job), TextInv, NEW s \in Page, NEW found, AddSeeds(s, found)
  PROVE  TextInv'
<1>. DEFINE k == <<"seed", s, 0>>
            new == {f \in found \ {s} : page[f].status = "none"}
            problem == draft[k].out = "problem"
            jobs == [job EXCEPT ![k] = [open |-> FALSE, claimed |-> FALSE]]
<1>1. k \in JobKey /\ k \notin Texts
  BY Keys DEF Texts
<1>2. /\ page' = [f \in Page |-> IF f \in new THEN NewRow("seed", FALSE, FALSE)
                                 ELSE IF f = s THEN [page[s] EXCEPT !.problem = problem] ELSE page[f]]
      /\ draft' = [draft EXCEPT ![k] = NoDraft] /\ \E ks : job' = schedule(jobs, ks)
      /\ UNCHANGED <<post, note>>
  BY DEF AddSeeds, threadVars
<1>3. [page[s] EXCEPT !.problem = problem].summary = page[s].summary
  BY DEF IInv, PageOK, PageField
<1>. HIDE DEF problem, k
<1>4. PagesSame
  BY <1>2, <1>3 DEF PagesSame
<1>5. JobOK(jobs) /\ \A x \in Texts : jobs[x].claimed = job[x].claimed /\ draft'[x] = draft[x]
  BY <1>1, <1>2, TextKeys DEF JobOK, IInv, DraftOK
<1>. HIDE DEF jobs
<1>6. \A x \in Texts : job'[x].claimed = job[x].claimed
  BY <1>2, <1>5, TextKeys, Scheduled
<1>. QED BY <1>2, <1>4, <1>5, <1>6, NothingNew, NotesAlone DEF SameWork

(***************************************************************************)
(* Every behaviour                                                         *)
(***************************************************************************)
LEMMA TextInit == Init => TextInv
<1>. SUFFICES ASSUME Init PROVE TextInv
  OBVIOUS
<1>1. \A p \in Post : post[p].version \in Nat
  BY DEF Init, NoPost
<1>2. \A k \in Texts : note[k].state = "none" /\ note[k].sources = {}
  BY TextKeys DEF Init, NoNote
<1>. QED BY <1>1, <1>2 DEF TextInv, TextFresh, DraftFresh

LEMMA TextNext == IInv /\ JobOK(job) /\ TextInv /\ [Next]_vars => TextInv'
<1>. SUFFICES ASSUME IInv, JobOK(job), TextInv, [Next]_vars PROVE TextInv'
  OBVIOUS
<1>1. ASSUME linkPost \/ unlinkPost PROVE TextInv'
  BY <1>1, LinksFresh DEF linkPost, unlinkPost
<1>2. ASSUME movePost \/ moveOutPost PROVE TextInv'
  BY <1>2, ThreadsFresh DEF movePost, moveOutPost
<1>3. ASSUME reverseNudge \/ removeNote PROVE TextInv'
  BY <1>3, UndoneFresh DEF reverseNudge, removeNote
<1>4. ASSUME addSource PROVE TextInv'
  <2>1. PICK s \in Page, h \in Post \cup {0}, via \in {"described", "member", "mod", "seed"}, list \in BOOLEAN :
          AddSource(s, via, list, h)
    BY <1>4 DEF addSource
  <2>. QED BY <2>1, PeopleFresh
<1>5. ASSUME sourceActions PROVE TextInv'
  BY <1>5, PeopleFresh DEF sourceActions
<1>6. ASSUME \/ \E p \in Post : ChangeThread(p) \/ ChangeStatus(p)
             \/ \E c \in Comment, to \in {"shown", "hidden"} : ChangeComment(c, to)
      PROVE  TextInv'
  BY <1>6, ThreadsFresh
<1>7. ASSUME Others PROVE TextInv'
  <2>1. ASSUME NEW p \in Post, NEW q \in Post, SetCheck(p, q) PROVE TextInv'
    BY <2>1, LinksFresh
  <2>2. ASSUME NEW s \in Page, Recheck(s) \/ WebChanges(s, 0) \/ WebChanges(s, web[s] + 1) PROVE TextInv'
    <3>1. Recheck(s) \/ \E to \in {0, web[s] + 1} : WebChanges(s, to)
      BY <2>2
    <3>. QED BY <3>1, PeopleFresh
  <2>. QED BY <1>7, <2>1, <2>2 DEF Others
<1>8. ASSUME NEW k \in JobKey, Read(k) PROVE TextInv'
  BY <1>8, ClaimFresh, ReadNoteFresh, OtherWorkFresh DEF Read
<1>9. ASSUME NEW k \in JobKey, Write(k) PROVE TextInv'
  BY <1>9, SetNoteFresh, OtherWorkFresh, SetSourceFresh, AddSeedsFresh DEF Write
<1>10. CASE UNCHANGED vars
  BY <1>10, NothingNew, PagesStay, NotesAlone DEF vars, SameWork
<1>. QED BY <1>1, <1>2, <1>3, <1>4, <1>5, <1>6, <1>7, <1>8, <1>9, <1>10 DEF Next, People

(* A note that shows and is not waiting says what its threads and pages    *)
(* say now (cmd/links.go threadChanged and noteVersion, cmd/jobs.go        *)
(* finishJob, cmd/sources.go sourceChanged): an answer is refused unless   *)
(* the versions of its threads add up to what they did when it was begun,  *)
(* and versions only go up.                                                *)
THEOREM NotesAreFresh == Spec => []Refreshed
<1>1. TextInv => Refreshed
  <2>. SUFFICES ASSUME TextInv, NEW k \in Texts, note[k].state = "active", ~note[k].stale, ~note[k].mixed
                PROVE  /\ {f \in note[k].from : f[1][1] = "post"}
                          = {f \in Says(note[k].sources) : f[1][1] = "post"}
                       /\ \A f \in note[k].from : f[1][1] = "page" => page[f[1][2]].summary = f[2]
    BY DEF Refreshed, WrittenNow, Texts
  <2>. DEFINE S == note[k].sources
              from == note[k].from
  <2>1. S \subseteq Cited(k) /\ Cites(from, S, page)
        /\ \A p \in Post : <<"post", p>> \in S => Tells(from, post, p)
    BY DEF TextInv, TextFresh
  <2>2. Cites(Says(S), S, page) /\ \A p \in Post : <<"post", p>> \in S => Tells(Says(S), post, p)
    BY SaysWhatIs
  <2>3. \A s \in S : s[1] = "post" => s[2] \in Post /\ s = <<"post", s[2]>>
    BY <2>1 DEF Cited
  <2>. HIDE DEF S, from
  <2>4. ASSUME NEW A, NEW B, Cites(A, S, page),
               \A p \in Post : <<"post", p>> \in S => Tells(A, post, p) /\ Tells(B, post, p),
               NEW f \in A, f[1][1] = "post"
        PROVE  f \in B
    <3>1. PICK p \in Post : f[1] = <<"post", p>> /\ f[1] \in S
      BY <2>3, <2>4 DEF Cites
    <3>2. {g \in A : g[1] = <<"post", p>>} = {g \in B : g[1] = <<"post", p>>}
      BY <2>4, <3>1 DEF Tells
    <3>. QED BY <2>4, <3>1, <3>2
  <2>5. {f \in from : f[1][1] = "post"} = {f \in Says(S) : f[1][1] = "post"}
    BY <2>1, <2>2, <2>4
  <2>6. \A f \in from : f[1][1] = "page" => page[f[1][2]].summary = f[2]
    BY <2>1 DEF Cites
  <2>. QED BY <2>5, <2>6 DEF S, from
<1>2. Init => IInv /\ PagesInv /\ TextInv
  BY InitInv, PagesInit, TextInit
<1>3. IInv /\ PagesInv /\ TextInv /\ [Next]_vars => (IInv /\ PagesInv /\ TextInv)'
  <2>1. PagesInv => JobOK(job)
    BY DEF PagesInv
  <2>. QED BY <2>1, NextInv, PagesNext, TextNext
<1>. QED BY <1>1, <1>2, <1>3, PTL DEF Spec
=============================================================================
