------------------------------ MODULE Sisters -------------------------------
(***************************************************************************)
(* Two groups that pair, and what their logs tell one another: the pairing *)
(* in site.db (internal/cmd/sisters.go), and in each group's file its side *)
(* of the link between two posts, one in each, with the note there that is *)
(* written from the other's post (sisters.go, crosslog.go, linkNote in     *)
(* links.go).                                                              *)
(*                                                                         *)
(* The three logs are independent.  A command of one reaches another       *)
(* through its outbox: in the order sent, at least once, any time later    *)
(* (module Outbox).  A check reads site.db and the other group's file,     *)
(* asks the model, and submits its result some time afterwards.            *)
(***************************************************************************)
EXTENDS Naturals, Sequences

CONSTANTS
    Group,          \* the two groups; each has the one post this is about
    Nobody,
    Public,         \* the groups whose posts may be cited (auth.CanCite)
    MaxSends,       \* bound: follow-ups sent
    MaxRepeats      \* bound: follow-ups delivered again

ASSUME GroupAssumption == \E g, h \in Group : g # h /\ Group = {g, h}
ASSUME SistersBounds ==
    /\ Nobody # "active" /\ {Nobody, "active"} \cap Group = {} /\ Public \subseteq Group
    /\ MaxSends \in Nat /\ MaxRepeats \in Nat

VARIABLES
    pair,       \* group_pairs: "active", the group that proposed, or Nobody
    ai,         \* the groups that use AI, as site.db has it
    shown,      \* the groups whose post is shown
    side,       \* per group: its sister_links row ("none", "active", "rejected"), and
                \* its note (also "removed"; "rejected": with a removed_by)
    found,      \* per group: a check of its post has a match to submit
    drops,      \* per group: DropSisterLinks on their way from the site log
    box,        \* per group: follow-ups on their way from its sister
    had,        \* per group: follow-ups of either kind it was given so far
    sends, repeats,
    agreed,     \* history: groups whose owners said yes since the pair ended
    late        \* history: a check's result came after its match was hidden

vars == <<pair, ai, shown, side, found, drops, box, had, sends, repeats, agreed, late>>
siteVars == <<pair, ai, agreed>>

Other(g) == CHOOSE h \in Group : h # g

Init ==
    /\ pair = Nobody /\ ai = Group /\ shown = Group
    /\ side = [g \in Group |-> [link |-> "none", note |-> "none"]]
    /\ found = [g \in Group |-> FALSE]
    /\ drops = [g \in Group |-> 0] /\ box = [g \in Group |-> <<>>]
    /\ had = [g \in Group |-> {}] /\ sends = 0 /\ repeats = 0
    /\ agreed = {} /\ late = FALSE

Send(g, m) ==
    /\ sends < MaxSends /\ sends' = sends + 1
    /\ box' = [box EXCEPT ![g] = Append(@, m)]

-----------------------------------------------------------------------------
(* What a command does to a group's side of the link. *)

(* A mistake: a rejected link can be made again. *)
LinkedAgain(g, s) ==
    [link |-> "active", note |-> IF Other(g) \in Public THEN "active" ELSE s.note]

(* putSisterLink, then linkNote if this side may cite the other: a note    *)
(* that was taken down is active again.                                    *)
Linked(g, s) ==
    IF s.link = "rejected" THEN s
    ELSE [link |-> "active", note |-> IF Other(g) \in Public THEN "active" ELSE s.note]

Rejected(s) == [link |-> "rejected", note |-> IF s.note = "none" THEN "none" ELSE "rejected"]

(* A mistake: rejected rows are deleted with the rest. *)
DroppedAll(s) == [link |-> "none", note |-> IF s.note = "active" THEN "removed" ELSE s.note]

(* DropSisterLinks: rejected rows stay. *)
Dropped(s) ==
    [link |-> IF s.link = "active" THEN "none" ELSE s.link,
     note |-> IF s.note = "active" THEN "removed" ELSE s.note]

(* PutSisterSide, ShowSisterNotes, and RemoveSisterLink's Echo. *)
Told(g, s, m) ==
    CASE m = "put"    -> IF g \in shown THEN Linked(g, s) ELSE s
      [] m = "hide"   -> IF s.note = "active" THEN [s EXCEPT !.note = "removed"] ELSE s
      [] m = "show"   -> IF s.note = "removed" THEN [s EXCEPT !.note = "active"] ELSE s
      [] m = "reject" -> Rejected(s)
      [] m = "drop"   -> Dropped(s)

-----------------------------------------------------------------------------
(* The pairing: commands of the site log. *)

AskedByOther(g) == pair = Other(g)

ProposeSister(g) ==
    /\ ai = Group /\ pair # "active"
    /\ pair' = IF AskedByOther(g) THEN "active" ELSE g
    /\ agreed' = agreed \cup {g}
    /\ UNCHANGED <<ai, shown, side, found, drops, box, had, sends, repeats, late>>

AnswerSister(g, accept) ==
    /\ AskedByOther(g)
    /\ accept => ai = Group
    /\ pair' = IF accept THEN "active" ELSE Nobody
    /\ agreed' = IF accept THEN agreed \cup {g} ELSE {}
    /\ UNCHANGED <<ai, shown, side, found, drops, box, had, sends, repeats, late>>

EndSister ==
    /\ sends < MaxSends /\ sends' = sends + 1
    /\ pair' = Nobody /\ agreed' = {}
    /\ drops' = [g \in Group |-> drops[g] + 1]
    /\ UNCHANGED <<ai, shown, side, found, box, had, repeats, late>>

(* UpdateSettings and MirrorGroup. *)
SetAI(g) ==
    /\ ai' = IF g \in ai THEN ai \ {g} ELSE ai \cup {g}
    /\ UNCHANGED <<pair, agreed, shown, side, found, drops, box, had, sends, repeats, late>>

-----------------------------------------------------------------------------
(* The groups. *)

(* The worker, checking g's post, finds the other, which is not linked to  *)
(* it yet, and asks SisterRule.                                            *)
FindMatch(g) ==
    /\ ~found[g] /\ {g, Other(g)} \subseteq shown /\ side[g].link = "none"
    /\ pair = "active" /\ ai = Group /\ Public # {}
    /\ found' = [found EXCEPT ![g] = TRUE]
    /\ UNCHANGED <<siteVars, shown, side, drops, box, had, sends, repeats, late>>

(* SetCheck: sisterHere and sendSisterSides.  Nothing for a hidden post, or *)
(* for a link that was rejected.                                           *)
SetCheck(g) ==
    /\ found[g]
    /\ found' = [found EXCEPT ![g] = FALSE]
    /\ late' = (late \/ Other(g) \notin shown)
    /\ IF g \in shown /\ side[g].link # "rejected"
       THEN side' = [side EXCEPT ![g] = Linked(g, @)] /\ Send(Other(g), "put")
       ELSE UNCHANGED <<side, box, sends>>
    /\ UNCHANGED <<siteVars, shown, drops, had, repeats>>

(* A mistake: the sister hears of a post that comes back, not of one that goes. *)
TellSisterShown(g, m) ==
    IF side[g].link = "active" /\ m = "show" THEN Send(Other(g), m) ELSE UNCHANGED <<box, sends>>

(* sendSisterNotes, when the post is linked. *)
TellSister(g, m) ==
    IF side[g].link = "active" THEN Send(Other(g), m) ELSE UNCHANGED <<box, sends>>

(* g's post is hidden or deleted, or shown again (module Items). *)
HidePost(g) ==
    /\ g \in shown
    /\ shown' = shown \ {g}
    /\ TellSister(g, "hide")
    /\ UNCHANGED <<siteVars, side, found, drops, had, repeats, late>>

ShowPost(g) ==
    /\ g \notin shown
    /\ shown' = shown \cup {g}
    /\ TellSister(g, "show")
    /\ UNCHANGED <<siteVars, side, found, drops, had, repeats, late>>

(* RemoveSisterLink, by a moderator of g. *)
RemoveSisterLink(g) ==
    /\ side' = [side EXCEPT ![g] = Rejected(@)]
    /\ Send(Other(g), "reject")
    /\ UNCHANGED <<siteVars, shown, found, drops, had, repeats, late>>

-----------------------------------------------------------------------------
(* The outboxes. *)
Deliver(g) ==
    /\ box[g] # <<>>
    /\ side' = [side EXCEPT ![g] = Told(g, @, Head(box[g]))]
    /\ box' = [box EXCEPT ![g] = Tail(@)]
    /\ had' = [had EXCEPT ![g] = @ \cup {Head(box[g])}]
    /\ UNCHANGED <<siteVars, shown, found, drops, sends, repeats, late>>

DeliverDrop(g) ==
    /\ drops[g] > 0
    /\ side' = [side EXCEPT ![g] = Told(g, @, "drop")]
    /\ drops' = [drops EXCEPT ![g] = @ - 1]
    /\ had' = [had EXCEPT ![g] = @ \cup {"drop"}]
    /\ UNCHANGED <<siteVars, shown, found, box, sends, repeats, late>>

(* One that was delivered before, once more. *)
Repeat(g, m) ==
    /\ repeats < MaxRepeats /\ m \in had[g]
    /\ side' = [side EXCEPT ![g] = Told(g, @, m)]
    /\ repeats' = repeats + 1
    /\ UNCHANGED <<siteVars, shown, found, drops, box, had, sends, late>>

Next ==
    \/ EndSister
    \/ \E g \in Group :
         \/ ProposeSister(g) \/ SetAI(g)
         \/ \E accept \in BOOLEAN : AnswerSister(g, accept)
         \/ FindMatch(g) \/ SetCheck(g) \/ HidePost(g) \/ ShowPost(g) \/ RemoveSisterLink(g)
         \/ Deliver(g) \/ DeliverDrop(g)
         \/ \E m \in had[g] : Repeat(g, m)

Spec == Init /\ [][Next]_vars

-----------------------------------------------------------------------------
Quiet == \A g \in Group : box[g] = <<>> /\ drops[g] = 0

(* The two groups agree in the end.  They are sisters only while an owner  *)
(* of each has said yes since the last time they were not, in whatever     *)
(* order they ask, withdraw, answer and ask again (ProposeSister,          *)
(* AnswerSister, EndSister); and when everything sent has arrived, a link  *)
(* that one side rejected is rejected on the other.                        *)
BothAgreed ==
    /\ pair = "active" => agreed = Group
    /\ Quiet => \A g, h \in Group : side[g].link = "rejected" => side[h].link = "rejected"

(* A link that a moderator took down, on either side, is never made again  *)
(* and its note never shown again: not by a check that was under way, a    *)
(* repeat, a post that is shown again, or a new pairing ("remembered as    *)
(* rejected on both sides, so it's never made again", RemoveSisterLink).   *)
StaysRejected ==
    [][\A g \in Group : side[g].link = "rejected" =>
           side'[g].link = "rejected" /\ side'[g].note # "active"]_vars

(* "Notes in sister groups written from this post stop showing too"        *)
(* (SoftDelete): when everything sent has arrived, a note is active only if *)
(* the post it is written from is shown.  This is so for a post whose own  *)
(* side has the link, as long as nothing came twice and no check's result  *)
(* came late.                                                              *)
NotesFollow ==
    Quiet /\ repeats = 0 /\ ~late =>
        \A g \in Group : side[g].note = "active" /\ side[Other(g)].link = "active"
                           => Other(g) \in shown
=============================================================================
