--------------------------------- MODULE Mail ---------------------------------
(***************************************************************************)
(* Notifications (cmd/engage.go, web/engage.go) and the email about them   *)
(* and about a group's day (web/email.go): one group, and the person whose *)
(* account Accounts has; and the whole of the site.                        *)
(*                                                                         *)
(* notice[i] is the group's notification i: at (its created_at, by the     *)
(* clock of the node the cause was asked of), read and emailed.  History:  *)
(* sent, how often it went out; listed, a page of the bell gathered it;    *)
(* shown, and the page had it; spare, a second email is excused, because a *)
(* pass that had sent it couldn't record it, or two nodes both took        *)
(* themselves for the leader and held it at once; behind, because a leader *)
(* listed it from a copy that had not applied the record yet.              *)
(* file is every state the group's file has been in, as far as the email   *)
(* reads it, and applied[n] how far node n has come with it.               *)
(* pass[n] is what RunMail of node n is in the middle of.                  *)
(***************************************************************************)
EXTENDS Accounts

CONSTANTS
    Quiet, DigestGap,
    PageSize,         \* how many notifications the bell's page shows
    MaxNotices        \* bound: notifications ever made

ASSUME MailAssumption == PageSize \in Nat \ {0} /\ DigestGap \in Nat /\ Quiet \in Nat

VARIABLES notice, member, follows, leads, pass, bell, digest, file, applied
copyVars == <<file, applied>>
mailVars == <<notice, member, follows, leads, pass, bell, digest, copyVars>>
vars == <<hostsVars, accountsVars, mailVars>>

(* stale, history: the digest_sent_at it read was not the last one.        *)
NoPass == [kind |-> "none", phase |-> "none", list |-> {}, upTo |-> 0, at |-> 0, stale |-> FALSE]
Newest(ids) == CHOOSE i \in ids : \A j \in ids : j =< i
Holds(n) == pass[n].list

-----------------------------------------------------------------------------
Filed(rows, marked, joined) ==
    [size |-> Len(rows), read |-> {i \in DOMAIN rows : rows[i].read},
     emailed |-> {i \in DOMAIN rows : rows[i].emailed}, marked |-> marked, member |-> joined]
Copy(n) == file[applied[n]]

(* A command of the group's log was applied, at whichever node it was made. *)
Logged == LET f == Filed(notice', digest'.marked, member')
          IN file' = IF f = file[Len(file)] THEN file ELSE Append(file, f)
CatchUpGroup(n) ==
    /\ applied[n] < Len(file)
    /\ applied' = [applied EXCEPT ![n] = @ + 1]
    /\ UNCHANGED <<notice, member, follows, leads, pass, bell, digest, file, logVars, accountsVars>> /\ Idle

-----------------------------------------------------------------------------
(* notify: only active members are told.                                   *)
notify(at) ==
    IF member /\ Len(notice) < MaxNotices
    THEN Append(notice, [at |-> at, read |-> FALSE, emailed |-> FALSE,
                         sent |-> 0, listed |-> FALSE, shown |-> FALSE,
                         spare |-> FALSE, behind |-> FALSE])
    ELSE notice

(* Somebody else comments: a reply to this person's comment, or on a post  *)
(* they follow; nobody is told twice.  It may be a while on its way.       *)
Comment ==
    /\ Given("Comment")
    /\ \E answers \in BOOLEAN, at \in {now - 1, now} :
         notice' = IF answers \/ follows THEN notify(at) ELSE notice
    /\ UNCHANGED <<member, follows, leads, pass, bell, digest, applied, logVars, accountsVars>>
    /\ Logged

FollowPost ==
    /\ Given("Follow") /\ member /\ follows' = ~follows
    /\ UNCHANGED <<notice, member, leads, pass, bell, digest, copyVars, logVars, accountsVars>>

(* Leaving, or a ban; and coming back.                                     *)
Leave ==
    /\ Given("Leave") /\ member' = ~member
    /\ UNCHANGED <<notice, follows, leads, pass, bell, digest, applied, logVars, accountsVars>>
    /\ Logged

(* profileSave.                                                            *)
SetNotifyPrefs(db, email, daily) == Done([db EXCEPT !.email = email, !.digest = daily])
profileSave(n) ==
    /\ Given("profileSave") /\ user(View(n), <<Bare, View(n).primary>>)
    /\ \E email, daily \in BOOLEAN : Apply(n, LAMBDA db : SetNotifyPrefs(db, email, daily), "once")
    /\ UNCHANGED <<mailVars, accountsVars>>

(* notificationsPage: lists from the node's own copy, then marks read.     *)
bellPage(n) ==
    /\ Given("bell") /\ bell = 0 /\ user(View(n), <<Bare, View(n).primary>>)
    /\ Copy(n).size > 0 /\ bell' = Copy(n).size
    /\ UNCHANGED <<notice, member, follows, leads, pass, digest, copyVars, logVars, accountsVars>>
(* Mistake: opening the page reads everything there is by then.            *)
MarkReadAll(list, upTo) == [i \in DOMAIN list |-> [list[i] EXCEPT !.read = TRUE]]

MarkRead(list, upTo) ==
    [i \in DOMAIN list |-> IF i =< upTo THEN [list[i] EXCEPT !.read = TRUE] ELSE list[i]]
(* What was listed is marked; afterwards the lists of all the person's     *)
(* groups are put together by created_at and cut to one page, which may    *)
(* leave the older of these out, or all.  So does a page that fails, at a  *)
(* later group, or as the answer of this mark is lost.                     *)
OnPage(page, kept) ==
    /\ \A i \in kept, j \in page :
          notice[j].at > notice[i].at \/ (notice[j].at = notice[i].at /\ j >= i) => j \in kept
    /\ kept = page \/ "busy" \in plan.ops
bellShown ==
    /\ bell # 0 /\ bell' = 0
    /\ LET page == {i \in DOMAIN notice : i \in (bell - PageSize + 1) .. bell}
           marked == IF notice[bell].read THEN notice ELSE MarkRead(notice, bell)
       IN \E kept \in SUBSET page :
             /\ OnPage(page, kept)
             /\ notice' = [i \in DOMAIN marked |->
                              [marked[i] EXCEPT !.listed = @ \/ i \in page, !.shown = @ \/ i \in kept]]
    /\ UNCHANGED <<member, follows, leads, pass, digest, applied, logVars, accountsVars>> /\ Idle
    /\ Logged

-----------------------------------------------------------------------------
PendingEmail(f, before) ==
    {i \in (1 .. f.size) \ (f.read \cup f.emailed) : notice[i].at <= before}

(* SendNotices, where the node leads the group's log; what it lists is     *)
(* what its own copy says, which an elected node need not have caught up.  *)
SendNotices(n) ==
    LET list == PendingEmail(Copy(n), now - Quiet)
        both == list \cap UNION {Holds(m) : m \in Node \ {n}}
    IN
    /\ n \in leads /\ pass[n] = NoPass /\ View(n).email
    /\ list # {}
    /\ pass' = [pass EXCEPT ![n] = [NoPass EXCEPT !.kind = "notices", !.phase = "send", !.list = list,
                                                  !.upTo = Newest(list), !.at = now]]
    /\ notice' = [i \in DOMAIN notice |->
                    [notice[i] EXCEPT !.spare = @ \/ i \in both, !.behind = @ \/ (i \in list /\ notice[i].emailed)]]
    /\ UNCHANGED <<member, follows, leads, bell, digest, copyVars, logVars, accountsVars>> /\ Idle

(* SendDigests.  There may be nothing to say; it counts as sent.           *)
SendDigests(n) ==
    /\ n \in leads /\ pass[n] = NoPass /\ View(n).digest /\ Copy(n).member
    /\ "digest" \in plan.ops
    /\ now - Copy(n).marked >= DigestGap
    /\ \E news \in {TRUE, Copy(n).read # 1 .. Copy(n).size} :
         pass' = [pass EXCEPT ![n] = [NoPass EXCEPT !.kind = "digest", !.at = now,
                                        !.stale = Copy(n).marked # digest.marked,
                                        !.phase = IF news THEN "send" ELSE "mark"]]
    /\ digest' = [digest EXCEPT !.spare = @ \/ \E m \in Node \ {n} : pass[m].kind = "digest"]
    /\ UNCHANGED <<notice, member, follows, leads, bell, copyVars, logVars, accountsVars>> /\ Idle

(* The mail server takes it; otherwise it is left for the next pass.       *)
Sent(n) ==
    /\ pass[n].phase = "send"
    /\ pass' = [pass EXCEPT ![n].phase = "mark"]
    /\ notice' = [i \in DOMAIN notice |->
                    IF i \in Holds(n) THEN [notice[i] EXCEPT !.sent = @ + 1] ELSE notice[i]]
    /\ digest' = IF pass[n].kind = "notices" THEN digest
                 ELSE [digest EXCEPT !.sent = pass[n].at,
                                     !.soon = @ \/ (/\ pass[n].at - digest.sent < DigestGap
                                                    /\ ~digest.spare /\ ~pass[n].stale)]
    /\ UNCHANGED <<member, follows, leads, bell, copyVars, logVars, accountsVars>> /\ Idle
NotSent(n) ==
    /\ Given("fail") /\ pass[n].phase = "send"
    /\ pass' = [pass EXCEPT ![n] = NoPass]
    /\ UNCHANGED <<notice, member, follows, leads, bell, digest, copyVars, logVars, accountsVars>>

(* Mistake: the newest one that was sent is left out.                      *)
MarkEmailedBefore(list, upTo) ==
    [i \in DOMAIN list |-> IF i < upTo THEN [list[i] EXCEPT !.emailed = TRUE] ELSE list[i]]

MarkEmailed(list, upTo) ==
    [i \in DOMAIN list |-> IF i =< upTo THEN [list[i] EXCEPT !.emailed = TRUE] ELSE list[i]]
(* The answer waits for the node's own copy; a node that has to pass the   *)
(* command on to another leader gives up that wait after a while.          *)
Mark(n) ==
    /\ pass[n].phase = "mark"
    /\ IF pass[n].kind = "notices"
       THEN notice' = MarkEmailed(notice, pass[n].upTo) /\ UNCHANGED digest
       ELSE digest' = [digest EXCEPT !.marked = pass[n].at] /\ UNCHANGED notice
    /\ pass' = [pass EXCEPT ![n] = NoPass]
    /\ UNCHANGED <<member, follows, leads, bell, logVars, accountsVars>>
    /\ Logged
    /\ \/ applied' = [applied EXCEPT ![n] = Len(file')] /\ Idle
       \/ leads # {n} /\ Given("fail") /\ UNCHANGED applied

(* The node stops, or no log takes the record: the next leader sends those *)
(* again.                                                                  *)
Crash(n) ==
    /\ Given("crash") /\ pass[n] # NoPass
    /\ pass' = [pass EXCEPT ![n] = NoPass]
    /\ notice' = [i \in DOMAIN notice |->
                    IF i \in Holds(n) THEN [notice[i] EXCEPT !.spare = @ \/ pass[n].phase = "mark"] ELSE notice[i]]
    /\ digest' = [digest EXCEPT !.spare = @ \/ (pass[n].kind = "digest" /\ pass[n].phase = "mark")]
    /\ leads' \in {leads, leads \ {n}}
    /\ UNCHANGED <<member, follows, bell, copyVars, logVars, accountsVars>>

(* Another node is elected; the old leader may not know yet, and the new   *)
(* one has all of the log, but need not have applied it to its copy.       *)
Elect(n) ==
    /\ "elect" \in plan.ops /\ n \notin leads
    /\ IF leads = {} THEN Idle ELSE Given("elect")
    /\ leads' = {n} \/ ("both" \in plan.ops /\ leads' = leads \cup {n})
    /\ UNCHANGED <<notice, member, follows, pass, bell, digest, copyVars, logVars, accountsVars>>
StepDown(n) ==
    /\ n \in leads /\ Cardinality(leads) > 1 /\ leads' = leads \ {n}
    /\ UNCHANGED <<notice, member, follows, pass, bell, digest, copyVars, logVars, accountsVars>> /\ Idle

-----------------------------------------------------------------------------
Init ==
    /\ AccountsInit
    /\ notice = <<>> /\ member = TRUE /\ follows = FALSE
    /\ leads = {} /\ pass = [n \in Node |-> NoPass] /\ bell = 0
    /\ digest = [marked |-> -DigestGap, sent |-> -DigestGap, soon |-> FALSE, spare |-> FALSE]
    /\ file = <<Filed(notice, -DigestGap, member)>> /\ applied = [n \in Node |-> 1]

Next ==
    \/ \E h \in Host : Open(h) /\ UNCHANGED mailVars
    \/ \E n \in Node :
         \/ Redirected(n) /\ UNCHANGED mailVars
         \/ Page(n) /\ UNCHANGED mailVars
         \/ startBounce(n) /\ UNCHANGED mailVars
         \/ \E how \in Hows : bounce(n, how) /\ UNCHANGED mailVars
         \/ \E how \in Hows : bounceBack(n, how) /\ UNCHANGED mailVars
         \/ \E how \in Hows : loginSend(n, how) /\ UNCHANGED mailVars
         \/ \E how \in Hows : codeWrong(n, how) /\ UNCHANGED mailVars
         \/ \E how \in Hows : codeCheck(n, how) /\ UNCHANGED mailVars
         \/ \E how \in Hows : linkRedeem(n, how) /\ UNCHANGED mailVars
         \/ \E h \in Handles : welcomeSave(n, h) /\ UNCHANGED mailVars
         \/ logout(n) /\ UNCHANGED mailVars
         \/ Suspend(n) /\ UNCHANGED mailVars
         \/ PurgeSite(n) /\ UNCHANGED mailVars
         \/ OperateSite(n) /\ UNCHANGED mailVars
         \/ Hear(n) /\ UNCHANGED mailVars
         \/ profileSave(n) \/ bellPage(n) \/ SendNotices(n) \/ SendDigests(n)
         \/ Sent(n) \/ NotSent(n) \/ Mark(n) \/ Crash(n) \/ Elect(n) \/ StepDown(n)
         \/ CatchUpGroup(n)
    \/ Tick /\ UNCHANGED mailVars
    \/ Comment \/ FollowPost \/ Leave \/ bellShown

Spec == Init /\ [][Next]_vars

-----------------------------------------------------------------------------
(* A notification is emailed once, and digests go out DigestGap apart,     *)
(* whoever leads.  What excuses another: a pass that couldn't record what  *)
(* it sent, two leaders at once (web/email.go:16-23,35-37), and a leader   *)
(* whose own copy had not applied the record of the last one.              *)
MailedOnce ==
    /\ \A i \in DOMAIN notice : notice[i].sent > 1 => notice[i].spare \/ notice[i].behind
    /\ ~digest.soon

(* "A new leader carries on where the old one stopped" (web/email.go:      *)
(* 16-23): it sends again only what the old one sent without recording it. *)
(* The code does not keep this.                                            *)
CarriesOn == \A i \in DOMAIN notice : notice[i].sent > 1 => notice[i].spare

(* A notification that won't be emailed any more was emailed, or was read; *)
(* and what is read was gathered for the bell's page, or is older than     *)
(* what was: one that arrived while the page was open stays unread         *)
(* (cmd/engage.go:182-184,200-201).  Excused: one that was made before     *)
(* another by its log, but after it by the clocks, may be marked unsent.   *)
Skipped(i) == \E j \in DOMAIN notice : j > i /\ notice[j].at < notice[i].at
NoneLost ==
    \A i \in DOMAIN notice :
       /\ notice[i].emailed => notice[i].sent > 0 \/ notice[i].read \/ Skipped(i)
       /\ notice[i].read => \E j \in DOMAIN notice : j >= i /\ notice[j].listed

(* "Opening it marks what it shows as read" (web/engage.go:145-147): what  *)
(* is read, or a newer one of the group, was on a page.  The code does not *)
(* keep this.                                                              *)
ReadWasShown ==
    \A i \in DOMAIN notice : notice[i].read => \E j \in DOMAIN notice : j >= i /\ notice[j].shown
=============================================================================
