------------------------------- MODULE Accounts -------------------------------
(***************************************************************************)
(* Signing in (web/login.go, cmd/login.go), on groups' own domains too     *)
(* (web/bounce.go, cmd/bounce.go), and suspensions: one person's account,  *)
(* mailbox and browser, whose requests reach any node.                     *)
(*                                                                         *)
(* The rest of site.db: db.known (the account exists), db.until (suspended *)
(* until then), db.handle, db.email and db.digest (see Mail), and records  *)
(*   token[t]  expires, tries, used, next (where to go after)              *)
(*   session   id, expires, from (the token or code it was made for)       *)
(*   bounce    id, host, expires                                           *)
(* db.given and db.ended are history: every session ever made, with the    *)
(* wrong codes typed before it, and those a suspension ended.              *)
(*                                                                         *)
(* browser holds the cookies: domain[d] is sent to d and to every name     *)
(* under it, own[h] to h only; both hold a session's id.                   *)
(* A visit is the request the browser makes next, and what it asks for.    *)
(***************************************************************************)
EXTENDS Hosts

CONSTANTS
    MaxCodeTries, LoginTTL, BounceTTL, BouncedTTL, SessionTTL,
    PerAddress, Hour,    \* sign-in emails to one address from one node in an hour
    Handles, Taken,      \* handles one might type; those others have
    MaxNow, MaxHops      \* bounds: the clock, and redirects followed in a row

ASSUME HandlesAssumption == Taken \subseteq Handles /\ "" \notin Handles
ASSUME TriesAssumption == MaxCodeTries \in Nat \ {0}
ASSUME TTLAssumption == {BounceTTL, BouncedTTL, SessionTTL} \subseteq Nat \ {0}
ASSUME HopsAssumption == MaxHops \in Nat /\ MaxHops > 5

(* A behaviour begins with the person signed in, or not, and no sign-in or *)
(* bounce under way; ids up to p.fresh are taken.                          *)
AccountField == {"token", "session", "bounce", "given", "ended", "known", "until", "handle", "email", "digest"}
ASSUME StartAssumption ==
    \A p \in Plans :
        /\ p.fresh \in Nat /\ p.lost \in Nat /\ DOMAIN p.db = HostField \cup AccountField
        /\ p.db.token = <<>> /\ p.db.bounce = {} /\ p.db.ended = {}
        /\ \A s \in p.db.given : s.id \in 1 .. p.fresh /\ s.from \in 1 .. p.fresh /\ s.wrong = 0
        /\ \A s, t \in p.db.given : s.from = t.from => s = t

VARIABLES now, browser, visit, inbox, sends, fresh
accountsVars == <<now, browser, visit, inbox, sends, fresh>>

Ids == 1 .. fresh
Put(f, k, v) == [x \in DOMAIN f \cup {k} |-> IF x = k THEN v ELSE f[x]]

-----------------------------------------------------------------------------
(* Commands.  Tokens, sessions and codes are random: each new one is new.  *)
CreateLogin(db, t, next, at) ==
    IF t \in DOMAIN db.token THEN Refused(db)
    ELSE Done([db EXCEPT !.token =
                 Put(@, t, [expires |-> at + LoginTTL, tries |-> 0, used |-> FALSE, next |-> next])])

FailLoginCode(db, t) ==
    IF t \notin DOMAIN db.token THEN Done(db) ELSE Done([db EXCEPT !.token[t].tries = @ + 1])

WithSession(db, id, at, from, wrong) ==
    [db EXCEPT !.session = @ \cup {[id |-> id, expires |-> at + SessionTTL, from |-> from]},
               !.given = @ \cup {[id |-> id, from |-> from, wrong |-> wrong]}]

usable(db, t, at) ==
    /\ t \in DOMAIN db.token
    /\ ~db.token[t].used /\ db.token[t].expires > at /\ db.token[t].tries < MaxCodeTries

(* Mistake: the handler has checked (loginUsable), so the command doesn't. *)
RedeemLoginTrusting(db, t, id, at, wrong) ==
    Done(WithSession([db EXCEPT !.token[t].used = TRUE, !.known = TRUE], id, at, t, wrong))

RedeemLogin(db, t, id, at, wrong) ==
    IF ~usable(db, t, at) THEN Refused(db)
    ELSE Done(WithSession([db EXCEPT !.token[t].used = TRUE, !.known = TRUE], id, at, t, wrong))

SetHandle(db, h) == IF h \in Taken THEN Refused(db) ELSE Done([db EXCEPT !.handle = h])

EndSession(db, id) == Done([db EXCEPT !.session = {s \in @ : s.id # id}])

SuspendUser(db, until, at) ==
    IF ~db.known THEN Refused(db)
    ELSE IF until > at
         THEN Done([db EXCEPT !.until = until, !.session = {},
                              !.ended = @ \cup {s.id : s \in db.given}])
         ELSE Done([db EXCEPT !.until = until])

StartBounce(db, id, host, at) ==
    IF \E b \in db.bounce : b.id = id THEN Refused(db)
    ELSE Done([db EXCEPT !.bounce =
                 {b \in @ : b.expires > at} \cup {[id |-> id, host |-> host, expires |-> at + BounceTTL]}])

FinishBounce(db, code, host, id, at) ==
    IF \E b \in db.bounce : b.id = code /\ b.host = host /\ b.expires > at
    THEN Done(WithSession([db EXCEPT !.bounce = {b \in @ : b.id # code}], id, at, code, 0))
    ELSE Refused(db)

(* Purge's part in site.db.                                                *)
Purge(db, before) ==
    Done([db EXCEPT !.token = [t \in {u \in DOMAIN @ : @[u].expires >= before} |-> @[t]],
                    !.session = {s \in @ : s.expires >= before}])

-----------------------------------------------------------------------------
cookie(h) == IF browser.own[h] # 0 THEN browser.own[h] ELSE browser.domain[h[2]]

(* Whether the browser is signed in, as a node that has db sees it.        *)
user(db, h) ==
    /\ \E s \in db.session : s.id = cookie(h) /\ s.expires > now
    /\ db.until <= now

Ask(phase, host, to) == [phase |-> phase, host |-> host, to |-> to]
HomePage(db) == Ask("page", <<Bare, db.primary>>, NoHost)

(* Where one may be sent after signing in: our own sites only.  primary is *)
(* what it was when the request came in.                                   *)
safeNext(db, primary, ask) ==
    IF resolve(db, ask.host).kind \in {"home", "group"} THEN ask ELSE Ask("page", <<Bare, primary>>, NoHost)

(* History of a visit.  calm: since it began nothing else changed, and     *)
(* every node that answered had heard of everything; known: it began       *)
(* signed in on the primary (a node that hasn't heard that the primary     *)
(* changed sets the cookie on the old one); signed: with that sign-in;     *)
(* wants: the host it asked for, or the home page where a sign-in's link   *)
(* no longer is a group's; marked: that host would not send the browser    *)
(* round again.                                                            *)
Calmly(n) == visit.calm /\ seen[n] = Len(site)
Become(n, ask, code) ==
    visit' = [visit EXCEPT !.phase = ask.phase, !.host = ask.host, !.to = ask.to, !.code = code,
                           !.hops = @ + 1, !.calm = Calmly(n)]
NoVisit == [phase |-> "none", host |-> NoHost, to |-> NoHost, code |-> 0, hops |-> 0, calm |-> FALSE,
            known |-> FALSE, signed |-> FALSE, marked |-> FALSE, wants |-> NoHost, in |-> FALSE]
Disturbed == visit' = [visit EXCEPT !.calm = FALSE]
Browsing == visit.phase \in {"page", "bounce", "back"} /\ visit.hops < MaxHops
Resting == visit.phase \in {"none", "shown", "code"}

Bounced(h) == browser.bounced[h] > now
(* Mistake: a browser is sent round whenever it isn't signed in.           *)
needsBounceAlways(db, route, h) == ownDomain(db, route) /\ ~user(db, h)

needsBounce(db, route, h) == ownDomain(db, route) /\ ~Bounced(h) /\ ~user(db, h)

(* Somebody opens a page.                                                  *)
Open(h) ==
    /\ Given("Open") /\ Resting /\ h \in plan.hosts
    /\ visit' = [NoVisit EXCEPT !.phase = "page", !.host = h, !.calm = TRUE, !.wants = h,
                                !.known = user(Db, <<Bare, Db.primary>>),
                                !.marked = Bounced(Last(Db, h))]
    /\ UNCHANGED <<logVars, now, browser, inbox, sends, fresh>>

(* route's redirects, and a host that leads nowhere.                       *)
Redirected(n) ==
    LET route == resolve(View(n), visit.host) IN
    /\ Browsing /\ route.kind = "redirect"
    /\ Become(n, Ask(visit.phase, route.host, visit.to), visit.code)
    /\ UNCHANGED <<logVars, now, browser, inbox, sends, fresh>> /\ Idle

Shown(n, h, in) ==
    visit' = [visit EXCEPT !.phase = "shown", !.host = h, !.calm = Calmly(n), !.in = in, !.code = 0]

(* A page, of the home site or of a group, or one there isn't.             *)
Page(n) ==
    LET db == View(n)  route == resolve(db, visit.host) IN
    /\ Browsing /\ route.kind # "redirect"
    /\ ~needsBounce(db, route, visit.host) \/ visit.phase = "back"
    /\ visit.phase = "back" => route.kind # "group"
    /\ visit.phase = "bounce" => route.kind # "home"
    /\ Shown(n, visit.host, route.kind # "unknown" /\ user(db, visit.host))
    /\ UNCHANGED <<logVars, now, browser, inbox, sends, fresh>> /\ Idle

startBounce(n) ==
    LET db == View(n)  h == visit.host IN
    /\ Browsing /\ visit.phase # "back"
    /\ needsBounce(db, resolve(db, h), h)
    /\ browser' = [browser EXCEPT !.bounced[h] = now + BouncedTTL]
    /\ Become(n, Ask("bounce", <<Bare, db.primary>>, h), 0)
    /\ UNCHANGED <<logVars, now, inbox, sends, fresh>> /\ Idle

(* /bounce on the primary.  A code made for the visit is no disturbance.   *)
bounce(n, how) ==
    LET db == View(n)
        back == resolve(db, visit.to)
        host == db.main[back.group]
        code == fresh + 1
        Command(d) == StartBounce(d, code, host, now)
    IN
    /\ Browsing /\ visit.phase = "bounce"
    /\ resolve(db, visit.host).kind = "home"
    /\ IF ~ownDomain(db, back)
       THEN /\ Become(n, HomePage(db), 0) /\ how = "once" /\ UNCHANGED <<logVars, fresh>>
       ELSE IF ~user(db, visit.host)
       THEN /\ Become(n, Ask("page", host, NoHost), 0) /\ how = "once" /\ UNCHANGED <<logVars, fresh>>
       ELSE /\ Apply(n, Command, how)
            /\ fresh' = fresh + 1
            /\ IF Outcome(Command, how) THEN Become(n, Ask("back", host, NoHost), code)
               ELSE Shown(n, visit.host, TRUE) \* an error page
    /\ UNCHANGED <<now, browser, inbox, sends>> /\ Idle

(* /_bounce on the group's host.                                           *)
bounceBack(n, how) ==
    LET db == View(n)
        route == resolve(db, visit.host)
        id == fresh + 1
        Command(d) == FinishBounce(d, visit.code, db.main[route.group], id, now)
    IN
    /\ Browsing /\ visit.phase = "back" /\ route.kind = "group"
    /\ Apply(n, Command, how)
    /\ fresh' = fresh + 1
    /\ browser' = IF Outcome(Command, how) THEN [browser EXCEPT !.own[visit.host] = id] ELSE browser
    /\ IF how = "lost" THEN Shown(n, visit.host, FALSE) ELSE Become(n, Ask("page", visit.host, NoHost), 0)
    /\ UNCHANGED <<now, inbox, sends>> /\ Idle

-----------------------------------------------------------------------------
(* auth.SendLimiter, in the memory of each node.                           *)
Allow(n) == now - sends[n].window >= Hour \/ sends[n].count < PerAddress
Counted(n) ==
    sends' = [sends EXCEPT ![n] = IF now - @.window >= Hour THEN [window |-> now, count |-> 1]
                                  ELSE [@ EXCEPT !.count = @ + 1]]

(* Where a sign-in goes back to: the page's own Sign in link (LoginURL),   *)
(* and /login on a group's host (groupLogin).                              *)
BackToPage(db, h) == Ask("page", h, NoHost)
BackByGroup(db, h) ==
    LET route == resolve(db, h)
        back == groupHost(db, route.group)
    IN IF ownDomain(db, route) THEN Ask("bounce", <<Bare, db.primary>>, back) ELSE Ask("page", back, NoHost)

loginSend(n, how) ==
    LET db == View(n)
        t == fresh + 1
        kind == resolve(db, visit.host).kind
    IN
    /\ Given("loginSend") /\ visit.phase = "shown" /\ ~visit.in
    /\ kind \in {"home", "group"}
    /\ Allow(n) /\ Counted(n)
    /\ \E next \in {BackToPage(db, visit.host) : link \in {"page"} \cap plan.links} \cup
                   {BackByGroup(db, visit.host) : link \in IF kind = "group" THEN {"group"} \cap plan.links ELSE {}} :
         LET Command(d) == CreateLogin(d, t, safeNext(db, db.primary, next), now)
         IN /\ Apply(n, Command, how)
            /\ inbox' = IF Outcome(Command, how) THEN inbox \cup {t} ELSE inbox
            /\ browser' = IF Outcome(Command, how) THEN [browser EXCEPT !.pending = t] ELSE browser
            /\ visit' = [visit EXCEPT !.phase = IF Outcome(Command, how) THEN "code" ELSE "shown",
                                      !.calm = FALSE]
    /\ fresh' = fresh + 1
    /\ UNCHANGED now

(* A wrong code.  inbox is only read by who has the mailbox.               *)
codeWrong(n, how) ==
    LET t == browser.pending  Command(d) == FailLoginCode(d, t) IN
    /\ Given("codeWrong") /\ visit.phase = "code" /\ t # 0
    /\ usable(View(n), t, now)
    /\ Apply(n, Command, how)
    /\ browser' = [browser EXCEPT !.wrong = Put(@, t, IF t \in DOMAIN @ THEN @[t] + 1 ELSE 1)]
    /\ UNCHANGED <<now, visit, inbox, sends, fresh>>

(* The right code, or Continue on the page the emailed link leads to.      *)
finishSignIn(n, t, how) ==
    LET db == View(n)
        id == fresh + 1
        wrong == IF t \in DOMAIN browser.wrong THEN browser.wrong[t] ELSE 0
        Command(d) == RedeemLogin(d, t, id, now, wrong)
        signed == Outcome(Command, how)
        after == site'[seen'[n]]
        dest == safeNext(after, db.primary, db.token[t].next)
        there == dest.phase = "bounce" /\ ownDomain(after, resolve(after, dest.to))
    IN
    /\ usable(db, t, now)
    /\ Apply(n, Command, how)
    /\ fresh' = fresh + 1
    /\ browser' = IF signed THEN [browser EXCEPT !.domain[db.primary] = id, !.pending = 0] ELSE browser
    /\ visit' = IF ~signed THEN [NoVisit EXCEPT !.phase = "shown", !.host = <<Bare, db.primary>>]
                ELSE [NoVisit EXCEPT !.phase = IF after.handle = "" THEN "welcome" ELSE dest.phase,
                        !.host = dest.host, !.to = dest.to, !.calm = seen'[n] = Len(site'),
                        !.known = after.until <= now /\ after.primary = db.primary, !.signed = TRUE,
                        !.wants = IF there THEN dest.to ELSE dest.host,
                        !.marked = dest.phase = "page" /\ Bounced(dest.host)]
    /\ UNCHANGED <<now, inbox, sends>> /\ Idle

codeCheck(n, how) == visit.phase = "code" /\ browser.pending \in inbox /\ finishSignIn(n, browser.pending, how)
linkRedeem(n, how) == Resting /\ \E t \in inbox : finishSignIn(n, t, how)

(* The first sign-in: picking a handle.  Signed out again meanwhile (the   *)
(* account was suspended, or the node hasn't heard), one has to sign in.   *)
welcomeSave(n, h) ==
    LET db == View(n)  at == <<Bare, db.primary>> IN
    /\ visit.phase = "welcome" /\ Idle
    /\ IF ~user(db, at)
       THEN /\ Shown(n, at, FALSE) /\ UNCHANGED logVars
       ELSE /\ h \notin Taken
            /\ Apply(n, LAMBDA d : SetHandle(d, h), "once")
            /\ LET ask == safeNext(db, db.primary, Ask(IF visit.to = NoHost THEN "page" ELSE "bounce", visit.host, visit.to))
               IN Become(n, ask, 0)
    /\ UNCHANGED <<now, browser, inbox, sends, fresh>>

logout(n) ==
    LET db == View(n)  h == visit.host  route == resolve(db, h) IN
    /\ Given("logout") /\ visit.phase = "shown" /\ route.kind \in {"home", "group"} /\ cookie(h) # 0
    /\ Apply(n, LAMBDA d : EndSession(d, cookie(h)), "once")
    /\ browser' = IF ownDomain(db, route) THEN [browser EXCEPT !.own[h] = 0]
                  ELSE [browser EXCEPT !.domain[db.primary] = 0]
    /\ visit' = [NoVisit EXCEPT !.phase = "page", !.host = h]
    /\ UNCHANGED <<now, inbox, sends, fresh>>

-----------------------------------------------------------------------------
(* The operator suspends the account, until some time, or lifts it.        *)
Suspend(n) ==
    /\ Given("Suspend")
    /\ \E until \in {0, now + 2} : Apply(n, LAMBDA d : SuspendUser(d, until, now), "once")
    /\ Disturbed /\ UNCHANGED <<now, browser, inbox, sends, fresh>>
PurgeSite(n) ==
    /\ Given("Purge") /\ Apply(n, LAMBDA d : Purge(d, now), "once")
    /\ Disturbed /\ UNCHANGED <<now, browser, inbox, sends, fresh>>
Tick == /\ "Tick" \in plan.ops /\ now < MaxNow /\ now' = now + 1
        /\ Disturbed /\ Idle /\ UNCHANGED <<logVars, browser, inbox, sends, fresh>>
OperateSite(n) == Operate(n) /\ Disturbed /\ UNCHANGED <<now, browser, inbox, sends, fresh>>
Hear(n) == CatchUp(n) /\ UNCHANGED accountsVars

AccountsInit ==
    /\ plan \in Plans /\ left = plan.steps
    /\ site = <<plan.db>> /\ seen = [n \in Node |-> 1] /\ lost = plan.lost
    /\ now = 0 /\ fresh = plan.fresh /\ visit = NoVisit /\ inbox = {}
    /\ sends = [n \in Node |-> [window |-> -Hour, count |-> 0]]
    /\ browser = [own |-> [h \in Host |-> 0],
                  domain |-> [d \in Domain |-> IF d = plan.db.primary THEN plan.fresh ELSE 0],
                  bounced |-> [h \in Host |-> 0], pending |-> 0, wrong |-> <<>>]

-----------------------------------------------------------------------------
(* However the nodes lag, each emailed sign-in and each one-time code is   *)
(* worth one session, and an emailed sign-in none after MaxCodeTries wrong *)
(* codes typed at any nodes; and no node that has heard of a suspension    *)
(* lets in a session from before it (cmd/login.go:38-40,55-57,             *)
(* cmd/moderation.go:575-576).                                             *)
SignedInRightly ==
    /\ \A s, t \in Db.given : s.from = t.from => s = t
    /\ \A s \in Db.given : s.wrong < MaxCodeTries
    /\ \A n \in Node : \A s \in View(n).session : s.id \notin View(n).ended

(* An undisturbed visit (nor was an answer lost to it) ends at the page    *)
(* that was asked for; and a person signed in on the primary is signed in  *)
(* there too, on a group's own domain by way of /bounce, unless that was   *)
(* tried within the hour (web/bounce.go:14-26).  A domain that was both a  *)
(* group's and the primary is left out: the browser may still have its     *)
(* cookies from before.                                                    *)
Lands ==
    visit.calm /\ lost = plan.lost /\ ~Db.clash /\ Db.owned \cap Db.old = {} =>
       /\ visit.hops < MaxHops
       /\ visit.phase = "shown" /\ visit.known /\ ~visit.marked =>
            /\ visit.host = Last(Db, visit.wants)
            /\ resolve(Db, visit.host).kind # "unknown" => visit.in

(* "Sign-in from the group's domain goes to the primary's sign-in page,    *)
(* and comes back through step 2, so it ends up signed in on both."        *)
(* (web/bounce.go:25-26.)  The pages' Sign in link comes straight back     *)
(* (LoginURL, web/server.go): within an hour of the last bounce, the       *)
(* group's domain doesn't ask the primary again.                           *)
SignedInOnBoth ==
    visit.calm /\ ~Db.clash /\ visit.phase = "shown" /\ visit.signed /\ visit.known => visit.in
=============================================================================
