-------------------------------- MODULE MCSite --------------------------------
EXTENDS Mail, TLC

Fresh == [token |-> <<>>, session |-> {}, bounce |-> {}, given |-> {}, ended |-> {},
          known |-> FALSE, until |-> 0, handle |-> "", email |-> FALSE, digest |-> FALSE]
Both(f, g) == [x \in DOMAIN f \cup DOMAIN g |-> IF x \in DOMAIN f THEN f[x] ELSE g[x]]

(* One group on the primary d1, or on its own domain d3.                   *)
New == Both(HostsInit("d1"), Fresh)
Grouped == [New EXCEPT !.made = {1}]
Own == Noted([Grouped EXCEPT !.main[1] = <<Bare, "d3">>])
SignedIn(db) == [db EXCEPT !.known = TRUE, !.handle = "me",
                           !.session = {[id |-> 1, expires |-> SessionTTL, from |-> 1]},
                           !.given = {[id |-> 1, from |-> 1, wrong |-> 0]}]

Plan(db, ops, steps) ==
    [db |-> db, ops |-> ops, steps |-> steps, fresh |-> Cardinality(db.session),
     hosts |-> {<<Bare, "d3">>, <<1, "d1">>}, links |-> {"page", "group"}, lost |-> 0]

(* Behaviours about addresses, about signing in, about visits to the       *)
(* group's own domain, about signing in while domains move, and about      *)
(* email.                                                                  *)
Addresses == Plan(New, {"SetPrimaryDomain", "AddAlternateDomain", "AddHostAlias", "SetGroupHost", "CreateGroup"}, 4)
Codes == [Plan(Grouped, {"Open", "loginSend", "codeWrong"}, 5)
            EXCEPT !.hosts = {<<1, "d1">>}, !.links = {"page"}, !.lost = 1]
Suspensions == [Plan(Grouped, {"Open", "loginSend", "Suspend", "Tick"}, 4) EXCEPT !.hosts = {<<1, "d1">>},
                                                                                  !.links = {"page"}]
Visits == [Plan(SignedIn(Own), {"Open", "SetPrimaryDomain", "SetGroupHost", "Suspend", "logout"}, 3)
            EXCEPT !.lost = 1]
Signing == [Plan(Own, {"Open", "loginSend", "Tick"}, 3) EXCEPT !.hosts = {<<Bare, "d3">>}]
Moving == Plan(Own, {"Open", "loginSend", "SetPrimaryDomain", "SetGroupHost"}, 3)
Purges == [Plan(SignedIn(Grouped), {"Purge", "Open", "Tick"}, 3) EXCEPT !.hosts = {<<1, "d1">>}]
Emailed == [SignedIn(Grouped) EXCEPT !.email = TRUE, !.digest = TRUE]
Mailing == Plan(Emailed, {"Comment", "fail", "crash", "elect", "both"}, 4)
Waiting == Plan(Emailed, {"Comment", "fail", "crash", "elect", "both", "Tick"}, 3)
Digests == Plan(Emailed, {"digest", "fail", "crash", "elect", "both", "Tick"}, 3)
Choices == Plan(Emailed, {"Comment", "Follow", "Leave", "profileSave", "bell", "busy", "elect", "both", "Tick"}, 3)
MCPlans == {Addresses, Codes, Suspensions, Visits, Signing, Moving, Purges, Mailing, Waiting, Digests, Choices}
MCSigning == {Signing}

(* The nodes are alike.                                                    *)
Alike == Permutations(Node)
=============================================================================
