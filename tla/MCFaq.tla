--------------------------------- MODULE MCFaq --------------------------------
EXTENDS Faq

Top(by) == [made |-> TRUE, parent |-> 0, merged |-> 0, locked |-> by = "mod", namedBy |-> by]

(* Four topics, the first of them a moderator's; the fourth under the      *)
(* second.                                                                 *)
Headings == <<Top("mod"), Top("system"), Top("system"), [Top("system") EXCEPT !.parent = 2]>>

(* Behaviours about the outline, about what entries say, about which       *)
(* threads they say it of, and about new entries in a moving outline.      *)
MCPlans ==
    {[outline |-> Headings, discussed |-> {}, topics |-> 5, steps |-> 2,
      ops |-> {"weekly", "CreateTopic", "EditTopic", "SetPostTopics", "SetDigest", "CreateFAQEntry"}],
     [outline |-> <<Top("mod")>>, discussed |-> {1}, topics |-> 2, steps |-> 3,
      ops |-> {"ChangeThread", "ChangeStatus", "EditFAQEntry", "RollbackFAQEntry", "FAQComment"}],
     [outline |-> <<Top("mod")>>, discussed |-> {1}, topics |-> 2, steps |-> 3,
      ops |-> {"ChangeThread", "ChangeStatus", "AddFAQSource", "RemoveFAQSource", "AddLink",
               "CreateFAQEntry"}],
     [outline |-> Headings, discussed |-> {1}, topics |-> 5, steps |-> 1, ops |-> {"EditTopic"}]}
=============================================================================
