------------------------------ MODULE MCSources ------------------------------
EXTENDS Sources

Plan(ops, steps) == [ops |-> ops, steps |-> steps, answers |-> {}, comments |-> {}, allowed |-> {}]

(* Behaviours about links, about what moderators undo, about moves, about  *)
(* a long thread, about one page, and about pages in combined notes.       *)
MCPlans ==
    {Plan({"AddLink", "SetCheck", "RemoveLink", "ChangeThread", "ChangeStatus"}, 3),
     [Plan({"AddLink", "SetCheck", "RemoveNote", "ReverseNudge"}, 3) EXCEPT !.answers = {1}],
     Plan({"AddLink", "AddSource", "RemoveNote"}, 4),
     Plan({"AddLink", "MoveUnder", "MoveOut"}, 4),
     [Plan({"ChangeComment", "RemoveNote", "ReverseNudge", "ChangeStatus"}, 5) EXCEPT !.comments = {1, 2}],
     Plan({"AddSource", "ApproveSources", "RemoveSource", "RestoreSource", "AllowDomain", "Recheck",
           "WebChanges"}, 5),
     [Plan({"AddLink", "AddSource", "DetachSource", "RemoveSource", "WebChanges", "Recheck"}, 3)
        EXCEPT !.allowed = {1}]}
=============================================================================
