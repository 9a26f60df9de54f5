------------------------------ MODULE MCPlacement ------------------------------
EXTENDS Placement

(* A careful and patient operator moves a group about, or changes its      *)
(* voters while nodes restart (not to none: nothing would refuse that, and *)
(* the log would keep the last one); and nodes are lost for good, one      *)
(* voter of three or all of them.                                          *)
MCPlans ==
    {[full |-> {}, first |-> {1, 2, 3}, ops |-> {"place", "unplace", "careful", "patient"},
      lost |-> {}, maps |-> 5, downs |-> 0],
     [full |-> {}, first |-> {1, 2, 3},
      ops |-> {"place", "demote", "unplace", "careful", "patient"},
      lost |-> {}, maps |-> 4, downs |-> 1],
     [full |-> {4}, first |-> {1, 2, 3, 4}, ops |-> {"remove", "recover"},
      lost |-> {{1}, {1, 2, 3}}, maps |-> 3, downs |-> 1]}
=============================================================================
