------------------------------ MODULE MC_Tasks ------------------------------
(* Two tasks in pages of one, the least that has a second page; one group; *)
(* enough writes for a task to be made, edited in a calendar or by a       *)
(* tablet, deleted and sent again while the other tablet lists.  A batch   *)
(* edits a task, moves it to the group, completes a partial row or sets    *)
(* the deletion mark.                                                      *)
EXTENDS Tasks

MCTasks  == {"t1", "t2"}
OneTask  == {"t1"}
MCGroups == {"g"}
MCTimes  == {1, 2}

Edit == [moves |-> FALSE, group |-> Default, modified |-> 0, deleted |-> "kept", fills |-> FALSE]

MCUpdates == {[Edit EXCEPT !.modified = MaxClock],
              [Edit EXCEPT !.moves = TRUE, !.group = "g", !.fills = TRUE],
              [Edit EXCEPT !.deleted = "N", !.modified = 1]}
=============================================================================
