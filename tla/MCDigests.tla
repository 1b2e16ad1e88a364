----------------------------- MODULE MCDigests -----------------------------
(* Digests on a small instance.                                            *)
EXTENDS Digests

CONSTANTS u1, u2, t1, t2

Off(S) == [yes |-> {}, no |-> S]
MCUpdates == {Off({"daily", "weekly"}), [yes |-> {"daily"}, no |-> {"alert"}]}

(* A badge of each organiser; creations last Sunday, on Saturday and today. *)
MCFounded == <<[owner |-> u1, template |-> t1], [owner |-> u2, template |-> t1]>>
MCPast ==
    <<[badge |-> 1, day |-> 0], [badge |-> 1, day |-> 6], [badge |-> 1, day |-> 7],
      [badge |-> 2, day |-> 6]>>
=============================================================================
