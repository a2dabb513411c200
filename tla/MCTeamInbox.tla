----------------------------- MODULE MCTeamInbox -----------------------------
(* Instances of TeamInbox: two processes of one teammate, one goal, two areas. *)
EXTENDS TeamInbox

Row(kind, issue, area, to, priority, ref, state) ==
  [kind |-> kind, goal |-> "g", issue |-> issue, area |-> area, to |-> to,
   priority |-> priority, ref |-> ref, state |-> state]

MCRaises ==
  {Row("handoff", None, "api", "me", "P1", None, "open"),
   Row("handoff", None, "api", "me", "P0", None, "open"),
   Row("handoff", "#7", "api", "me", "P1", None, "open"),
   Row("note", None, None, "me", "P2", "c1", None)}

MCAcks == {Row("ack", i, None, None, None, None, "resolved") : i \in {None, "#7"}}

MCAreaRaises ==
  {Row("handoff", None, a, "me", "P1", None, "open") : a \in {"api", "web"}}

MCAreaAcks == {Row("ack", None, "api", None, None, None, "resolved")}

=============================================================================
