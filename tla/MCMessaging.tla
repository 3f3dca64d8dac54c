----------------------------- MODULE MCMessaging -----------------------------
(***************************************************************************)
(* Instances of Messaging for TLC: d is a direct conversation whose sender *)
(* must pair, e one whose sender is on the allowlist, g a group.           *)
(***************************************************************************)
EXTENDS Messaging

CONSTANTS m1, m2, n1, o1, d, e, g

\* Two direct messages meet in d, and in g a message that mentions us meets an
\* outbound one.
MeetInbound     == {m1, m2, n1}
MeetOutbound    == {o1}
MeetConv        == {d, g}
MeetConvOf      == [m \in MeetInbound \cup MeetOutbound |-> IF m \in {m1, m2} THEN d ELSE g]
MeetPolicy      == [c \in MeetConv |-> IF c = d THEN "gated" ELSE "open"]
MeetUnaddressed == {}

\* One message for each policy; the group message does not mention us.
EachInbound     == {m1, m2, n1}
EachOutbound    == {}
EachConv        == {d, e, g}
EachConvOf      == [m \in EachInbound |-> IF m = m1 THEN d ELSE IF m = m2 THEN e ELSE g]
EachPolicy      == [c \in EachConv |-> IF c = d THEN "gated"
                                       ELSE IF c = e THEN "allowlisted" ELSE "open"]
EachUnaddressed == {n1}
=============================================================================
