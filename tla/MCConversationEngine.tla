------------------------ MODULE MCConversationEngine ------------------------
(* Instances of ConversationEngine for TLC. *)
EXTENDS ConversationEngine, TLC

CONSTANTS c1, c2, c3

R(op, i, b, m) == [op |-> op, key |-> "k1", id |-> i, body |-> b, mode |-> m]

(* One conversation: two turns, the second in every admission mode, a retry *)
(* of the first with another body, a media turn, a Cancel and a Reset.      *)
OneKey ==
  <<R("run", "t1", "chat", "wait"), R("run", "t1", "other", "wait"),
    R("run", "t2", "chat", "reject"), R("run", "t2", "chat", "wait"),
    R("run", "t2", "chat", "supersede"), R("run", "t2", "image", "wait"),
    R("cancel", "t1", "chat", "wait"), R("reset", "t1", "chat", "wait")>>

(* Calls differ in nothing but their request: of the assignments that only  *)
(* exchange calls, one stands for all.                                      *)
ThreeCalls ==
  {(c1 :> OneKey[t[1]]) @@ (c2 :> OneKey[t[2]]) @@ (c3 :> OneKey[t[3]]) :
     t \in {s \in [1..3 -> DOMAIN OneKey] : s[1] <= s[2] /\ s[2] <= s[3]}}
=============================================================================
