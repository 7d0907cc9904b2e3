------------------------------ MODULE MCRoomTask ------------------------------
(* Small instances of RoomTask for TLC. *)
EXTENDS RoomTask, TLC

CONSTANTS a, b, p1, p2, c1, c2, w1

P(p, items, request) == [parent |-> p, items |-> items, request |-> request]
Item(deps) == [to |-> w1, deps |-> deps]

(* Two rooms that share a worker.  The first may be deleted, and may go     *)
(* with a user it cannot do without.                                        *)
TwoRooms == (p1 :> a) @@ (p2 :> b)
SharedPlans == {P(p1, c1 :> Item({}), 1), P(p2, c2 :> Item({}), 1)}
LastPerson == {<<None, {a}>>}

(* One room with a queue of two parents.  The second subtask is the plan of *)
(* the parent behind or is added to the first one's plan; a plan in a       *)
(* circle is refused.  The worker leaves the room, is deleted, comes back.  *)
OneRoom == (p1 :> a) @@ (p2 :> a)
QueuePlans ==
  SharedPlans \cup {P(p1, c2 :> Item({c1}), 2),
                    P(p1, (c1 :> Item({c2})) @@ (c2 :> Item({c1})), 3)}
RosterOfA == {<<a, w1>>}
TheWorker == {<<w1, {}>>}
===============================================================================
