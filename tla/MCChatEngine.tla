----------------------------- MODULE MCChatEngine -----------------------------
(***************************************************************************)
(* Two chats for TLC.  Both meet the refusals that touch what chats share, *)
(* the session, the run and the account, one of them others beside.        *)
(***************************************************************************)
EXTENDS ChatEngine

CONSTANTS k1, k2

Body(status, marks, delay) == [status |-> status, marks |-> marks, delay |-> delay]
\* What ends a session, a run or an account; an expiry, a refusal of the room, the queues,
\* and a body that carries the markers of two rules.
Shared == {Body(409, {"superseded"}, 0), Body(400, {"run_gone"}, 0), Body(403, {"banned"}, 0)}
Others == {Body(410, {"expired"}, 0), Body(428, {"room_required"}, 0), Body(503, {}, 0),
           Body(429, {"turn_spend_limit", "capacity_deferred"}, 30)}
Replies == [c \in {k1, k2} |-> IF c = k1 THEN Shared \cup Others ELSE Shared]
===============================================================================
