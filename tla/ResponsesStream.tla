--------------------------- MODULE ResponsesStream ---------------------------
(***************************************************************************)
(* relayResponsesStream: the chat stream told as Responses events.  Text,  *)
(* reasoning and each tool call are output items: added on first use, fed  *)
(* by deltas, done when the stream ends, and listed in the response of the *)
(* last event.                                                             *)
(***************************************************************************)
EXTENDS ToolStream

VARIABLES
  rsaid,   \* what the upstream has said
  rx,      \* the extractor
  rst,     \* responsesStreamState, and the indexes of the pseudo-tool
  rout,    \* events sent
  rend

rvars == <<rsaid, rx, rst, rout, rend>>

RInit ==
  /\ rsaid \in {NothingSaid(mix) : mix \in Mixes} /\ rx = NoExtract
  /\ rst = [items |-> <<>>, pseudo |-> {}, finish |-> ""]
  /\ rout = <<[ev |-> "created"], [ev |-> "in_progress"]>> /\ rend = ""

\* What an item is for: the message, the reasoning, or the call of an index;
\* its output index is its place.
Message == [kind |-> "message", idx |-> 0]
Reasoning == [kind |-> "reasoning", idx |-> 0]
CallOf(i) == [kind |-> "function_call", idx |-> i]
LatestPlace(items, what) == Len(items)
PlaceOf(items, what) == CHOOSE n \in DOMAIN items : items[n].what = what
HasItem(items, what) == \E n \in DOMAIN items : items[n].what = what
Item(what) == [what |-> what, data |-> <<>>]

\* An item and the events of one delta for it; st carries the events along.
Added(st, what) ==
  IF HasItem(st.items, what) THEN st
  ELSE [st EXCEPT !.items = Append(@, Item(what)),
                  !.out = Append(@, [ev |-> "added", i |-> Len(st.items) + 1])]
Fed(st, what, data) ==
  LET s == Added(st, what)
      n == PlaceOf(s.items, what)
  IN [s EXCEPT !.items[n].data = Append(@, data),
               !.out = Append(@, [ev |-> "delta", i |-> n, data |-> data])]
\* accumulateResponsesChunk: the calls first, then reasoning and text.
OneCall(st, f) ==
  IF f.arg THEN Fed(st, CallOf(f.idx), f.of) ELSE Added(st, CallOf(f.idx))
AccumulateR(st, c) ==
  LET a == [st EXCEPT !.finish = IF c.fin # "" THEN c.fin ELSE @]
      b == FoldLeft(OneCall, a, c.tools)
      d == IF c.think THEN Fed(b, Reasoning, <<0, "think">>) ELSE b
  IN IF c.content # "" THEN Fed(d, Message, <<0, "text">>) ELSE d

\* endResponsesStream.  A message without text is added when there is nothing.
Outputs(items, status) == [n \in DOMAIN items |-> [status |-> status, data |-> items[n].data]]
Completed(st) ==
  LET s == IF st.items = <<>> THEN Added(st, Message) ELSE st
      status == IF s.finish = "length" THEN "incomplete" ELSE "completed"
  IN s.out \o [n \in DOMAIN s.items |-> [ev |-> "done", i |-> n, data |-> s.items[n].data]]
     \o <<[ev |-> "response", status |-> status, output |-> Outputs(s.items, "completed")]>>
Failed(st) ==
  Append(st.out, [ev |-> "response", status |-> "failed", output |-> Outputs(st.items, "completed")])

-----------------------------------------------------------------------------
Carrying == [items |-> rst.items, pseudo |-> rst.pseudo, finish |-> rst.finish, out |-> <<>>]
Kept(st) == [items |-> st.items, pseudo |-> st.pseudo, finish |-> st.finish]

\* The calls are extracted first, then the pseudo-tool goes; a chunk with
\* nothing left is dropped.
Cleaned(x, pseudo, c) ==
  LET fed == FeedXML(x, c)
      p == Track(pseudo, fed.c.tools)
  IN [x |-> fed.x, pseudo |-> p, c |-> DropContinued(p, Strip(fed.c))]
RLine ==
  /\ rend = ""
  /\ \E c \in Chunks(rsaid) :
       LET k == Cleaned(rx, rst.pseudo, c)
           st == AccumulateR([Carrying EXCEPT !.pseudo = k.pseudo], k.c)
       IN rsaid' = Said(rsaid, c) /\ rx' = k.x /\ rst' = Kept(st) /\ rout' = rout \o st.out
  /\ UNCHANGED rend
RDone ==
  /\ rend = "" /\ rend' = "done"
  /\ \E fl \in FlushXML(rx) :
       LET st == AccumulateR(Carrying, fl.c) IN
       rx' = fl.x /\ rsaid' = Said(rsaid, fl.c) /\ rst' = Kept(st) /\ rout' = rout \o Completed(st)
\* A stream that breaks is flushed first, an error chunk is not.
RBroken ==
  /\ rend = "" /\ rend' = "error"
  /\ \E fl \in FlushXML(rx) \cup {[x |-> rx, c |-> NoChunk]} :
       LET st == AccumulateR(Carrying, fl.c) IN
       rx' = fl.x /\ rsaid' = Said(rsaid, fl.c) /\ rst' = Kept(st) /\ rout' = rout \o Failed(st)
RGone == rend = "" /\ rend' = "gone" /\ UNCHANGED <<rsaid, rx, rst, rout>>

RNext == RLine \/ RDone \/ RBroken \/ RGone
RSpec == RInit /\ [][RNext]_rvars

-----------------------------------------------------------------------------
At(ev, i) == {n \in DOMAIN rout : rout[n].ev = ev /\ rout[n].i = i}
ItemData(i) ==
  FoldLeft(LAMBDA acc, e : IF e.ev = "delta" /\ e.i = i THEN Append(acc, e.data) ELSE acc, <<>>, rout)
Places == {rout[n].i : n \in {m \in DOMAIN rout : rout[m].ev = "added"}}

\* An item is added once, before its deltas, which all come from one source;
\* when the response completes each is done once, after them, and holds what
\* they said, as the response does.
ItemsInTurn ==
  /\ \A n \in DOMAIN rout :
       rout[n].ev \in {"delta", "done"} => \E a \in At("added", rout[n].i) : a < n
  /\ \A i \in Places : Cardinality(At("added", i)) = 1 /\ Cardinality(At("done", i)) <= 1
                          /\ \A n \in DOMAIN ItemData(i) : ItemData(i)[n] = ItemData(i)[1]
  /\ \A n \in DOMAIN rout : rout[n].ev = "response" =>
       /\ DOMAIN rout[n].output = Places
       /\ \A i \in Places :
            /\ rout[n].output[i].data = ItemData(i)
            /\ rout[n].status # "failed" => \E d \in At("done", i) : rout[d].data = ItemData(i)

\* A response that failed lists no item as completed.
FailedClaimsNothing ==
  \A n \in DOMAIN rout : rout[n].ev = "response" /\ rout[n].status = "failed" =>
    \A i \in DOMAIN rout[n].output : rout[n].output[i].status # "completed"
=============================================================================
