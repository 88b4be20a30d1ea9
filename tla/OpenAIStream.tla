----------------------------- MODULE OpenAIStream -----------------------------
(***************************************************************************)
(* relayStream: the chat stream passed on chunk by chunk through the       *)
(* rewriter (pseudo-tool out, calls written as text in, finish_reason in   *)
(* line with what is left, the role on the first chunk), with what is held *)
(* back flushed at the end.                                                *)
(***************************************************************************)
EXTENDS ToolStream

VARIABLES
  osaid,   \* what the upstream has said
  ox,      \* the extractor
  orw,     \* chunkRewriter
  oout,    \* frames sent
  oend

ovars == <<osaid, ox, orw, oout, oend>>

OInit ==
  /\ osaid \in {NothingSaid(mix) : mix \in Mixes} /\ ox = NoExtract
  /\ orw = [pseudo |-> {}, real |-> FALSE, xml |-> FALSE, last |-> "", role |-> FALSE]
  /\ oout = <<>> /\ oend = ""

Flip(c, when, from, to) == IF when /\ c.fin = from THEN [c EXCEPT !.fin = to] ELSE c
Frame(c, role) == [tools |-> c.tools, content |-> c.content # "", fin |-> c.fin, role |-> role]

\* chunkRewriter.rewrite, in its order.
FlipLater(rw, c) == Flip(c, ~rw.real /\ rw.pseudo # {} /\ rw.last # "", "tool_calls", "stop")
FlipEndTurn(rw, c) == Flip(c, ~rw.real /\ rw.pseudo # {}, "tool_calls", "stop")
FlipExtracted(rw, c) == Flip(c, rw.xml, "stop", "tool_calls")
Rewrite(rw, x, c) ==
  LET pseudo == Track(rw.pseudo, c.tools)
      left == DropContinued(pseudo, IF HasPseudo(c.tools) THEN Strip(c) ELSE c)
      fed == FeedXML(x, left)
      now == [rw EXCEPT !.pseudo = pseudo, !.real = @ \/ HasReal(c.tools),
                        !.xml = @ \/ fed.x.seen > x.seen]
      told == FlipExtracted(now, FlipEndTurn(now, fed.c))
  IN [x |-> fed.x, frame |-> Frame(told, ~rw.role),
      rw |-> [now EXCEPT !.last = IF told.fin # "" THEN told.fin ELSE @, !.role = TRUE]]

\* emitXMLFlush: one more chunk, and one more end when the calls in it came
\* after a stop.
Flushed(rw, fl) ==
  LET calls == fl.c.tools # <<>> IN
  IF fl.c = NoChunk THEN <<>>
  ELSE <<Frame(fl.c, ~rw.role)>>
       \o IF (rw.xml \/ calls) /\ rw.last = "stop" /\ ~rw.real
          THEN <<Frame([NoChunk EXCEPT !.fin = "tool_calls"], FALSE)>> ELSE <<>>

Relayed(c) ==
  LET r == Rewrite(orw, ox, c) IN
  /\ oend = ""
  /\ osaid' = Said(osaid, c) /\ ox' = r.x /\ orw' = r.rw /\ oout' = Append(oout, r.frame)
  /\ UNCHANGED oend
\* [DONE] at the end of the stream; after an error a chunk that says so.
Ended(how, fl) ==
  /\ oend = "" /\ oend' = how
  /\ ox' = fl.x /\ osaid' = Said(osaid, fl.c) /\ oout' = oout \o Flushed(orw, fl)
  /\ UNCHANGED orw
OLine == \E c \in Chunks(osaid) : Relayed(c)
OEnd == \E how \in {"done", "error"}, fl \in FlushXML(ox) : Ended(how, fl)
\* The client has gone, or a write fails.
OGone == oend = "" /\ oend' = "gone" /\ UNCHANGED <<osaid, ox, orw, oout>>

ONext == OLine \/ OEnd \/ OGone
OSpec == OInit /\ [][ONext]_ovars

-----------------------------------------------------------------------------
Delivered == UNION {{f.of : f \in {g \in ToSet(oout[n].tools) : g.name # ""}} : n \in DOMAIN oout}
LastFinish ==
  FoldLeft(LAMBDA acc, fr : IF fr.fin # "" THEN fr.fin ELSE acc, "", oout)
\* An upstream that ends with tool_calls exactly when it called one.
Honest == osaid.fin = "tool_calls" <=> \E i \in Indexes : osaid.name[i] # ""

\* The last finish_reason a client sees says tool_calls exactly when it was
\* given one, whatever was stripped, extracted or flushed on the way.
FinishHonest ==
  oend = "done" /\ Honest /\ osaid.fin \in {"stop", "tool_calls"}
    => (LastFinish = "tool_calls" <=> Delivered # {})

\* No part of the pseudo-tool is passed on, its later fragments included.
PseudoHidden ==
  \A n \in DOMAIN oout : \A f \in ToSet(oout[n].tools) :
    f.of[2] = "up" => osaid.name[f.idx] # Pseudo
=============================================================================
