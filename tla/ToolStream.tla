------------------------------ MODULE ToolStream ------------------------------
(***************************************************************************)
(* What the three relays of a chat stream share: the chunks the upstream   *)
(* sends, the extraction of tool calls written into the text, and the      *)
(* removal of the end_turn pseudo-tool.                                    *)
(*                                                                         *)
(* A chunk is reasoning, content, tool fragments and a finish reason; most *)
(* carry one of them.  Content is what the extractor makes of it: text, a  *)
(* block that opens, a block that closes (a call, the pseudo-tool, or no   *)
(* call after all).  A fragment names the call it belongs to in `of', which *)
(* only the properties read.                                               *)
(***************************************************************************)
EXTENDS Naturals, Sequences, SequencesExt, FiniteSetsExt

CONSTANTS
  Indexes,    \* upstream tool_calls indexes
  MaxChunks,  \* bound: chunks of a stream
  Mixes       \* how the models of a stream call tools: sets of "native",
              \* "late" (arguments before the name) and "text"

Pseudo == "end_turn"
Finishes == {"stop", "tool_calls", "length"}
Contents == {"text", "open", "call", "pseudo", "spill"}

Frag(i, name, arg, of) == [idx |-> i, name |-> name, arg |-> arg, of |-> of]
NoChunk == [think |-> FALSE, content |-> "", tools |-> <<>>, fin |-> ""]

\* What the upstream has said so far, in the mix of this stream: the name of
\* each index, fragments of arguments of each call, calls written as text, and
\* whether a block is open.
Calls == (Indexes \X {"up"}) \cup ((0 .. MaxChunks) \X {"xml"})
NothingSaid(mix) == [mix |-> mix, name |-> [i \in Indexes |-> ""], args |-> [c \in Calls |-> 0], xml |-> 0,
                     held |-> FALSE, fin |-> "", chunks |-> 0]

\* A name comes once.
Fragments(u) ==
  {f \in {Frag(i, n, a, <<i, "up">>) : i \in Indexes, n \in {"", "x", Pseudo}, a \in BOOLEAN} :
     /\ "native" \in u.mix
     /\ f.name # "" => u.name[f.idx] = ""
     /\ f.name = "" => f.arg /\ (u.name[f.idx] # "" \/ "late" \in u.mix)}
Texts(u) ==
  {"text"} \cup (IF "text" \notin u.mix THEN {}
                 ELSE {"open", "call", "pseudo"} \cup (IF u.held THEN {"spill"} ELSE {}))
Chunks(u) ==
  IF u.chunks = MaxChunks THEN {}
  ELSE IF u.fin # "" THEN {}
  ELSE {[NoChunk EXCEPT !.think = TRUE]}
       \cup {[NoChunk EXCEPT !.content = c] : c \in Texts(u)}
       \cup {[NoChunk EXCEPT !.tools = <<f>>] : f \in Fragments(u)}
       \cup {[NoChunk EXCEPT !.tools = <<f>>, !.content = c] : f \in Fragments(u), c \in Texts(u) \ {"spill"}}
       \cup {[NoChunk EXCEPT !.fin = r] : r \in Finishes}

\* The truth after a chunk.
Said(u, c) ==
  LET f == c.tools[1]
      t == IF c.tools = <<>> THEN u
           ELSE [u EXCEPT !.name = IF f.name # "" /\ f.of[2] = "up" THEN [u.name EXCEPT ![f.idx] = f.name] ELSE @,
                          !.args[f.of] = IF f.arg THEN @ + 1 ELSE @]
      x == IF c.content # "call" THEN t ELSE [t EXCEPT !.xml = @ + 1, !.args[<<t.xml, "xml">>] = 1]
  IN [x EXCEPT !.chunks = @ + 1, !.fin = IF c.fin # "" THEN c.fin ELSE @,
               !.held = IF c.content = "" THEN @
                        ELSE c.content = "open" \/ (c.content = "text" /\ @)]

-----------------------------------------------------------------------------
(* Extraction.  x is the extractor and the counter of synthetic indexes:   *)
(* xmlCallIndex, and how many calls it has extracted.                      *)

NoExtract == [held |-> FALSE, next |-> 0, seen |-> 0]

\* feedXMLToolCalls: withheld text leaves the chunk, a completed call is
\* appended as a fragment past the native indexes of its chunk; the
\* pseudo-tool is not.
NotBumped(tools, n) == n
Bumped(tools, n) == Max({n} \cup {f.idx + 1 : f \in ToSet(tools)})
FeedXML(x, c) ==
  LET plain == c.content \in {"text", "spill"} /\ (c.content = "spill" \/ ~x.held)
      n == IF c.content \in {"call", "pseudo"} THEN Bumped(c.tools, x.next) ELSE x.next
  IN IF c.content = "" THEN [x |-> x, c |-> c]
     ELSE [x |-> [held |-> c.content = "open" \/ (c.content = "text" /\ x.held),
                  next |-> IF c.content = "call" THEN n + 1 ELSE n,
                  seen |-> IF c.content = "call" THEN x.seen + 1 ELSE x.seen],
           c |-> [c EXCEPT !.content = IF plain THEN "text" ELSE "",
                           !.tools = IF c.content = "call"
                                     THEN Append(@, Frag(n, "x", TRUE, <<x.seen, "xml">>)) ELSE @]]

\* drainXMLToolCalls: what is held at the end comes out as text, as a call, or
\* as nothing.
FlushXML(x) ==
  IF ~x.held THEN {[x |-> x, c |-> NoChunk]}
  ELSE {[x |-> [x EXCEPT !.held = FALSE], c |-> [NoChunk EXCEPT !.content = t]] : t \in {"", "text"}}
       \cup {[x |-> [held |-> FALSE, next |-> x.next + 1, seen |-> x.seen + 1],
              c |-> [NoChunk EXCEPT !.tools = <<Frag(x.next, "x", TRUE, <<x.seen, "xml">>)>>]]}

-----------------------------------------------------------------------------
(* processEndTurnCalls: indexes of the pseudo-tool are remembered before   *)
(* its entries are stripped, and later fragments of those indexes dropped. *)

TrackNone(pseudo, tools) == pseudo
Track(pseudo, tools) == pseudo \cup {f.idx : f \in {g \in ToSet(tools) : g.name = Pseudo}}
HasPseudo(tools) == \E f \in ToSet(tools) : f.name = Pseudo
HasReal(tools) == \E f \in ToSet(tools) : f.name \notin {"", Pseudo}
Strip(c) ==
  LET kept == SelectSeq(c.tools, LAMBDA f : f.name # Pseudo)
  IN [c EXCEPT !.tools = kept, !.fin = IF kept = <<>> /\ @ = "tool_calls" THEN "stop" ELSE @]
DropContinued(pseudo, c) == [c EXCEPT !.tools = SelectSeq(@, LAMBDA f : f.idx \notin pseudo)]
=============================================================================
