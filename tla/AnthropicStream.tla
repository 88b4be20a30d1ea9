--------------------------- MODULE AnthropicStream ---------------------------
(***************************************************************************)
(* relayAnthropicStream: the chat stream of the upstream told as Anthropic *)
(* message events.  Thinking, text and each tool call are content blocks   *)
(* with an index of their own, one open at a time; a call interrupted by   *)
(* another block goes on in a fresh one, with its arguments replayed.      *)
(*                                                                         *)
(* A step handles one line of the upstream.  The reader goroutine only     *)
(* hands lines over in order, so it is not a process here.                 *)
(***************************************************************************)
EXTENDS ToolStream

VARIABLES
  asaid,   \* what the upstream has said
  ax,      \* the extractor
  ast,     \* anthropicStreamState
  aout,    \* events sent
  aend     \* how the relay ended: done, error, gone

avars == <<asaid, ax, ast, aout, aend>>

NoIdx == 99
\* A call's block: its index, whether it was started and closed, its arguments.
NewBlock(n) == [index |-> n, named |-> FALSE, started |-> FALSE, closed |-> FALSE, args |-> <<>>]
NoBlock == [NewBlock(NoIdx) EXCEPT !.closed = TRUE]
UpIndexes == 0 .. (Cardinality(Indexes) + MaxChunks)

AInit ==
  /\ asaid \in {NothingSaid(mix) : mix \in Mixes} /\ ax = NoExtract
  /\ ast = [thinking |-> NoIdx, text |-> NoIdx, next |-> 0,
            calls |-> [i \in UpIndexes |-> NoBlock], pseudo |-> {}, finish |-> "end_turn",
            saw |-> FALSE, out |-> <<>>]
  /\ aout = <<[ev |-> "message_start"]>> /\ aend = ""

-----------------------------------------------------------------------------
(* Events are collected in st.out while one line is handled.               *)

Send(st, e) == [st EXCEPT !.out = Append(@, e)]
Start(i, kind) == [ev |-> "start", i |-> i, kind |-> kind]
Delta(i, data) == [ev |-> "delta", i |-> i, data |-> data]
Stop(i) == [ev |-> "stop", i |-> i]

CloseThinking(st) ==
  IF st.thinking = NoIdx THEN st
  ELSE [Send(Send(st, Delta(st.thinking, <<>>)), Stop(st.thinking)) EXCEPT !.thinking = NoIdx]
CloseText(st) ==
  IF st.text = NoIdx THEN st ELSE [Send(st, Stop(st.text)) EXCEPT !.text = NoIdx]
\* closeOpenToolCalls, closeOtherOpenToolCalls: in the order of their indexes.
CloseCalls(st, keep) ==
  FoldLeft(LAMBDA s, i : IF i = keep \/ ~s.calls[i].started \/ s.calls[i].closed THEN s
                         ELSE [Send(s, Stop(s.calls[i].index)) EXCEPT !.calls[i].closed = TRUE],
           st, [n \in 1 .. Cardinality(UpIndexes) |-> n - 1])
CloseOthersNot(st, i) == st
CloseOthers(st, i) == CloseCalls(st, i)

EnsureThinking(st) ==
  IF st.thinking # NoIdx THEN st
  ELSE LET s == CloseCalls(CloseText(st), NoIdx)
       IN [Send(s, Start(s.next, "thinking")) EXCEPT !.thinking = s.next, !.next = @ + 1]
EnsureText(st) ==
  IF st.text # NoIdx THEN st
  ELSE LET s == CloseCalls(CloseThinking(st), NoIdx)
       IN [Send(s, Start(s.next, "text")) EXCEPT !.text = s.next, !.next = @ + 1]

\* toolState.
ToolState(st, i) ==
  IF st.calls[i] # NoBlock THEN st
  ELSE [st EXCEPT !.calls[i] = NewBlock(st.next), !.next = @ + 1]
\* ensureStarted: opened, or opened again under a fresh index; what was
\* delivered before is replayed.
NoReplay(s, i) == s
Replayed(s, i) ==
  IF s.calls[i].args = <<>> THEN s ELSE Send(s, Delta(s.calls[i].index, s.calls[i].args))
EnsureStarted(st, i) ==
  LET b == st.calls[i]
      again == b.started /\ b.closed
      n == IF again THEN st.next ELSE b.index
      s == [st EXCEPT !.calls[i].index = n, !.next = IF again THEN @ + 1 ELSE @,
                      !.calls[i].started = TRUE, !.calls[i].closed = FALSE]
  IN IF b.started /\ ~b.closed THEN st ELSE Replayed(Send(s, Start(n, "tool")), i)

\* One fragment of a tool call.
OneFragment(st, f) ==
  LET i == f.idx
      a == ToolState(CloseOthers([st EXCEPT !.saw = TRUE], i), i)
      b == IF f.name = "" \/ a.calls[i].named THEN a
           ELSE EnsureStarted([a EXCEPT !.calls[i].named = TRUE], i)
      c == IF b.calls[i].named THEN EnsureStarted(b, i) ELSE b
      d == [c EXCEPT !.calls[i].args = Append(@, f.of)]
  IN IF f.name = Pseudo THEN [st EXCEPT !.pseudo = @ \cup {i}]
     ELSE IF i \in st.pseudo THEN st
     ELSE IF ~f.arg THEN b
     ELSE IF ~c.calls[i].named THEN d
     ELSE Send(d, Delta(d.calls[i].index, <<f.of>>))

StopReasons == [stop |-> "end_turn", tool_calls |-> "tool_use", length |-> "max_tokens"]
\* accumulateAnthropicChunk.
Accumulate(st, c) ==
  LET a == IF c.fin = "" THEN st ELSE [st EXCEPT !.finish = StopReasons[c.fin]]
      b == IF ~c.think THEN a ELSE LET s == EnsureThinking(a) IN Send(s, Delta(s.thinking, <<>>))
      d == IF c.content = "" THEN b ELSE LET s == EnsureText(b) IN Send(s, Delta(s.text, <<>>))
  IN IF c.tools = <<>> THEN d ELSE FoldLeft(OneFragment, CloseText(CloseThinking(d)), c.tools)

\* finalizeAnthropicStream's stop_reason.
ReasonAsTold(st) == st.finish
Reason(st) ==
  IF st.finish = "end_turn" /\ st.saw THEN "tool_use"
  ELSE IF st.finish = "tool_use" /\ ~st.saw THEN "end_turn" ELSE st.finish
Finalize(st) ==
  LET s == CloseCalls(CloseText(CloseThinking(st)), NoIdx)
  IN Send(Send(s, [ev |-> "message_delta", reason |-> Reason(s)]), [ev |-> "message_stop"])

-----------------------------------------------------------------------------
Sent(st) == aout' = aout \o st.out /\ ast' = [st EXCEPT !.out = <<>>]

Line ==
  /\ aend = ""
  /\ \E c \in Chunks(asaid) :
       LET fed == FeedXML(ax, c) IN
       /\ asaid' = Said(asaid, c) /\ ax' = fed.x
       /\ Sent(Accumulate(ast, fed.c))
  /\ UNCHANGED aend
\* The end of the stream; an error of the stream, or in a chunk of its own.
Done ==
  /\ aend = "" /\ aend' = "done"
  /\ \E fl \in FlushXML(ax) : /\ ax' = fl.x /\ asaid' = Said(asaid, fl.c)
       /\ Sent(Finalize(Accumulate(ast, fl.c)))
Broken ==
  /\ aend = "" /\ aend' = "error"
  /\ \E fl \in FlushXML(ax) :
       /\ ax' = fl.x /\ asaid' = Said(asaid, fl.c)
       /\ Sent(Send(Accumulate(ast, fl.c), [ev |-> "error"]))
\* The client has gone: nothing more is written.
Gone == aend = "" /\ aend' = "gone" /\ UNCHANGED <<asaid, ax, ast, aout>>

ANext == Line \/ Done \/ Broken \/ Gone
ASpec == AInit /\ [][ANext]_avars

-----------------------------------------------------------------------------
\* Where block i stands after the first n events: "" before its start, then
\* "open", then "shut".
BlockAt(i, n) ==
  IF \E m \in 1 .. n : aout[m] = Stop(i) THEN "shut"
  ELSE IF \E m \in 1 .. n : aout[m].ev = "start" /\ aout[m].i = i THEN "open" ELSE ""
Starts == {n \in DOMAIN aout : aout[n].ev = "start"}

\* Content blocks follow each other: none starts while another is open, none
\* starts twice, and deltas and stops go to the open one.
BlocksInTurn ==
  /\ \A n \in Starts : /\ BlockAt(aout[n].i, n - 1) = ""
                       /\ \A m \in Starts : m < n => BlockAt(aout[m].i, n - 1) = "shut"
  /\ \A n \in DOMAIN aout : aout[n].ev \in {"delta", "stop"} => BlockAt(aout[n].i, n - 1) = "open"

\* The arguments a client has for block i: the deltas of that index.
InputOf(i) ==
  FoldLeft(LAMBDA acc, e : IF e.ev = "delta" /\ e.i = i THEN acc \o e.data ELSE acc, <<>>, aout)
\* The last block of each call of the upstream holds all its arguments so far,
\* each once, and those of no other call.
InputComplete ==
  \A i \in UpIndexes :
    ast.calls[i].named =>
      LET input == InputOf(ast.calls[i].index) IN
      /\ \A n \in DOMAIN input : input[n] = input[1]
      /\ input # <<>> => Len(input) = asaid.args[input[1]]

\* A message that ends as tool_use has a tool block, one that ends as end_turn
\* has none (a call whose name never came excepted).
StopReasonHonest ==
  \A n \in DOMAIN aout : aout[n].ev = "message_delta" =>
    LET tools == \E m \in Starts : aout[m].kind = "tool" IN
    /\ aout[n].reason = "end_turn" => ~tools
    /\ aout[n].reason = "tool_use" => tools \/ \E i \in UpIndexes : ~ast.calls[i].named /\ ast.calls[i] # NoBlock
=============================================================================
