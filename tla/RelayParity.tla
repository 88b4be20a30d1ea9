----------------------------- MODULE RelayParity -----------------------------
(***************************************************************************)
(* The answer to one request asked for twice: as a stream (OpenAIStream)   *)
(* and as a single object, which the three relays of that kind build from  *)
(* the same upstream stream with convert.Accumulator.                      *)
(*                                                                         *)
(* A reasoning part carries no calls here; the accumulator looks for calls *)
(* in it, the stream does not.                                             *)
(***************************************************************************)
EXTENDS OpenAIStream

VARIABLE acc   \* Accumulator: calls by index, calls written as text, the last finish_reason

jvars == <<ovars, acc>>

NoCall == [name |-> "", args |-> <<>>, seen |-> FALSE]
JInit == OInit /\ acc = [calls |-> [i \in Indexes |-> NoCall], xml |-> 0, fin |-> ""]

\* addToolCall: the last name counts, arguments add up.
AddCall(calls, f) ==
  [calls EXCEPT ![f.idx].seen = TRUE, ![f.idx].name = IF f.name = "" THEN @ ELSE f.name,
                ![f.idx].args = IF f.arg THEN Append(@, f.of) ELSE @]
Accumulated(a, c) ==
  [a EXCEPT !.calls = FoldLeft(AddCall, @, c.tools), !.xml = IF c.content = "call" THEN @ + 1 ELSE @,
            !.fin = IF c.fin = "" THEN @ ELSE c.fin]

-----------------------------------------------------------------------------
\* Finish: calls in text count when there is no other; no reason given is one
\* of two.
Native(a) == {i \in Indexes : a.calls[i].seen}
Texted(a) == [n \in 1 .. a.xml |-> [name |-> "x", args |-> <<<<n - 1, "xml">>>>, seen |-> TRUE]]
Finished(a) ==
  LET native == [n \in 1 .. Cardinality(Native(a)) |-> a.calls[SetToSortSeq(Native(a), <)[n]]]
      calls == IF native = <<>> THEN Texted(a) ELSE native
  IN [calls |-> calls,
      fin |-> IF a.fin # "" THEN a.fin ELSE IF calls = <<>> THEN "stop" ELSE "tool_calls"]
\* StripEndTurnToolCalls on a whole message.
Unturned(calls) == SelectSeq(calls, LAMBDA k : k.name # Pseudo)
Stripped(r) ==
  LET left == Unturned(r.calls)
  IN [calls |-> left, fin |-> IF left = <<>> /\ r.fin = "tool_calls" THEN "stop" ELSE r.fin]

\* relayJSON: the reason in line with the calls left, unless they are native.
KeptReason(a, r) == r
Aligned(a, r) ==
  [r EXCEPT !.fin = IF r.calls = <<>> /\ @ = "tool_calls" THEN "stop"
                    ELSE IF r.calls # <<>> /\ @ = "stop" /\ Native(a) = {} THEN "tool_calls" ELSE @]
OpenAIAnswer(a) == Aligned(a, Stripped(Finished(a)))
\* relayAnthropicJSON: a tool_use block for each call left.
AnthropicAnswer(a) ==
  LET r == Finished(a)
      blocks == Unturned(r.calls)
  IN [calls |-> blocks,
      fin |-> IF r.fin = "length" THEN "max_tokens" ELSE IF blocks = <<>> THEN "end_turn" ELSE "tool_use"]
\* relayResponsesJSON.
ResponsesAnswer(a) ==
  LET r == Stripped(Finished(a))
  IN [calls |-> r.calls, fin |-> IF r.fin = "length" THEN "incomplete" ELSE "completed"]

-----------------------------------------------------------------------------
JLine == \E c \in Chunks(osaid) : Relayed(c) /\ acc' = Accumulated(acc, c)
\* What the stream's extractor finds in the block still open, Finish finds too.
JEnd ==
  \E how \in {"done", "error"}, fl \in FlushXML(ox) :
    /\ Ended(how, fl)
    /\ acc' = [acc EXCEPT !.xml = @ + Len(fl.c.tools)]
JGone == OGone /\ UNCHANGED acc
JNext == JLine \/ JEnd \/ JGone
JSpec == JInit /\ [][JNext]_jvars

-----------------------------------------------------------------------------
\* The argument fragments of call k as a client of the stream has them.
StreamedArgs(k) ==
  FoldLeft(LAMBDA n, fr : n + Len(SelectSeq(fr.tools, LAMBDA f : f.of = k /\ f.arg)), 0, oout)

\* The stream and the three single answers agree: the same calls with the same
\* arguments, and an end that says so; for a stream that calls tools one way.
AnswersAgree ==
  oend = "done" /\ ~({"native", "text"} \subseteq osaid.mix) /\ Honest /\ osaid.fin # "" =>
    LET one == OpenAIAnswer(acc)
        two == AnthropicAnswer(acc)
    IN /\ Len(one.calls) = Cardinality(Delivered)
       /\ \A n \in DOMAIN one.calls :
            LET args == one.calls[n].args IN
            args # <<>> => /\ Len(args) = StreamedArgs(args[1])
                           /\ \A m \in DOMAIN args : args[m] = args[1]
       /\ one.fin = LastFinish
       /\ two.calls = one.calls /\ ResponsesAnswer(acc).calls = one.calls
       /\ two.fin = "tool_use" => one.calls # <<>>
       /\ two.fin = "end_turn" => one.fin = "stop"
       /\ (two.fin = "max_tokens") = (one.fin = "length")
=============================================================================
