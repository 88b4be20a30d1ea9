------------------------ MODULE BridgeEntries_proofs ------------------------
(***************************************************************************)
(* A turn in bridge mode is served by an entry the cache still holds, for  *)
(* every number of requests, tokens and entries and every cache size.      *)
(***************************************************************************)
EXTENDS BridgeEntries, FiniteSetTheorems, SequenceTheorems, TLAPS

\* Where a request has an entry at hand.
WithEntry == {"check", "slot", "admit", "once", "ensure", "close", "result", "verify", "ready",
              "start", "confirm", "leased", "fail"}

\* What holds of a process at pc with locals l, under cache c: a request that
\* left home knows its token and model, and from the lookup on its entry;
\* whoever drains has something to drain; a lease is on a cached entry.
Sound(p, pc, l, c) ==
  /\ p \in Requests =>
       /\ pc # "stopped"
       /\ pc # "idle" => l.tok \in Tokens /\ l.model \in Models
       /\ pc \in WithEntry => l.ent \in Bridges
       /\ l.next \in {"idle", "check"}
       /\ l.next = "check" => l.ent \in Bridges /\ l.tok \in Tokens /\ l.model \in Models
       /\ pc = "fail" => l.err # ""
       /\ pc = "leased" => c[l.tok] = l.ent
  /\ p = Maint => pc \in {"idle", "finish", "end", "stopped"} /\ l.next \in {"idle", "stopped"}
  /\ pc \in {"finish", "end"} => l.drain # <<>>

\* The inductive invariant.
IInv ==
  /\ cache \in [Tokens -> Bridges \cup {NoBridge}]
  /\ aerr \in [Bridges -> {"", "auth", "other"}]
  /\ bpc \in [Procs -> BPCs] /\ bloc \in [Procs -> BLocals]
  /\ \A p \in Procs : Sound(p, bpc[p], bloc[p], cache)

-----------------------------------------------------------------------------
(* The shapes a step has.                                                  *)

\* The locals of a process at home.
LEMMA HomeLocals ==
  ASSUME BridgeAssumption
  PROVE  /\ NoBLoc \in BLocals
         /\ NoBLoc.next = "idle" /\ NoBLoc.drain = <<>>
BY DEF BridgeAssumption, NoBLoc, BLocals, BPCs

\* A step of one process that leaves the cache alone.
LEMMA Moves ==
  ASSUME IInv, NEW p \in Procs, NEW w \in BPCs, NEW l \in BLocals, Goto(p, w, l),
         Sound(p, w, l, cache), UNCHANGED cache, aerr' \in [Bridges -> {"", "auth", "other"}]
  PROVE  IInv'
<1>1. bpc' = [bpc EXCEPT ![p] = w] /\ bloc' = [bloc EXCEPT ![p] = l]
  BY DEF Goto
<1>2. bpc' \in [Procs -> BPCs] /\ bloc' \in [Procs -> BLocals]
  BY <1>1 DEF IInv
<1>3. ASSUME NEW q \in Procs PROVE Sound(q, bpc'[q], bloc'[q], cache')
  <2>1. CASE q = p
    BY <1>1, <2>1 DEF IInv
  <2>2. CASE q # p
    <3>1. bpc'[q] = bpc[q] /\ bloc'[q] = bloc[q]
      BY <1>1, <2>2 DEF IInv
    <3> QED BY <3>1 DEF IInv
  <2> QED BY <2>1, <2>2
<1> QED BY <1>2, <1>3 DEF IInv

\* A step of one process that takes the entries v, none of them on lease, out of
\* the cache, after it may have put one in for its own token.
LEMMA Drops ==
  ASSUME IInv, NEW p \in Procs, NEW w \in BPCs, NEW l \in BLocals, Goto(p, w, l),
         NEW c \in [Tokens -> Bridges \cup {NoBridge}], NEW v, NEW o, Drop(c, o, v),
         \A b \in v : Leases(b) = {},
         \A t \in Tokens : cache[t] # NoBridge => c[t] = cache[t],
         NoBridge \notin Bridges,
         w # "leased", Sound(p, w, l, cache), UNCHANGED aerr
  PROVE  IInv'
<1>1. bpc' = [bpc EXCEPT ![p] = w] /\ bloc' = [bloc EXCEPT ![p] = l]
  BY DEF Goto
<1>2. bpc' \in [Procs -> BPCs] /\ bloc' \in [Procs -> BLocals]
  BY <1>1 DEF IInv
<1>3. cache' = [t \in Tokens |-> IF c[t] \in v THEN NoBridge ELSE c[t]]
  BY DEF Drop
<1>4. cache' \in [Tokens -> Bridges \cup {NoBridge}]
  BY <1>3
<1>5. ASSUME NEW q \in Procs PROVE Sound(q, bpc'[q], bloc'[q], cache')
  <2>1. CASE q = p
    BY <1>1, <2>1 DEF IInv, Sound
  <2>2. CASE q # p
    <3>1. bpc'[q] = bpc[q] /\ bloc'[q] = bloc[q] /\ Sound(q, bpc[q], bloc[q], cache)
      BY <1>1, <2>2 DEF IInv
    <3>2. q \in Requests /\ bpc[q] = "leased" => cache'[bloc[q].tok] = bloc[q].ent
      <4> SUFFICES ASSUME q \in Requests, bpc[q] = "leased"
                   PROVE  cache'[bloc[q].tok] = bloc[q].ent
        OBVIOUS
      <4>1. /\ bloc[q].tok \in Tokens /\ bloc[q].ent \in Bridges
            /\ cache[bloc[q].tok] = bloc[q].ent
        BY <3>1 DEF Sound, WithEntry
      <4>2. q \in Leases(bloc[q].ent)
        BY DEF Leases
      <4>3. c[bloc[q].tok] = bloc[q].ent /\ bloc[q].ent \notin v
        BY <4>1, <4>2
      <4> QED BY <1>3, <4>1, <4>3
    <3> QED BY <3>1, <3>2 DEF Sound
  <2> QED BY <2>1, <2>2
<1> QED BY <1>2, <1>4, <1>5 DEF IInv

\* A list of all of a finite, nonempty set of entries is a nonempty list of them.
LEMMA ListOf ==
  ASSUME BridgeAssumption, NEW v \in SUBSET Bridges, NEW s \in SetToSeqs(v)
  PROVE  s \in Seq(Bridges) /\ (v # {} => s # <<>>)
<1>1. IsFiniteSet(v) /\ Cardinality(v) \in Nat /\ (v # {} => Cardinality(v) # 0)
  BY FS_Subset, FS_CardinalityType, FS_EmptySet DEF BridgeAssumption
<1>2. s \in [1 .. Cardinality(v) -> v]
  BY DEF SetToSeqs
<1> QED BY <1>1, <1>2

\* The entry, place and locals of a request that is on its way.
LEMMA OnItsWay ==
  ASSUME BridgeAssumption, IInv, NEW r \in Requests
  PROVE  /\ r \in Procs /\ r # Maint
         /\ bloc[r] \in BLocals /\ bpc[r] \in BPCs
         /\ Sound(r, bpc[r], bloc[r], cache)
         /\ bpc[r] \in WithEntry => Ent(r) = bloc[r].ent /\ Ent(r) \in Bridges
BY DEF BridgeAssumption, IInv, Procs, Sound, Ent

\* Going home is always sound.
LEMMA Leaves ==
  ASSUME BridgeAssumption, IInv, NEW p \in Procs, Leave(p), UNCHANGED cache,
         aerr' \in [Bridges -> {"", "auth", "other"}]
  PROVE  IInv'
<1>1. Sound(p, "idle", NoBLoc, cache)
  BY HomeLocals DEF Sound, WithEntry
<1>2. "idle" \in BPCs
  BY DEF BPCs
<1> QED BY <1>1, <1>2, HomeLocals, Moves DEF Leave

\* A request that goes on with the same entry, from one place of WithEntry to
\* another that is not a lease or a failure.
LEMMA Steps ==
  ASSUME BridgeAssumption, IInv, NEW r \in Requests, NEW w \in WithEntry \ {"leased", "fail"},
         bpc[r] \in WithEntry, Step(r, w), UNCHANGED cache,
         aerr' \in [Bridges -> {"", "auth", "other"}]
  PROVE  IInv'
<1>1. /\ r \in Procs /\ r # Maint /\ bloc[r] \in BLocals
      /\ Sound(r, bpc[r], bloc[r], cache) /\ w \in BPCs
  BY OnItsWay DEF WithEntry, BPCs
<1>2. Sound(r, w, bloc[r], cache)
  BY <1>1 DEF Sound, WithEntry
<1> QED BY <1>1, <1>2, Moves DEF Step

\* A step that does not touch what the invariant is about.
LEMMA Stutters ==
  ASSUME IInv, UNCHANGED <<cache, aerr, bpc, bloc>>
  PROVE  IInv'
BY DEF IInv, Sound

\* A new gate forgets the error.
LEMMA GateFresh ==
  ASSUME IInv, NEW b \in Bridges, FreshGate(b)
  PROVE  aerr' \in [Bridges -> {"", "auth", "other"}]
BY DEF IInv, FreshGate

-----------------------------------------------------------------------------
(* The way to an entry.                                                    *)

LEMMA InitSound ==
  ASSUME BridgeAssumption, BInit
  PROVE  IInv
<1>1. \A p \in Procs : Sound(p, bpc[p], bloc[p], cache)
  BY HomeLocals DEF BInit, Sound, WithEntry
<1> QED BY <1>1, HomeLocals DEF BInit, IInv, BPCs

LEMMA AcquireBridgeSound ==
  ASSUME BridgeAssumption, IInv, NEW r \in Requests, AcquireBridge(r)
  PROVE  IInv'
<1>1. PICK t \in Tokens, m \in Models :
        Goto(r, "lookup", [NoBLoc EXCEPT !.tok = t, !.model = m])
  BY DEF AcquireBridge
<1> DEFINE l == [NoBLoc EXCEPT !.tok = t, !.model = m]
<1>2. l \in BLocals /\ l.tok = t /\ l.model = m /\ l.next = "idle"
  BY HomeLocals DEF NoBLoc, BLocals
<1>3. "lookup" \in BPCs /\ r \in Procs /\ r # Maint
  BY OnItsWay DEF BPCs
<1>4. Sound(r, "lookup", l, cache)
  BY <1>2, <1>3 DEF Sound, WithEntry
<1>5. UNCHANGED <<cache, aerr>> /\ aerr' \in [Bridges -> {"", "auth", "other"}]
  BY DEF AcquireBridge, cacheVars, gateVars, IInv
<1> QED BY <1>1, <1>2, <1>3, <1>4, <1>5, Moves

\* A request that has found the entry of its token.
LEMMA Found ==
  ASSUME BridgeAssumption, IInv, NEW r \in Requests, bpc[r] \in {"lookup", "create", "insert"},
         NEW b \in Bridges, Goto(r, "check", [bloc[r] EXCEPT !.ent = b]), UNCHANGED <<cache, aerr>>
  PROVE  IInv'
<1> DEFINE l == [bloc[r] EXCEPT !.ent = b]
<1>1. /\ r \in Procs /\ r # Maint /\ bloc[r] \in BLocals /\ "check" \in BPCs
      /\ Sound(r, bpc[r], bloc[r], cache)
  BY OnItsWay DEF BPCs
<1>2. /\ l \in BLocals /\ l.ent = b /\ l.tok = bloc[r].tok /\ l.model = bloc[r].model
      /\ l.next = bloc[r].next
  BY <1>1 DEF BLocals
<1>3. Sound(r, "check", l, cache)
  BY <1>1, <1>2 DEF Sound, WithEntry
<1>4. aerr' \in [Bridges -> {"", "auth", "other"}]
  BY DEF IInv
<1> QED BY <1>1, <1>2, <1>3, <1>4, Moves

LEMMA LookupSound ==
  ASSUME BridgeAssumption, IInv, NEW r \in Requests, Lookup(r)
  PROVE  IInv'
<1>1. /\ r \in Procs /\ r # Maint /\ bloc[r] \in BLocals /\ Sound(r, bpc[r], bloc[r], cache)
      /\ bpc[r] \in {"lookup", "create"} /\ UNCHANGED <<cache, aerr>>
  BY OnItsWay DEF Lookup, gateVars
<1>2. bloc[r].tok \in Tokens
  BY <1>1 DEF Sound
<1>3. CASE cache[bloc[r].tok] # NoBridge
  <2>1. cache[bloc[r].tok] \in Bridges
    BY <1>2, <1>3 DEF IInv
  <2>2. Goto(r, "check", [bloc[r] EXCEPT !.ent = cache[bloc[r].tok]])
    BY <1>3 DEF Lookup
  <2> QED BY <1>1, <2>1, <2>2, Found
<1>4. CASE cache[bloc[r].tok] = NoBridge
  <2> DEFINE w == IF bpc[r] = "lookup" THEN "create" ELSE "probe"
  <2>1. Step(r, w)
    BY <1>4 DEF Lookup
  <2>2. w \in BPCs /\ Sound(r, w, bloc[r], cache)
    BY <1>1 DEF BPCs, Sound, WithEntry
  <2>3. aerr' \in [Bridges -> {"", "auth", "other"}]
    BY <1>1 DEF IInv
  <2> HIDE DEF w
  <2> QED BY <1>1, <2>1, <2>2, <2>3, Moves DEF Step
<1> QED BY <1>3, <1>4

LEMMA ProbeSound ==
  ASSUME BridgeAssumption, IInv, NEW r \in Requests, Probe(r)
  PROVE  IInv'
<1>1. /\ r \in Procs /\ r # Maint /\ bloc[r] \in BLocals /\ Sound(r, bpc[r], bloc[r], cache)
      /\ bpc[r] = "probe" /\ UNCHANGED <<cache, aerr>>
      /\ aerr' \in [Bridges -> {"", "auth", "other"}]
  BY OnItsWay DEF Probe, gateVars, cacheVars, IInv
<1>2. CASE Step(r, "insert")
  <2>1. "insert" \in BPCs /\ Sound(r, "insert", bloc[r], cache)
    BY <1>1 DEF BPCs, Sound, WithEntry
  <2> QED BY <1>1, <1>2, <2>1, Moves DEF Step
<1>3. CASE Leave(r)
  BY <1>1, <1>3, Leaves
<1> QED BY <1>2, <1>3 DEF Probe

LEMMA ReuseSound ==
  ASSUME BridgeAssumption, IInv, NEW r \in Requests, Reuse(r)
  PROVE  IInv'
<1>1. bpc[r] = "insert" /\ bloc[r].tok \in Tokens /\ UNCHANGED <<cache, aerr>>
  BY OnItsWay DEF Reuse, Sound, cacheVars, gateVars
<1>2. cache[bloc[r].tok] \in Bridges
  BY <1>1 DEF Reuse, IInv
<1> QED BY <1>1, <1>2, Found DEF Reuse

\* The eviction never takes an entry with a lease.
LEMMA VictimsAreFree ==
  ASSUME NEW c, NEW o, NEW b, NEW x \in Victims(c, o, b)
  PROVE  x \in Bridges /\ Leases(x) = {}
BY DEF Victims, Evictable

LEMMA InsertSound ==
  ASSUME BridgeAssumption, IInv, NEW r \in Requests, Insert(r)
  PROVE  IInv'
<1> DEFINE t == bloc[r].tok
           C(b) == [cache EXCEPT ![t] = b]
           V(b) == Victims(C(b), Append(order, t), b)
           W(b) == IF V(b) = {} THEN "check" ELSE "finish"
           L(b, s) == [bloc[r] EXCEPT !.ent = b, !.drain = s, !.next = "check"]
<1>1. /\ r \in Procs /\ r # Maint /\ bloc[r] \in BLocals /\ Sound(r, bpc[r], bloc[r], cache)
      /\ bpc[r] = "insert" /\ cache[t] = NoBridge /\ UNCHANGED aerr
  BY OnItsWay DEF Insert, gateVars
<1>2. t \in Tokens /\ bloc[r].model \in Models
  BY <1>1 DEF Sound
<1>3. PICK b \in Bridges : /\ Drop(C(b), Append(order, t), V(b))
                           /\ \E s \in SetToSeqs(V(b)) : Goto(r, W(b), L(b, s))
  BY DEF Insert
<1>4. PICK s \in SetToSeqs(V(b)) : Goto(r, W(b), L(b, s))
  BY <1>3
<1>5. V(b) \in SUBSET Bridges /\ \A x \in V(b) : Leases(x) = {}
  BY VictimsAreFree
<1>6. s \in Seq(Bridges) /\ (V(b) # {} => s # <<>>)
  BY <1>5, ListOf
<1>7. /\ L(b, s) \in BLocals /\ L(b, s).tok = t /\ L(b, s).model = bloc[r].model
      /\ L(b, s).ent = b /\ L(b, s).drain = s /\ L(b, s).next = "check"
  BY <1>1, <1>6 DEF BLocals, BPCs
<1>8. W(b) \in {"check", "finish"} /\ W(b) \in BPCs /\ (W(b) = "finish" => V(b) # {})
  BY DEF BPCs
<1>9. Sound(r, W(b), L(b, s), cache)
  <2> HIDE DEF W, L, V
  <2> QED BY <1>1, <1>2, <1>6, <1>7, <1>8 DEF Sound, WithEntry
<1>10. /\ C(b) \in [Tokens -> Bridges \cup {NoBridge}]
       /\ \A u \in Tokens : cache[u] # NoBridge => C(b)[u] = cache[u]
  BY <1>1, <1>2 DEF IInv
<1>11. W(b) # "leased" /\ NoBridge \notin Bridges
  BY <1>8 DEF BridgeAssumption
<1> HIDE DEF W, L, V, C
<1> QED BY <1>1, <1>3, <1>4, <1>5, <1>7, <1>8, <1>9, <1>10, <1>11, Drops

-----------------------------------------------------------------------------
(* The drain.                                                              *)

LEMMA FinishRunsSound ==
  ASSUME BridgeAssumption, IInv, NEW p \in Procs, FinishRuns(p)
  PROVE  IInv'
<1>1. /\ bpc[p] = "finish" /\ Step(p, "end") /\ UNCHANGED <<cache, aerr>>
      /\ bloc[p] \in BLocals /\ Sound(p, "finish", bloc[p], cache)
      /\ aerr' \in [Bridges -> {"", "auth", "other"}] /\ "end" \in BPCs
  BY DEF FinishRuns, cacheVars, gateVars, IInv, BPCs
<1>2. Sound(p, "end", bloc[p], cache)
  BY <1>1 DEF Sound, WithEntry
<1> QED BY <1>1, <1>2, Moves DEF Step

LEMMA EndSessionSound ==
  ASSUME BridgeAssumption, IInv, NEW p \in Procs, EndSession(p)
  PROVE  IInv'
<1> DEFINE l == bloc[p]
           rest == Tail(l.drain)
<1>1. /\ bpc[p] = "end" /\ UNCHANGED <<cache, aerr>>
      /\ l \in BLocals /\ Sound(p, "end", l, cache)
      /\ aerr' \in [Bridges -> {"", "auth", "other"}]
  BY DEF EndSession, cacheVars, gateVars, IInv
<1>2. rest \in Seq(Bridges) /\ l.drain \in Seq(Bridges) /\ l.drain # <<>>
  <2>1. l.drain \in Seq(Bridges)
    BY <1>1 DEF BLocals
  <2>2. l.drain # <<>>
    BY <1>1 DEF Sound
  <2> HIDE DEF l
  <2> QED BY <2>1, <2>2
<1>3. CASE rest = <<>> /\ l.next = "idle"
  BY <1>1, <1>3, Leaves DEF EndSession
<1>4. CASE rest = <<>> /\ l.next # "idle"
  <2> DEFINE k == [l EXCEPT !.drain = <<>>, !.next = "idle"]
  <2>1. Goto(p, l.next, k)
    BY <1>4 DEF EndSession
  <2>2. /\ k \in BLocals /\ k.tok = l.tok /\ k.model = l.model /\ k.ent = l.ent
        /\ k.next = "idle" /\ l.next \in BPCs
    <3>1. "idle" \in BPCs /\ <<>> \in Seq(Bridges)
      BY DEF BPCs
    <3> HIDE DEF l
    <3> QED BY <1>1, <3>1 DEF BLocals
  <2>3. p \in Requests => Sound(p, l.next, k, cache)
    <3> SUFFICES ASSUME p \in Requests PROVE Sound(p, l.next, k, cache)
      OBVIOUS
    <3>1. l.next = "check" /\ p # Maint
      BY <1>1, <1>4 DEF Sound, BridgeAssumption
    <3> QED BY <1>1, <2>2, <3>1 DEF Sound, WithEntry
  <2>4. p = Maint => Sound(p, l.next, k, cache)
    <3> SUFFICES ASSUME p = Maint PROVE Sound(p, l.next, k, cache)
      OBVIOUS
    <3>1. l.next = "stopped" /\ p \notin Requests
      BY <1>1, <1>4 DEF Sound, BridgeAssumption
    <3> QED BY <2>2, <3>1 DEF Sound
  <2>5. Sound(p, l.next, k, cache)
    BY <2>3, <2>4 DEF Procs
  <2> QED BY <1>1, <2>1, <2>2, <2>5, Moves
<1>5. CASE rest # <<>>
  <2> DEFINE k == [l EXCEPT !.drain = rest]
  <2>1. Goto(p, "finish", k) /\ "finish" \in BPCs
    BY <1>5 DEF EndSession, BPCs
  <2>2. /\ k \in BLocals /\ k.tok = l.tok /\ k.model = l.model /\ k.ent = l.ent
        /\ k.next = l.next /\ k.drain = rest
    BY <1>1, <1>2 DEF BLocals
  <2>3. Sound(p, "finish", k, cache)
    BY <1>1, <1>5, <2>2 DEF Sound, WithEntry
  <2> QED BY <1>1, <2>1, <2>2, <2>3, Moves
<1> QED BY <1>3, <1>4, <1>5

LEMMA EvictTokenSound ==
  ASSUME BridgeAssumption, IInv, NEW r \in Requests, EvictToken(r)
  PROVE  IInv'
<1> DEFINE b == cache[bloc[r].tok]
           s == <<b>>
           k == [NoBLoc EXCEPT !.tok = bloc[r].tok, !.model = bloc[r].model, !.ent = Ent(r)]
           l == [k EXCEPT !.slot = bloc[r].slot, !.drain = s]
<1>1. /\ r \in Procs /\ r # Maint /\ bloc[r] \in BLocals /\ Sound(r, bpc[r], bloc[r], cache)
      /\ bpc[r] = "fail" /\ UNCHANGED aerr /\ bloc[r].tok \in Tokens /\ bloc[r].model \in Models
      /\ aerr' \in [Bridges -> {"", "auth", "other"}] /\ Ent(r) \in Bridges
  BY OnItsWay DEF EvictToken, gateVars, Sound, IInv, WithEntry
<1>2. CASE b = NoBridge \/ Leases(b) # {}
  BY <1>1, <1>2, Leaves DEF EvictToken
<1>3. CASE b # NoBridge /\ Leases(b) = {}
  <2>1. Drop(cache, order, {b}) /\ Goto(r, "finish", l) /\ "finish" \in BPCs
    BY <1>3 DEF EvictToken, BPCs
  <2>2. b \in Bridges
    BY <1>1, <1>3 DEF IInv
  <2>3. /\ l \in BLocals /\ l.tok = bloc[r].tok /\ l.model = bloc[r].model
        /\ l.ent = Ent(r) /\ l.drain # <<>> /\ l.next = "idle"
    <3>1. bloc[r].slot \in BOOLEAN
      BY <1>1 DEF BLocals
    <3> HIDE DEF b
    <3>2. s \in Seq(Bridges) /\ s # <<>>
      BY <2>2
    <3> HIDE DEF s
    <3>3. /\ k \in BLocals /\ k.tok = bloc[r].tok /\ k.model = bloc[r].model /\ k.ent = Ent(r)
          /\ k.next = "idle"
      BY <1>1, HomeLocals DEF BLocals, NoBLoc
    <3> HIDE DEF k
    <3> QED BY <1>1, <3>1, <3>2, <3>3 DEF BLocals
  <2>4. Sound(r, "finish", l, cache)
    BY <1>1, <2>3 DEF Sound, WithEntry
  <2> DEFINE v == {b}
  <2>5. /\ cache \in [Tokens -> Bridges \cup {NoBridge}] /\ NoBridge \notin Bridges
        /\ \A x \in v : Leases(x) = {}
        /\ Drop(cache, order, v)
    BY <1>3, <2>1 DEF IInv, BridgeAssumption
  <2> HIDE DEF l, b, v
  <2> QED BY <1>1, <1>3, <2>1, <2>3, <2>4, <2>5, Drops
<1> QED BY <1>2, <1>3

LEMMA SweepSound ==
  ASSUME BridgeAssumption, IInv, Sweep
  PROVE  IInv'
<1> DEFINE v == {b \in Bridges : Cached(b) /\ Leases(b) = {} /\ b \notin barred /\ b \in stale}
           L(s) == [NoBLoc EXCEPT !.drain = s]
<1>1. PICK s \in SetToSeqs(v) : Goto(Maint, "finish", L(s))
  BY DEF Sweep
<1>2. v # {} /\ Drop(cache, order, v) /\ UNCHANGED aerr /\ "finish" \in BPCs /\ Maint \in Procs
  BY DEF Sweep, gateVars, BPCs, Procs
<1>3. s \in Seq(Bridges) /\ s # <<>>
  BY <1>2, ListOf
<1>4. L(s) \in BLocals /\ L(s).drain = s /\ L(s).next = "idle"
  BY <1>3, HomeLocals DEF BLocals, NoBLoc
<1>5. Sound(Maint, "finish", L(s), cache)
  BY <1>3, <1>4 DEF Sound, BridgeAssumption
<1>6. cache \in [Tokens -> Bridges \cup {NoBridge}] /\ NoBridge \notin Bridges
      /\ \A b \in v : Leases(b) = {}
  BY DEF IInv, BridgeAssumption
<1> HIDE DEF v, L
<1> QED BY <1>1, <1>2, <1>4, <1>5, <1>6, Drops

LEMMA ShutdownSound ==
  ASSUME BridgeAssumption, IInv, Shutdown
  PROVE  IInv'
<1> DEFINE v == {b \in Bridges : Cached(b)}
           L(s) == [NoBLoc EXCEPT !.drain = s, !.next = "stopped"]
<1>1. /\ UNCHANGED <<cache, aerr>> /\ "finish" \in BPCs /\ "stopped" \in BPCs /\ Maint \in Procs
      /\ bpc[Maint] = "idle" /\ bloc[Maint] \in BLocals /\ Maint \notin Requests
      /\ Sound(Maint, bpc[Maint], bloc[Maint], cache)
      /\ aerr' \in [Bridges -> {"", "auth", "other"}]
  BY DEF Shutdown, cacheVars, gateVars, BPCs, Procs, IInv, BridgeAssumption
<1>2. CASE v = {}
  <2>1. Step(Maint, "stopped") /\ Sound(Maint, "stopped", bloc[Maint], cache)
    BY <1>1, <1>2 DEF Shutdown, Sound
  <2> QED BY <1>1, <2>1, Moves DEF Step
<1>3. CASE v # {}
  <2>1. PICK s \in SetToSeqs(v) : Goto(Maint, "finish", L(s))
    BY <1>3 DEF Shutdown
  <2>2. s \in Seq(Bridges) /\ s # <<>>
    BY <1>3, ListOf
  <2>3. L(s) \in BLocals /\ L(s).drain = s /\ L(s).next = "stopped"
    BY <1>1, <2>2, HomeLocals DEF BLocals, NoBLoc
  <2>4. Sound(Maint, "finish", L(s), cache)
    BY <1>1, <2>2, <2>3 DEF Sound
  <2> HIDE DEF v, L
  <2> QED BY <1>1, <2>1, <2>3, <2>4, Moves
<1> QED BY <1>2, <1>3

-----------------------------------------------------------------------------
(* Slot, admission and lease.                                              *)

LEMMA CheckSound ==
  ASSUME BridgeAssumption, IInv, NEW r \in Requests, Check(r)
  PROVE  IInv'
<1>1. /\ bpc[r] = "check" /\ bpc[r] \in WithEntry /\ UNCHANGED cache
      /\ Ent(r) \in Bridges /\ r \in Procs
  BY OnItsWay DEF Check, cacheVars, WithEntry
<1>2. aerr' \in [Bridges -> {"", "auth", "other"}]
  BY DEF Check, gateVars, IInv
<1>3. CASE Step(r, "slot")
  BY <1>1, <1>2, <1>3, Steps DEF WithEntry
<1>4. CASE Leave(r)
  BY <1>1, <1>2, <1>4, Leaves
<1> QED BY <1>3, <1>4 DEF Check

LEMMA SlotSound ==
  ASSUME BridgeAssumption, IInv, NEW r \in Requests, Slot(r)
  PROVE  IInv'
<1>1. /\ bpc[r] = "slot" /\ bpc[r] \in WithEntry /\ UNCHANGED cache
      /\ Ent(r) \in Bridges /\ r \in Procs
  BY OnItsWay DEF Slot, cacheVars, WithEntry
<1>2. aerr' \in [Bridges -> {"", "auth", "other"}]
  BY DEF Slot, gateVars, IInv
<1> DEFINE l == [bloc[r] EXCEPT !.slot = TRUE]
<1>3. Goto(r, "admit", l) /\ "admit" \in BPCs
  BY DEF Slot, BPCs
<1>4. bloc[r] \in BLocals /\ Sound(r, "slot", bloc[r], cache) /\ r # Maint
  BY <1>1, OnItsWay
<1>5. /\ l \in BLocals /\ l.tok = bloc[r].tok /\ l.model = bloc[r].model /\ l.ent = bloc[r].ent
      /\ l.next = bloc[r].next
  BY <1>4 DEF BLocals
<1>6. Sound(r, "admit", l, cache)
  BY <1>4, <1>5 DEF Sound, WithEntry
<1> QED BY <1>1, <1>2, <1>3, <1>5, <1>6, Moves

LEMMA NoSlotSound ==
  ASSUME BridgeAssumption, IInv, NEW r \in Requests, NoSlot(r)
  PROVE  IInv'
<1>1. /\ bpc[r] = "slot" /\ bpc[r] \in WithEntry /\ UNCHANGED cache
      /\ Ent(r) \in Bridges /\ r \in Procs
  BY OnItsWay DEF NoSlot, cacheVars, WithEntry
<1>2. aerr' \in [Bridges -> {"", "auth", "other"}]
  BY DEF NoSlot, gateVars, IInv
<1> QED BY <1>1, <1>2, Leaves DEF NoSlot

LEMMA AdmitSound ==
  ASSUME BridgeAssumption, IInv, NEW r \in Requests, Admit(r)
  PROVE  IInv'
<1>1. /\ bpc[r] = "admit" /\ bpc[r] \in WithEntry /\ UNCHANGED cache
      /\ Ent(r) \in Bridges /\ r \in Procs
  BY OnItsWay DEF Admit, cacheVars, WithEntry
<1>2. aerr' \in [Bridges -> {"", "auth", "other"}]
  BY <1>1, GateFresh DEF Admit, gateVars, IInv
<1>3. CASE Step(r, "ready")
  BY <1>1, <1>2, <1>3, Steps DEF WithEntry
<1>4. CASE Step(r, "once")
  BY <1>1, <1>2, <1>4, Steps DEF WithEntry
<1> QED BY <1>3, <1>4 DEF Admit

LEMMA LeadSound ==
  ASSUME BridgeAssumption, IInv, NEW r \in Requests, Lead(r)
  PROVE  IInv'
<1>1. /\ bpc[r] = "once" /\ bpc[r] \in WithEntry /\ UNCHANGED cache
      /\ Ent(r) \in Bridges /\ r \in Procs
  BY OnItsWay DEF Lead, cacheVars, WithEntry
<1>2. aerr' \in [Bridges -> {"", "auth", "other"}]
  BY DEF Lead, gateVars, IInv
<1> QED BY <1>1, <1>2, Steps DEF Lead, WithEntry

LEMMA FollowSound ==
  ASSUME BridgeAssumption, IInv, NEW r \in Requests, Follow(r)
  PROVE  IInv'
<1>1. /\ bpc[r] = "once" /\ bpc[r] \in WithEntry /\ UNCHANGED cache
      /\ Ent(r) \in Bridges /\ r \in Procs
  BY OnItsWay DEF Follow, cacheVars, WithEntry
<1>2. aerr' \in [Bridges -> {"", "auth", "other"}]
  BY DEF Follow, gateVars, IInv
<1> QED BY <1>1, <1>2, Steps DEF Follow, WithEntry

LEMMA EnsureSound ==
  ASSUME BridgeAssumption, IInv, NEW r \in Requests, Ensure(r)
  PROVE  IInv'
<1>1. /\ bpc[r] = "ensure" /\ bpc[r] \in WithEntry /\ UNCHANGED cache
      /\ Ent(r) \in Bridges /\ r \in Procs
  BY OnItsWay DEF Ensure, cacheVars, WithEntry
<1>2. aerr' \in [Bridges -> {"", "auth", "other"}]
  BY <1>1 DEF Ensure, IInv
<1> QED BY <1>1, <1>2, Steps DEF Ensure, WithEntry

LEMMA CloseSound ==
  ASSUME BridgeAssumption, IInv, NEW r \in Requests, Close(r)
  PROVE  IInv'
<1>1. /\ bpc[r] = "close" /\ bpc[r] \in WithEntry /\ UNCHANGED cache
      /\ Ent(r) \in Bridges /\ r \in Procs
  BY OnItsWay DEF Close, cacheVars, WithEntry
<1>2. aerr' \in [Bridges -> {"", "auth", "other"}]
  BY DEF Close, gateVars, IInv
<1>3. CASE Step(r, "result")
  BY <1>1, <1>2, <1>3, Steps DEF WithEntry
<1>4. CASE Leave(r)
  BY <1>1, <1>2, <1>4, Leaves
<1> QED BY <1>3, <1>4 DEF Close

LEMMA ResultSound ==
  ASSUME BridgeAssumption, IInv, NEW r \in Requests, Result(r)
  PROVE  IInv'
<1>1. /\ bpc[r] = "result" /\ bpc[r] \in WithEntry /\ UNCHANGED cache
      /\ Ent(r) \in Bridges /\ r \in Procs
  BY OnItsWay DEF Result, cacheVars, WithEntry
<1>2. aerr' \in [Bridges -> {"", "auth", "other"}]
  BY <1>1, GateFresh DEF Result, gateVars, IInv
<1>3. CASE aerr[Ent(r)] = ""
  BY <1>1, <1>2, <1>3, Steps DEF Result, WithEntry
<1>4. CASE aerr[Ent(r)] # ""
  <2> DEFINE l == [bloc[r] EXCEPT !.err = aerr[Ent(r)]]
  <2>1. Goto(r, "fail", l) /\ "fail" \in BPCs
    BY <1>4 DEF Result, BPCs
  <2>2. bloc[r] \in BLocals /\ Sound(r, "result", bloc[r], cache) /\ r # Maint
    BY <1>1, OnItsWay
  <2>3. aerr[Ent(r)] \in {"", "auth", "other"}
    BY <1>1 DEF IInv
  <2>4. /\ l \in BLocals /\ l.tok = bloc[r].tok /\ l.model = bloc[r].model /\ l.ent = bloc[r].ent
        /\ l.next = bloc[r].next /\ l.err # ""
    BY <1>4, <2>2, <2>3 DEF BLocals
  <2>5. Sound(r, "fail", l, cache)
    BY <2>2, <2>4 DEF Sound, WithEntry
  <2> QED BY <1>1, <1>2, <2>1, <2>4, <2>5, Moves
<1> QED BY <1>3, <1>4

LEMMA VerifySound ==
  ASSUME BridgeAssumption, IInv, NEW r \in Requests, Verify(r)
  PROVE  IInv'
<1>1. /\ bpc[r] = "verify" /\ bpc[r] \in WithEntry /\ UNCHANGED cache
      /\ Ent(r) \in Bridges /\ r \in Procs
  BY OnItsWay DEF Verify, cacheVars, WithEntry
<1>2. aerr' \in [Bridges -> {"", "auth", "other"}]
  BY <1>1, GateFresh DEF Verify, gateVars, IInv
<1>3. CASE Step(r, "ready")
  BY <1>1, <1>2, <1>3, Steps DEF WithEntry
<1>4. CASE Leave(r)
  BY <1>1, <1>2, <1>4, Leaves
<1> DEFINE l == [bloc[r] EXCEPT !.tries = Counted(r)]
<1>5. CASE Goto(r, "admit", l)
  <2>1. bloc[r] \in BLocals /\ Sound(r, "verify", bloc[r], cache) /\ r # Maint /\ "admit" \in BPCs
    BY <1>1, OnItsWay DEF BPCs
  <2>2. bloc[r].tries \in 0 .. MaxAdmit /\ MaxAdmit \in Nat
    BY <2>1 DEF BLocals, BridgeAssumption
  <2>3. Counted(r) \in 0 .. MaxAdmit
    BY <2>2 DEF Counted
  <2>4. /\ l \in BLocals /\ l.tok = bloc[r].tok /\ l.model = bloc[r].model /\ l.ent = bloc[r].ent
        /\ l.next = bloc[r].next
    BY <2>1, <2>3 DEF BLocals
  <2>5. Sound(r, "admit", l, cache)
    BY <2>1, <2>4 DEF Sound, WithEntry
  <2> QED BY <1>1, <1>2, <1>5, <2>1, <2>4, <2>5, Moves
<1> QED BY <1>3, <1>4, <1>5 DEF Verify

LEMMA ReadySound ==
  ASSUME BridgeAssumption, IInv, NEW r \in Requests, Ready(r)
  PROVE  IInv'
<1>1. /\ bpc[r] = "ready" /\ bpc[r] \in WithEntry /\ UNCHANGED cache
      /\ Ent(r) \in Bridges /\ r \in Procs
  BY OnItsWay DEF Ready, cacheVars, WithEntry
<1>2. aerr' \in [Bridges -> {"", "auth", "other"}]
  BY DEF Ready, gateVars, IInv
<1>3. CASE Step(r, "start")
  BY <1>1, <1>2, <1>3, Steps DEF WithEntry
<1>4. CASE Leave(r)
  BY <1>1, <1>2, <1>4, Leaves
<1> QED BY <1>3, <1>4 DEF Ready

LEMMA StartSound ==
  ASSUME BridgeAssumption, IInv, NEW r \in Requests, Start(r)
  PROVE  IInv'
<1>1. /\ bpc[r] = "start" /\ bpc[r] \in WithEntry /\ UNCHANGED cache
      /\ Ent(r) \in Bridges /\ r \in Procs
  BY OnItsWay DEF Start, cacheVars, WithEntry
<1>2. aerr' \in [Bridges -> {"", "auth", "other"}]
  BY DEF Start, gateVars, IInv
<1>3. CASE Step(r, "confirm")
  BY <1>1, <1>2, <1>3, Steps DEF WithEntry
<1> DEFINE L(e) == [bloc[r] EXCEPT !.err = e]
<1>4. CASE \E e \in {"auth", "other"} : Goto(r, "fail", L(e))
  <2>1. PICK e \in {"auth", "other"} : Goto(r, "fail", L(e))
    BY <1>4
  <2>2. /\ bloc[r] \in BLocals /\ Sound(r, "start", bloc[r], cache) /\ r # Maint
        /\ "fail" \in BPCs
    BY <1>1, OnItsWay DEF BPCs
  <2>3. /\ L(e) \in BLocals /\ L(e).tok = bloc[r].tok /\ L(e).model = bloc[r].model
        /\ L(e).ent = bloc[r].ent /\ L(e).next = bloc[r].next /\ L(e).err # ""
    BY <2>2 DEF BLocals
  <2>4. Sound(r, "fail", L(e), cache)
    BY <2>2, <2>3 DEF Sound, WithEntry
  <2> HIDE DEF L
  <2> QED BY <1>1, <1>2, <2>1, <2>2, <2>3, <2>4, Moves
<1> QED BY <1>3, <1>4 DEF Start

\* The lease is given on a look at the cache.
LEMMA ConfirmSound ==
  ASSUME BridgeAssumption, IInv, NEW r \in Requests, Confirm(r)
  PROVE  IInv'
<1>1. /\ bpc[r] = "confirm" /\ bpc[r] \in WithEntry /\ UNCHANGED cache
      /\ Ent(r) \in Bridges /\ r \in Procs
  BY OnItsWay DEF Confirm, cacheVars, WithEntry
<1>2. aerr' \in [Bridges -> {"", "auth", "other"}]
  BY DEF Confirm, gateVars, IInv
<1>3. CASE cache[bloc[r].tok] = Ent(r)
  <2>1. /\ bloc[r] \in BLocals /\ Sound(r, "confirm", bloc[r], cache) /\ r # Maint
        /\ "leased" \in BPCs /\ Step(r, "leased")
    BY <1>1, <1>3, OnItsWay DEF BPCs, Confirm
  <2>2. Sound(r, "leased", bloc[r], cache)
    BY <1>3, <2>1 DEF Sound, WithEntry, Ent
  <2> QED BY <1>1, <1>2, <2>1, <2>2, Moves DEF Step
<1>4. CASE cache[bloc[r].tok] # Ent(r)
  BY <1>1, <1>2, <1>4, Leaves DEF Confirm
<1> QED BY <1>3, <1>4

LEMMA RefusedSound ==
  ASSUME BridgeAssumption, IInv, NEW r \in Requests, Refused(r)
  PROVE  IInv'
<1>1. /\ bpc[r] = "fail" /\ bpc[r] \in WithEntry /\ UNCHANGED cache
      /\ Ent(r) \in Bridges /\ r \in Procs
  BY OnItsWay DEF Refused, cacheVars, WithEntry
<1>2. aerr' \in [Bridges -> {"", "auth", "other"}]
  BY DEF Refused, gateVars, IInv
<1> QED BY <1>1, <1>2, Leaves DEF Refused

LEMMA ReleaseSound ==
  ASSUME BridgeAssumption, IInv, NEW r \in Requests, Release(r)
  PROVE  IInv'
<1>1. /\ bpc[r] = "leased" /\ bpc[r] \in WithEntry /\ UNCHANGED cache
      /\ Ent(r) \in Bridges /\ r \in Procs
  BY OnItsWay DEF Release, cacheVars, WithEntry
<1>2. aerr' \in [Bridges -> {"", "auth", "other"}]
  BY DEF Release, gateVars, IInv
<1> QED BY <1>1, <1>2, Leaves DEF Release

-----------------------------------------------------------------------------
(* All of it.                                                              *)

LEMMA RequestSound ==
  ASSUME BridgeAssumption, IInv, NEW r \in Requests, AcquireBridge(r) \/ RequestStep(r) \/ Release(r)
  PROVE  IInv'
<1>1. r \in Procs
  BY DEF Procs
<1>2. CASE AcquireBridge(r) \/ Lookup(r) \/ Probe(r) \/ Reuse(r) \/ Insert(r)
  BY <1>2, AcquireBridgeSound, LookupSound, ProbeSound, ReuseSound, InsertSound
<1>3. CASE FinishRuns(r) \/ EndSession(r) \/ EvictToken(r) \/ Refused(r) \/ Release(r)
  BY <1>1, <1>3, FinishRunsSound, EndSessionSound, EvictTokenSound, RefusedSound, ReleaseSound
<1>4. CASE Check(r) \/ Slot(r) \/ NoSlot(r) \/ Admit(r) \/ Lead(r) \/ Follow(r)
  BY <1>4, CheckSound, SlotSound, NoSlotSound, AdmitSound, LeadSound, FollowSound
<1>5. CASE \/ Ensure(r) \/ Close(r) \/ Result(r) \/ Verify(r) \/ Ready(r) \/ Start(r)
           \/ Confirm(r)
  BY <1>5, EnsureSound, CloseSound, ResultSound, VerifySound, ReadySound, StartSound, ConfirmSound
<1> QED BY <1>2, <1>3, <1>4, <1>5 DEF RequestStep

LEMMA StepSound ==
  ASSUME BridgeAssumption, IInv, [BNext]_bvars
  PROVE  IInv'
<1>1. Maint \in Procs
  BY DEF Procs
<1>2. CASE \E r \in Requests : AcquireBridge(r) \/ RequestStep(r) \/ Release(r)
  BY <1>2, RequestSound
<1>3. CASE MaintStep \/ Shutdown
  BY <1>1, <1>3, SweepSound, FinishRunsSound, EndSessionSound, ShutdownSound DEF MaintStep
<1>4. CASE GrowStale \/ CoolDown \/ LoseSession
  <2>1. UNCHANGED <<cache, aerr, bpc, bloc>>
    BY <1>4 DEF GrowStale, CoolDown, LoseSession, cacheVars, gateVars
  <2> QED BY <2>1, Stutters
<1>5. CASE UNCHANGED bvars
  <2>1. UNCHANGED <<cache, aerr, bpc, bloc>>
    BY <1>5 DEF bvars, cacheVars, gateVars
  <2> QED BY <2>1, Stutters
<1> QED BY <1>2, <1>3, <1>4, <1>5 DEF BNext

\* A turn in bridge mode runs on an entry that is still in the cache: neither the
\* eviction of a full cache, of a dead token or of an idle entry, nor an insertion
\* for another token takes it away while the lease is out.
THEOREM LeaseStaysCached ==
  ASSUME BridgeAssumption
  PROVE  BSpec => []LeasedIsCached
<1>1. BInit => IInv
  BY InitSound
<1>2. IInv /\ [BNext]_bvars => IInv'
  BY StepSound
<1>3. IInv => LeasedIsCached
  BY OnItsWay DEF LeasedIsCached, Sound, WithEntry
<1> QED BY <1>1, <1>2, <1>3, PTL DEF BSpec

=============================================================================
