---------------------------- MODULE BridgeEntries ----------------------------
(***************************************************************************)
(* Bridge mode: one lazily made entry (client, session manager, run        *)
(* manager) per client token, an LRU cache of them, and AcquireBridge from *)
(* the lookup to the lease.  Requests of one token share an entry and its  *)
(* admission gate; the cache drops entries when it is full, when a token   *)
(* is dead and when an entry idles, and Shutdown drains what is cached.    *)
(*                                                                         *)
(* A step is one critical section of bridgeMu or of the entry's mu, or one *)
(* upstream call.  A turn's slot is taken here in one step: BridgeSlots    *)
(* has the lane with its queue.                                            *)
(***************************************************************************)
EXTENDS Naturals, FiniteSets, Sequences, SequencesExt

CONSTANTS
  Requests,      \* goroutines in AcquireBridge
  Maint,         \* the maintain goroutine, later Shutdown
  Tokens,        \* client tokens
  Models,
  Bridges,       \* entries that can be made
  MaxBridge,     \* maxBridgeEntries
  Cap,           \* SLOTS_PER_ACCOUNT
  MaxAdmit,      \* maxAdmissionModelRetries
  MaxCalls,      \* bound: calls of AcquireBridge
  MaxEvents,     \* bound: refusals and other events from outside
  BridgeOps,     \* what happens from outside
  NoBridge, NoToken, NoModel, NoProc

\* The names of nothing and nobody are no names, and what can be made is finite.
BridgeAssumption ==
  /\ NoBridge \notin Bridges /\ NoToken \notin Tokens /\ NoModel \notin Models
  /\ Maint \notin Requests /\ IsFiniteSet(Bridges) /\ MaxAdmit \in Nat

AllBridgeOps == {"auth", "other", "probe", "idle", "lost", "stop"}

Procs == Requests \cup {Maint}

VARIABLES
  cache,    \* p.bridge: the entry of each token
  order,    \* p.bridgeOrder, least recently used first
  owner,    \* the token an entry was made for
  stale,    \* entries unused for longer than the TTL, as lastUsed tells
  barred,   \* entries in a cooldown
  sess,     \* the model of an entry's live session
  run,      \* entries with an open run
  gate,     \* entries whose admissionGate is closed
  once,     \* admissionOnce: who is inside Do, and whether it is done
  aerr,     \* admissionErr
  jammed,   \* entries whose mu is never given back
  draining, \* Pool.draining
  bcalls, bevents,
  bpc, bloc

cacheVars == <<cache, order, owner, stale>>
entryVars == <<barred, sess, run>>
gateVars == <<gate, once, aerr, jammed>>
bcounts == <<draining, bcalls, bevents>>
bvars == <<cacheVars, entryVars, gateVars, bcounts, bpc, bloc>>

BPCs == {"idle", "lookup", "create", "probe", "insert", "finish", "end", "check", "slot",
         "admit", "once", "ensure", "fail", "close", "result", "verify", "ready", "start",
         "confirm", "leased", "stopped"}

\* Token and model asked for, entry at hand, slot held, admission's error,
\* entries to drain and where to go after, admission attempts.
BLocals == [tok : Tokens \cup {NoToken}, model : Models \cup {NoModel},
            ent : Bridges \cup {NoBridge}, slot : BOOLEAN, err : {"", "auth", "other"},
            drain : Seq(Bridges), next : BPCs, tries : 0 .. MaxAdmit]
NoBLoc == [tok |-> NoToken, model |-> NoModel, ent |-> NoBridge, slot |-> FALSE, err |-> "",
           drain |-> <<>>, next |-> "idle", tries |-> 0]

BInit ==
  /\ cache = [t \in Tokens |-> NoBridge] /\ order = <<>>
  /\ owner = [b \in Bridges |-> NoToken]
  /\ stale = {} /\ barred = {} /\ run = {} /\ gate = {} /\ jammed = {}
  /\ sess = [b \in Bridges |-> NoModel]
  /\ once = [b \in Bridges |-> [by |-> NoProc, done |-> FALSE]]
  /\ aerr = [b \in Bridges |-> ""]
  /\ draining = FALSE /\ bcalls = 0 /\ bevents = 0
  /\ bpc = [p \in Procs |-> "idle"] /\ bloc = [p \in Procs |-> NoBLoc]

-----------------------------------------------------------------------------
Goto(p, where, l) == bpc' = [bpc EXCEPT ![p] = where] /\ bloc' = [bloc EXCEPT ![p] = l]
Step(p, where) == Goto(p, where, bloc[p])
\* The deferred releases of slot and seat are in NoBLoc.
Leave(p) == Goto(p, "idle", NoBLoc)
Outside(kind) == kind \in BridgeOps /\ bevents < MaxEvents /\ bevents' = bevents + 1
Inside == UNCHANGED bevents

\* The entry a goroutine works on, and the lease count of its run manager.
Ent(p) == bloc[p].ent
Leases(b) == {r \in Requests : bloc[r].ent = b /\ bpc[r] \in {"confirm", "leased"}}
Cached(b) == owner[b] # NoToken /\ cache[owner[b]] = b

Touched(o, t) == Append(Remove(o, t), t)

\* bridgeEvictLocked: the least recently used of the entries without a lease,
\* the new one excepted, until the cache fits.
EvictableBusy(b, keep) == b \in Bridges \ {keep}
Evictable(b, keep) == b \in Bridges \ {keep} /\ Leases(b) = {}
Victims(c, o, keep) ==
  LET free == {i \in DOMAIN o : Evictable(c[o[i]], keep)}
  IN {c[o[i]] : i \in {k \in free : Cardinality({j \in free : j < k}) < Len(o) - MaxBridge}}
\* The entries v leave cache c and order o.
Drop(c, o, v) ==
  /\ cache' = [t \in Tokens |-> IF c[t] \in v THEN NoBridge ELSE c[t]]
  /\ order' = SelectSeq(o, LAMBDA t : c[t] \notin v)

-----------------------------------------------------------------------------
(* bridgeEntryFor.                                                         *)

AcquireBridge(r) ==
  /\ bpc[r] = "idle" /\ ~draining /\ bcalls < MaxCalls /\ bcalls' = bcalls + 1
  /\ \E t \in Tokens, m \in Models : Goto(r, "lookup", [NoBLoc EXCEPT !.tok = t, !.model = m])
  /\ UNCHANGED <<cacheVars, entryVars, gateVars, draining, bevents>>

\* The fast path, and its repetition behind the creation gate: a hit counts
\* as a use.
Lookup(r) ==
  LET t == bloc[r].tok
      b == cache[t] IN
  /\ bpc[r] \in {"lookup", "create"}
  /\ IF b # NoBridge
     THEN /\ order' = Touched(order, t) /\ stale' = stale \ {b}
          /\ Goto(r, "check", [bloc[r] EXCEPT !.ent = b])
     ELSE /\ Step(r, IF bpc[r] = "lookup" THEN "create" ELSE "probe")
          /\ UNCHANGED <<order, stale>>
  /\ UNCHANGED <<cache, owner, entryVars, gateVars, bcounts>>

\* The probe of the token, or the creation gate's timeout.
Probe(r) ==
  /\ bpc[r] = "probe"
  /\ \/ Inside /\ Step(r, "insert")
     \/ Outside("probe") /\ Leave(r)
  /\ UNCHANGED <<cacheVars, entryVars, gateVars, draining, bcalls>>

\* A third look at the cache; then make the entry, evict, and drain the
\* victims, in some order, once bridgeMu is free.
Reuse(r) ==
  LET b == cache[bloc[r].tok] IN
  /\ bpc[r] = "insert" /\ b # NoBridge
  /\ Goto(r, "check", [bloc[r] EXCEPT !.ent = b])
  /\ UNCHANGED <<cacheVars, entryVars, gateVars, bcounts>>
Insert(r) ==
  LET t == bloc[r].tok IN
  /\ bpc[r] = "insert" /\ cache[t] = NoBridge
  /\ \E b \in Bridges :
       LET c == [cache EXCEPT ![t] = b]
           v == Victims(c, Append(order, t), b) IN
       /\ owner[b] = NoToken
       /\ owner' = [owner EXCEPT ![b] = t]
       /\ Drop(c, Append(order, t), v)
       /\ \E s \in SetToSeqs(v) :
            Goto(r, IF v = {} THEN "check" ELSE "finish",
                 [bloc[r] EXCEPT !.ent = b, !.drain = s, !.next = "check"])
  /\ UNCHANGED <<stale, entryVars, gateVars, bcounts>>

\* FinishAllRuns and EndSession of each entry that was dropped, or that
\* Shutdown drains.
FinishRuns(p) ==
  /\ bpc[p] = "finish"
  /\ run' = run \ {Head(bloc[p].drain)}
  /\ Step(p, "end")
  /\ UNCHANGED <<cacheVars, barred, sess, gateVars, bcounts>>
EndSession(p) ==
  LET rest == Tail(bloc[p].drain) IN
  /\ bpc[p] = "end"
  /\ sess' = [sess EXCEPT ![Head(bloc[p].drain)] = NoModel]
  /\ IF rest = <<>>
     THEN IF bloc[p].next = "idle" THEN Leave(p)
          ELSE Goto(p, bloc[p].next, [bloc[p] EXCEPT !.drain = <<>>, !.next = "idle"])
     ELSE Goto(p, "finish", [bloc[p] EXCEPT !.drain = rest])
  /\ UNCHANGED <<cacheVars, barred, run, gateVars, bcounts>>

-----------------------------------------------------------------------------
(* Slot and admission.                                                     *)

\* Locked by the operator or cooling down, unless that is a quota of another
\* model.
Check(r) ==
  /\ bpc[r] = "check"
  /\ \/ Step(r, "slot")
     \/ Ent(r) \in barred /\ Leave(r)
  /\ UNCHANGED <<cacheVars, entryVars, gateVars, bcounts>>

Live(b, m) == Cardinality({r \in Requests : bloc[r].ent = b /\ bloc[r].model = m /\ bloc[r].slot})
Slot(r) ==
  /\ bpc[r] = "slot" /\ Live(Ent(r), bloc[r].model) < Cap
  /\ Goto(r, "admit", [bloc[r] EXCEPT !.slot = TRUE])
  /\ UNCHANGED <<cacheVars, entryVars, gateVars, bcounts>>
\* The queue is full, QUEUE_WAIT is over or the context is done.
NoSlot(r) ==
  /\ bpc[r] = "slot" /\ Live(Ent(r), bloc[r].model) >= Cap
  /\ Leave(r)
  /\ UNCHANGED <<cacheVars, entryVars, gateVars, bcounts>>

\* A new gate, a new Once, no error.  Overwriting a Once somebody is inside of
\* is a data race; what the next to come meets is the new one.
FreshGate(b) ==
  /\ gate' = gate \ {b}
  /\ once' = [once EXCEPT ![b] = [by |-> NoProc, done |-> FALSE]]
  /\ aerr' = [aerr EXCEPT ![b] = ""]
  /\ UNCHANGED jammed

\* admitRetry, under the entry's mu.
Admit(r) ==
  LET b == Ent(r) IN
  /\ bpc[r] = "admit" /\ b \notin jammed
  /\ IF b \in gate /\ sess[b] = bloc[r].model
     THEN Step(r, "ready") /\ UNCHANGED gateVars
     ELSE /\ Step(r, "once")
          /\ IF b \in gate THEN FreshGate(b) ELSE UNCHANGED gateVars
  /\ UNCHANGED <<cacheVars, entryVars, bcounts>>

\* admissionOnce.Do: the first runs the admission, the others wait in Do
\* until it is done.
Lead(r) ==
  LET b == Ent(r) IN
  /\ bpc[r] = "once" /\ once[b].by = NoProc /\ ~once[b].done
  /\ once' = [once EXCEPT ![b].by = r]
  /\ Step(r, "ensure")
  /\ UNCHANGED <<cacheVars, entryVars, gate, aerr, jammed, bcounts>>
Follow(r) ==
  /\ bpc[r] = "once" /\ once[Ent(r)].done
  /\ Step(r, "result")
  /\ UNCHANGED <<cacheVars, entryVars, gateVars, bcounts>>

\* EnsureSessionForModel: a session for the model replaces any other.
Ensure(r) ==
  LET b == Ent(r) IN
  /\ bpc[r] = "ensure" /\ b \notin jammed
  /\ \/ /\ Inside
        /\ sess' = [sess EXCEPT ![b] = bloc[r].model]
        /\ aerr' = [aerr EXCEPT ![b] = ""]
     \/ \E e \in {"auth", "other"} :
          Outside(e) /\ aerr' = [aerr EXCEPT ![b] = e] /\ UNCHANGED sess
  /\ Step(r, "close")
  /\ UNCHANGED <<cacheVars, barred, run, gate, once, jammed, draining, bcalls>>
\* The gate is closed, and Do marks the Once done, if it is still its own.
\* Closing it a second time panics with mu held.
Close(r) ==
  LET b == Ent(r) IN
  /\ bpc[r] = "close" /\ b \notin jammed
  /\ once' = IF once[b].by = r THEN [once EXCEPT ![b] = [by |-> NoProc, done |-> TRUE]] ELSE once
  /\ IF b \in gate THEN Leave(r) /\ jammed' = jammed \cup {b} /\ UNCHANGED gate
     ELSE Step(r, "result") /\ gate' = gate \cup {b} /\ UNCHANGED jammed
  /\ UNCHANGED <<cacheVars, entryVars, aerr, bcounts>>

\* Whoever is first to see the error clears it for the next attempt.
Result(r) ==
  LET b == Ent(r) IN
  /\ bpc[r] = "result" /\ b \notin jammed
  /\ IF aerr[b] = "" THEN Step(r, "verify") /\ UNCHANGED gateVars
     ELSE FreshGate(b) /\ Goto(r, "fail", [bloc[r] EXCEPT !.err = aerr[b]])
  /\ UNCHANGED <<cacheVars, entryVars, bcounts>>

\* The session of another model: try again, a bounded number of times.
MayRetry(r) == bloc[r].tries + 1 < MaxAdmit
Counted(r) == IF bloc[r].tries < MaxAdmit THEN bloc[r].tries + 1 ELSE MaxAdmit
Verify(r) ==
  LET b == Ent(r) IN
  /\ bpc[r] = "verify" /\ b \notin jammed
  /\ IF sess[b] \in {NoModel, bloc[r].model} THEN Step(r, "ready") /\ UNCHANGED gateVars
     ELSE /\ FreshGate(b)
          /\ IF MayRetry(r) THEN Goto(r, "admit", [bloc[r] EXCEPT !.tries = Counted(r)])
             ELSE Leave(r)
  /\ UNCHANGED <<cacheVars, entryVars, bcounts>>

\* sessionReady, and the look at the cache once more.
Ready(r) ==
  LET b == Ent(r) IN
  /\ bpc[r] = "ready"
  /\ IF cache[bloc[r].tok] = b THEN Step(r, "start") /\ barred' = barred \ {b}
     ELSE Leave(r) /\ UNCHANGED barred
  /\ UNCHANGED <<cacheVars, sess, run, gateVars, bcounts>>

\* Precreate and Acquire of a run.
Start(r) ==
  LET b == Ent(r) IN
  /\ bpc[r] = "start"
  /\ \/ Inside /\ run' = run \cup {b} /\ Step(r, "confirm")
     \/ /\ b \notin run /\ UNCHANGED run
        /\ \E e \in {"auth", "other"} : Outside(e) /\ Goto(r, "fail", [bloc[r] EXCEPT !.err = e])
  /\ UNCHANGED <<cacheVars, barred, sess, gateVars, draining, bcalls>>

\* The lease, unless the entry was evicted meanwhile.
ConfirmBlind(r) ==
  /\ bpc[r] = "confirm"
  /\ Step(r, "leased")
  /\ UNCHANGED <<cacheVars, entryVars, gateVars, bcounts>>
Confirm(r) ==
  /\ bpc[r] = "confirm"
  /\ IF cache[bloc[r].tok] = Ent(r) THEN Step(r, "leased") ELSE Leave(r)
  /\ UNCHANGED <<cacheVars, entryVars, gateVars, bcounts>>

\* classifyAndCooldown; a dead token is evicted, if no lease is out on it.
EvictToken(r) ==
  LET b == cache[bloc[r].tok] IN
  /\ bpc[r] = "fail" /\ bloc[r].err = "auth"
  /\ IF b = NoBridge \/ Leases(b) # {} THEN Leave(r) /\ UNCHANGED <<cache, order>>
     ELSE /\ Drop(cache, order, {b})
          /\ Goto(r, "finish", [NoBLoc EXCEPT !.tok = bloc[r].tok, !.model = bloc[r].model,
                                !.ent = Ent(r), !.slot = bloc[r].slot, !.drain = <<b>>])
  /\ UNCHANGED <<owner, stale, entryVars, gateVars, bcounts>>
Refused(r) ==
  /\ bpc[r] = "fail" /\ bloc[r].err = "other"
  /\ barred' = barred \cup {Ent(r)}
  /\ Leave(r)
  /\ UNCHANGED <<cacheVars, sess, run, gateVars, bcounts>>

\* LeaseRelease, or LeaseAbandon, which ends the run with its last lease.
Release(r) ==
  LET b == Ent(r) IN
  /\ bpc[r] = "leased"
  /\ \/ UNCHANGED run
     \/ Leases(b) = {r} /\ run' = run \ {b}
  /\ Leave(r)
  /\ UNCHANGED <<cacheVars, barred, sess, gateVars, bcounts>>

-----------------------------------------------------------------------------
(* bridgeMaintain, Shutdown and the outside.                               *)

Sweep ==
  LET v == {b \in Bridges : Cached(b) /\ Leases(b) = {} /\ b \notin barred /\ b \in stale} IN
  /\ bpc[Maint] = "idle" /\ v # {}
  /\ Drop(cache, order, v)
  /\ \E s \in SetToSeqs(v) : Goto(Maint, "finish", [NoBLoc EXCEPT !.drain = s])
  /\ UNCHANGED <<owner, stale, entryVars, gateVars, bcounts>>

\* Shutdown waits for the maintain goroutine and drains the entries that are
\* in the cache then.
Shutdown ==
  LET v == {b \in Bridges : Cached(b)} IN
  /\ Outside("stop") /\ ~draining /\ bpc[Maint] = "idle"
  /\ draining' = TRUE
  /\ IF v = {} THEN Step(Maint, "stopped")
     ELSE \E s \in SetToSeqs(v) :
            Goto(Maint, "finish", [NoBLoc EXCEPT !.drain = s, !.next = "stopped"])
  /\ UNCHANGED <<cacheVars, entryVars, gateVars, bcalls>>

\* Time passes; a cooldown ends; upstream ends a session, or the failure of a
\* chat invalidates it.
GrowStale ==
  \E b \in Bridges :
    /\ Outside("idle") /\ Cached(b) /\ stale' = stale \cup {b}
    /\ UNCHANGED <<cache, order, owner, entryVars, gateVars, draining, bcalls, bpc, bloc>>
CoolDown ==
  \E b \in barred :
    /\ barred' = barred \ {b}
    /\ UNCHANGED <<cacheVars, sess, run, gateVars, bcounts, bpc, bloc>>
LoseSession ==
  \E b \in Bridges :
    /\ Outside("lost") /\ sess[b] # NoModel /\ sess' = [sess EXCEPT ![b] = NoModel]
    /\ UNCHANGED <<cacheVars, barred, run, gateVars, draining, bcalls, bpc, bloc>>

RequestStep(r) ==
  \/ Lookup(r) \/ Probe(r) \/ Reuse(r) \/ Insert(r) \/ FinishRuns(r) \/ EndSession(r)
  \/ Check(r) \/ Slot(r) \/ NoSlot(r) \/ Admit(r) \/ Lead(r) \/ Follow(r) \/ Ensure(r)
  \/ Close(r) \/ Result(r) \/ Verify(r) \/ Ready(r) \/ Start(r) \/ Confirm(r)
  \/ EvictToken(r) \/ Refused(r)
MaintStep == Sweep \/ FinishRuns(Maint) \/ EndSession(Maint)

BNext ==
  \/ \E r \in Requests : AcquireBridge(r) \/ RequestStep(r) \/ Release(r)
  \/ MaintStep \/ Shutdown \/ GrowStale \/ CoolDown \/ LoseSession

BSpec == BInit /\ [][BNext]_bvars

-----------------------------------------------------------------------------
BTypeOK ==
  /\ cache \in [Tokens -> Bridges \cup {NoBridge}] /\ order \in Seq(Tokens)
  /\ owner \in [Bridges -> Tokens \cup {NoToken}]
  /\ stale \subseteq Bridges /\ barred \subseteq Bridges /\ run \subseteq Bridges
  /\ gate \subseteq Bridges /\ jammed \subseteq Bridges /\ sess \in [Bridges -> Models \cup {NoModel}]
  /\ once \in [Bridges -> [by : Requests \cup {NoProc}, done : BOOLEAN]]
  /\ aerr \in [Bridges -> {"", "auth", "other"}]
  /\ draining \in BOOLEAN /\ bcalls \in 0 .. MaxCalls /\ bevents \in 0 .. MaxEvents
  /\ bpc \in [Procs -> BPCs] /\ bloc \in [Procs -> BLocals]

\* A turn is only ever served by an entry that is still in the cache, where
\* the sweep and Shutdown find it.
LeasedIsCached == \A r \in Requests : bpc[r] = "leased" => cache[bloc[r].tok] = Ent(r)

\* What sessionReady relies on: whoever gets there has seen an admission of
\* its model succeed.
ReadyHasSession == \A r \in Requests : bpc[r] = "ready" => sess[Ent(r)] # NoModel

=============================================================================
