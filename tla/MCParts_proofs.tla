--------------------------- MODULE MCParts_proofs ----------------------------
(***************************************************************************)
(* What is proved of the components holds of them side by side: while one  *)
(* is chosen, every step is one of its own.                                *)
(***************************************************************************)
EXTENDS MCParts, TLAPS

pvars == <<part, bridgeVars, entryVars>>

LEMMA ChosenStays ==
  ASSUME NEW p
  PROVE  /\ part = p /\ [PNext]_pvars => (part = p)'
         /\ part # p /\ [PNext]_pvars => (part # p)'
BY DEF PNext, pvars

LEMMA BridgeSteps ==
  part = "bridge" /\ [PNext]_pvars => [B!BNext]_(B!bvars)
BY DEF PNext, pvars, BStep, EStep, bridgeVars, B!bvars, B!cacheVars, B!entryVars, B!gateVars, B!bcounts

LEMMA EntrySteps ==
  part = "entries" /\ [PNext]_pvars => [E!ENext]_(E!evars)
BY DEF PNext, pvars, BStep, EStep, entryVars, E!evars, E!rosterVars, E!drainVars, E!workVars, E!poolVars

\* A bridge entry with a lease stays in the cache: neither a full cache, nor a dead
\* token, nor the idle sweep drops it.
THEOREM PartsLeaseCached == PSpec => []LeasedIsCached
<1>1. part = "bridge" /\ PInit => B!BInit
  BY DEF PInit
<1>2. part = "bridge" /\ [PNext]_pvars => [B!BNext]_(B!bvars)
  BY BridgeSteps
<1>3. part = "bridge" /\ [PNext]_pvars => (part = "bridge")'
  BY ChosenStays
<1>4. part # "bridge" /\ [PNext]_pvars => (part # "bridge")'
  BY ChosenStays
<1>5. B!BSpec => []B!LeasedIsCached
  BY PartsAssumption, B!LeaseStaysCached
<1>6. (B!LeasedIsCached => LeasedIsCached) /\ (part # "bridge" => LeasedIsCached)
  BY DEF LeasedIsCached
<1>7. part = "bridge" \/ part # "bridge"
  OBVIOUS
<1> QED BY <1>1, <1>2, <1>3, <1>4, <1>5, <1>6, <1>7, PTL DEF PSpec, B!BSpec, pvars

\* A lease that slips in under the removal of its token keeps its session, and its
\* release finds the entry parked.  For lists that do not reorder the tokens.
THEOREM PartsSlippedServed ==
  ASSUME "reorder" \notin EntryOps
  PROVE  PSpec => []SlippedServed
<1>1. part = "entries" /\ PInit => E!EInit
  BY DEF PInit
<1>2. part = "entries" /\ [PNext]_pvars => [E!ENext]_(E!evars)
  BY EntrySteps
<1>3. part = "entries" /\ [PNext]_pvars => (part = "entries")'
  BY ChosenStays
<1>4. part # "entries" /\ [PNext]_pvars => (part # "entries")'
  BY ChosenStays
<1>5. E!ESpec => []E!SlippedServed
  BY PartsAssumption, E!SlippedIsServed
<1>6. (E!SlippedServed => SlippedServed) /\ (part # "entries" => SlippedServed)
  BY DEF SlippedServed
<1>7. part = "entries" \/ part # "entries"
  OBVIOUS
<1> QED BY <1>1, <1>2, <1>3, <1>4, <1>5, <1>6, <1>7, PTL DEF PSpec, E!ESpec, pvars
=============================================================================
