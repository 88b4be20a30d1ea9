------------------------- MODULE TokenEntries_proofs -------------------------
(***************************************************************************)
(* A lease that slips in under the removal of its token is served to its   *)
(* end, for every number of clients, tokens and operations.  Lists that    *)
(* reorder the tokens are left out: what they do to an entry that stays    *)
(* breaks the theorem.                                                     *)
(***************************************************************************)
EXTENDS TokenEntries, FiniteSetTheorems, SequenceTheorems, TLAPS

ELocals == [e : Entries \cup {NoEntry}, i : Nat, rest : Seq(Entries), slip : BOOLEAN,
            once : BOOLEAN, why : {"", "all", "idle", "finish", "stop", "reload"},
            new : Seq(Entries)]

Leased(e) == \E c \in Clients : epc[c] = "leased" /\ eloc[c].e = e
TakenOff(e) == removed[e] \in {"last", "at", "reload"}

\* Inside drained.Do of an entry, or at its door.
Claims(pc, l) == pc = "drain" \/ (pc \in {"finish", "end"} /\ l.once)

\* An entry the operator has taken off and is about to park.
Holds(pc, l, e) == (pc = "retire" /\ l.e = e) \/ (pc = "park" /\ e \in ToSet(l.rest))

\* The list of a reload: the entries it is made of are not removed, and those on
\* the roster which are not in it are the ones to go.
ReloadFits(l) ==
  /\ IsInjective(l.new) /\ \A e \in ToSet(l.new) : removed[e] = ""
  /\ ToSet(l.rest) \cap ToSet(l.new) = {}
  /\ ToSet(roster) \ ToSet(l.new) \subseteq ToSet(l.rest) /\ ToSet(l.rest) \subseteq ToSet(roster)

OperatorFits(pc, l) ==
  /\ pc \in {"home", "pop", "popat", "retire", "drain", "finish", "end", "clear", "sweep",
             "replace", "park", "settle"}
  /\ pc = "home" => l = NoELoc
  /\ pc = "pop" => roster # <<>>
  /\ pc = "popat" => l.i \in DOMAIN roster
  /\ pc = "retire" => /\ l.why = "" /\ ~l.once /\ l.e \in Entries /\ removed[l.e] \in {"last", "at"}
                      /\ removed[l.e] = "last" /\ ~l.slip => ~Leased(l.e)
  /\ pc = "drain" => l.why \in {"", "reload"}
  /\ pc \in {"finish", "end"} /\ l.once => l.why \in {"", "reload"}
  /\ pc \in {"finish", "end"} /\ ~l.once => l.why \in {"all", "stop", "finish"}
  /\ pc = "end" => l.why # "finish"
  /\ pc = "sweep" => ~l.once /\ l.why \in {"all", "stop"}
  /\ pc \in {"replace", "park", "settle"} => ~l.once /\ l.why = "reload"
  /\ pc = "replace" => ReloadFits(l)
  /\ pc \in {"park", "settle", "drain", "finish", "end"} /\ l.why = "reload" =>
       \A e \in ToSet(l.rest) : removed[e] = "reload"

\* What holds of a worker at pc with locals l.  Nobody drains an entry that is
\* not removed, or that was last and is on lease.
Fits(w, pc, l) ==
  /\ w \in Clients =>
       /\ pc \in {"home", "admit", "alive", "start", "confirm", "leased", "giveback", "drain",
                  "finish", "end"}
       /\ l.why = "" /\ (pc # "home" => l.e \in Entries) /\ (pc \in {"finish", "end"} => l.once)
  /\ w = Maintainer => /\ pc \in {"home", "sweep", "finish"} /\ ~l.once
                       /\ pc # "home" => l.why = "idle"
  /\ w = Operator => OperatorFits(pc, l)
  /\ Claims(pc, l) => /\ l.e \in Entries /\ removed[l.e] # ""
                      /\ removed[l.e] = "last" => ~Leased(l.e)

Types ==
  /\ roster \in Seq(Entries) /\ IsInjective(roster)
  /\ removed \in [Entries -> {"", "last", "at", "all", "reload"}]
  /\ drainer \in [Entries -> Workers \cup {Nobody}]
  /\ epc \in [Workers -> EPCs] /\ eloc \in [Workers -> ELocals]

\* The roster, how entries went, and what has been done about them agree.
OnRosterNotRemoved == \A e \in ToSet(roster) : removed[e] = ""
PresentUntouched ==
  \A e \in Entries : removed[e] = "" => e \notin retired \cup drained /\ drainer[e] = Nobody
LastKept ==
  \A e \in Entries : removed[e] = "last" /\ Leased(e) => e \notin drained /\ drainer[e] = Nobody
OffParked ==
  \A e \in Entries :
    TakenOff(e) /\ Leased(e) =>
      e \in retired \cup drained \/ Holds(epc[Operator], eloc[Operator], e)

IInv ==
  /\ Types /\ \A w \in Workers : Fits(w, epc[w], eloc[w])
  /\ OnRosterNotRemoved /\ PresentUntouched /\ LastKept /\ OffParked

-----------------------------------------------------------------------------
(* Rosters.                                                                *)

LEMMA RemoveAtFacts ==
  ASSUME NEW S, NEW s \in Seq(S), NEW i \in DOMAIN s
  PROVE  /\ RemoveAt(s, i) \in Seq(S) /\ Len(RemoveAt(s, i)) = Len(s) - 1
         /\ \A j \in 1 .. Len(s) - 1 : RemoveAt(s, i)[j] = IF j < i THEN s[j] ELSE s[j + 1]
<1> DEFINE a == SubSeq(s, 1, i - 1)
           b == SubSeq(s, i + 1, Len(s))
<1>1. Len(s) \in Nat /\ i \in 1 .. Len(s) /\ DOMAIN s = 1 .. Len(s)
  BY LenProperties
<1>2. /\ a \in Seq(S) /\ Len(a) = i - 1 /\ \A j \in 1 .. i - 1 : a[j] = s[j]
  BY <1>1, SubSeqProperties
<1>3. /\ b \in Seq(S) /\ Len(b) = Len(s) - i /\ \A j \in 1 .. Len(s) - i : b[j] = s[i + j]
  BY <1>1, SubSeqProperties
<1>4. RemoveAt(s, i) = a \o b
  BY DEF RemoveAt
<1> HIDE DEF a, b
<1>5. /\ a \o b \in Seq(S) /\ Len(a \o b) = Len(s) - 1
      /\ \A j \in 1 .. Len(s) - 1 : (a \o b)[j] = IF j <= Len(a) THEN a[j] ELSE b[j - Len(a)]
  <2>1. a \in Seq(S) /\ b \in Seq(S) /\ Len(a) + Len(b) = Len(s) - 1
    BY <1>1, <1>2, <1>3
  <2>2. /\ a \o b \in Seq(S) /\ Len(a \o b) = Len(a) + Len(b)
        /\ \A j \in 1 .. Len(a) + Len(b) : (a \o b)[j] = IF j <= Len(a) THEN a[j] ELSE b[j - Len(a)]
    BY <2>1, ConcatProperties, Zenon
  <2> QED BY <2>1, <2>2, Zenon
<1>6. \A j \in 1 .. Len(s) - 1 : (a \o b)[j] = IF j < i THEN s[j] ELSE s[j + 1]
  <2> TAKE j \in 1 .. Len(s) - 1
  <2>1. CASE j < i
    <3>1. j \in 1 .. i - 1 /\ j <= Len(a)
      BY <1>1, <1>2, <2>1
    <3> QED BY <1>2, <1>5, <2>1, <3>1
  <2>2. CASE ~(j < i)
    <3>1. j - Len(a) \in 1 .. Len(s) - i /\ ~(j <= Len(a)) /\ i + (j - Len(a)) = j + 1
      BY <1>1, <1>2, <2>2
    <3> QED BY <1>3, <1>5, <2>2, <3>1
  <2> QED BY <2>1, <2>2
<1> QED BY <1>4, <1>5, <1>6

LEMMA InsertAtFacts ==
  ASSUME NEW S, NEW s \in Seq(S), NEW i \in 1 .. Len(s) + 1, NEW x \in S
  PROVE  /\ InsertAt(s, i, x) \in Seq(S) /\ Len(InsertAt(s, i, x)) = Len(s) + 1
         /\ \A j \in 1 .. Len(s) + 1 :
              InsertAt(s, i, x)[j] = IF j < i THEN s[j] ELSE IF j = i THEN x ELSE s[j - 1]
<1> DEFINE a == SubSeq(s, 1, i - 1)
           b == SubSeq(s, i, Len(s))
           c == a \o <<x>>
<1>1. Len(s) \in Nat /\ DOMAIN s = 1 .. Len(s) /\ <<x>> \in Seq(S) /\ Len(<<x>>) = 1
  BY LenProperties
<1>2. /\ a \in Seq(S) /\ Len(a) = i - 1 /\ \A j \in 1 .. i - 1 : a[j] = s[j]
  BY <1>1, SubSeqProperties
<1>3. /\ b \in Seq(S) /\ Len(b) = Len(s) + 1 - i /\ \A j \in 1 .. Len(s) + 1 - i : b[j] = s[i + j - 1]
  BY <1>1, SubSeqProperties
<1>4. InsertAt(s, i, x) = c \o b
  BY DEF InsertAt
<1> HIDE DEF a, b
<1>5. /\ c \in Seq(S) /\ Len(c) = i
      /\ \A j \in 1 .. i : c[j] = IF j < i THEN s[j] ELSE x
  <2>1. /\ c \in Seq(S) /\ Len(c) = i
        /\ \A j \in 1 .. i : c[j] = IF j <= Len(a) THEN a[j] ELSE <<x>>[j - Len(a)]
    BY <1>1, <1>2, ConcatProperties
  <2> QED BY <1>1, <1>2, <2>1
<1> HIDE DEF c
<1>6. /\ c \o b \in Seq(S) /\ Len(c \o b) = Len(s) + 1
      /\ \A j \in 1 .. Len(s) + 1 : (c \o b)[j] = IF j <= Len(c) THEN c[j] ELSE b[j - Len(c)]
  <2>1. c \in Seq(S) /\ b \in Seq(S) /\ Len(c) + Len(b) = Len(s) + 1
    BY <1>1, <1>3, <1>5
  <2>2. /\ c \o b \in Seq(S) /\ Len(c \o b) = Len(c) + Len(b)
        /\ \A j \in 1 .. Len(c) + Len(b) : (c \o b)[j] = IF j <= Len(c) THEN c[j] ELSE b[j - Len(c)]
    BY <2>1, ConcatProperties, Zenon
  <2> QED BY <2>1, <2>2, Zenon
<1>7. \A j \in 1 .. Len(s) + 1 : (c \o b)[j] = IF j < i THEN s[j] ELSE IF j = i THEN x ELSE s[j - 1]
  <2> TAKE j \in 1 .. Len(s) + 1
  <2>1. CASE j <= i
    BY <1>1, <1>5, <1>6, <2>1
  <2>2. CASE ~(j <= i)
    <3>1. j - Len(c) \in 1 .. Len(s) + 1 - i /\ i + (j - Len(c)) - 1 = j - 1
      BY <1>1, <1>5, <2>2
    <3> QED BY <1>3, <1>5, <1>6, <2>2, <3>1
  <2> QED BY <2>1, <2>2
<1> QED BY <1>4, <1>6, <1>7

\* What a roster without one of its entries is.
LEMMA RosterWithout ==
  ASSUME NEW s \in Seq(Entries), IsInjective(s), NEW i \in DOMAIN s
  PROVE  /\ RemoveAt(s, i) \in Seq(Entries) /\ IsInjective(RemoveAt(s, i))
         /\ ToSet(RemoveAt(s, i)) \subseteq ToSet(s) \ {s[i]}
<1> DEFINE t == RemoveAt(s, i)
<1>1. /\ t \in Seq(Entries) /\ Len(t) = Len(s) - 1
      /\ \A j \in 1 .. Len(s) - 1 : t[j] = IF j < i THEN s[j] ELSE s[j + 1]
  BY RemoveAtFacts
<1>2. Len(s) \in Nat /\ DOMAIN s = 1 .. Len(s) /\ DOMAIN t = 1 .. Len(s) - 1 /\ i \in 1 .. Len(s)
  BY <1>1, LenProperties
<1> HIDE DEF t
<1>3. \A j \in DOMAIN t : \E k \in DOMAIN s : k # i /\ t[j] = s[k]
  <2> TAKE j \in DOMAIN t
  <2>1. CASE j < i
    BY <1>1, <1>2, <2>1
  <2>2. CASE ~(j < i)
    <3>1. j + 1 \in DOMAIN s /\ j + 1 # i /\ t[j] = s[j + 1]
      BY <1>1, <1>2, <2>2
    <3> QED BY <3>1
  <2> QED BY <2>1, <2>2
<1>4. ToSet(t) \subseteq ToSet(s) \ {s[i]}
  BY <1>3 DEF ToSet, IsInjective
<1>5. ASSUME NEW j \in DOMAIN t, NEW k \in DOMAIN t, t[j] = t[k] PROVE j = k
  <2> DEFINE At(n) == IF n < i THEN n ELSE n + 1
  <2>1. At(j) \in DOMAIN s /\ At(k) \in DOMAIN s /\ t[j] = s[At(j)] /\ t[k] = s[At(k)]
    BY <1>1, <1>2
  <2>2. At(j) = At(k)
    BY <1>5, <2>1 DEF IsInjective
  <2> QED BY <1>2, <2>2
<1>6. IsInjective(t)
  BY <1>5 DEF IsInjective
<1> QED BY <1>1, <1>4, <1>6 DEF t

LEMMA RosterInserted ==
  ASSUME NEW s \in Seq(Entries), IsInjective(s), NEW i \in 1 .. Len(s) + 1,
         NEW x \in Entries, x \notin ToSet(s)
  PROVE  /\ InsertAt(s, i, x) \in Seq(Entries) /\ IsInjective(InsertAt(s, i, x))
         /\ ToSet(InsertAt(s, i, x)) \subseteq ToSet(s) \cup {x}
<1> DEFINE t == InsertAt(s, i, x)
<1>1. /\ t \in Seq(Entries) /\ Len(t) = Len(s) + 1
      /\ \A j \in 1 .. Len(s) + 1 : t[j] = IF j < i THEN s[j] ELSE IF j = i THEN x ELSE s[j - 1]
  BY InsertAtFacts
<1>2. Len(s) \in Nat /\ DOMAIN s = 1 .. Len(s) /\ DOMAIN t = 1 .. Len(s) + 1
  BY <1>1, LenProperties
<1> HIDE DEF t
<1>3. \A j \in DOMAIN t : IF j < i THEN j \in DOMAIN s /\ t[j] = s[j]
                          ELSE IF j = i THEN t[j] = x ELSE j - 1 \in DOMAIN s /\ t[j] = s[j - 1]
  BY <1>1, <1>2
<1>4. ToSet(t) \subseteq ToSet(s) \cup {x}
  BY <1>3 DEF ToSet
<1>5. ASSUME NEW j \in DOMAIN t, NEW k \in DOMAIN t, t[j] = t[k] PROVE j = k
  <2>1. \A n \in DOMAIN s : s[n] # x
    BY DEF ToSet
  <2>2. j \in Int /\ k \in Int /\ i \in Int
    BY <1>2
  <2>3. CASE j = i \/ k = i
    BY <1>3, <1>5, <2>1, <2>3
  <2>4. CASE j # i /\ k # i
    <3> DEFINE At(n) == IF n < i THEN n ELSE n - 1
    <3>1. At(j) \in DOMAIN s /\ At(k) \in DOMAIN s /\ t[j] = s[At(j)] /\ t[k] = s[At(k)]
      BY <1>3, <2>4
    <3>2. At(j) = At(k)
      BY <1>5, <3>1 DEF IsInjective
    <3> QED BY <2>2, <2>4, <3>2
  <2> QED BY <2>3, <2>4
<1>6. IsInjective(t)
  BY <1>5 DEF IsInjective
<1> QED BY <1>1, <1>4, <1>6 DEF t

LEMMA RosterSwapped ==
  ASSUME NEW s \in Seq(Entries), IsInjective(s), NEW i \in DOMAIN s, NEW j \in DOMAIN s, i # j,
         NEW t, t = [s EXCEPT ![i] = s[j], ![j] = s[i]]
  PROVE  t \in Seq(Entries) /\ IsInjective(t) /\ ToSet(t) \subseteq ToSet(s)
<1>1. DOMAIN s = 1 .. Len(s) /\ Len(s) \in Nat /\ \A k \in DOMAIN s : s[k] \in Entries
  BY LenProperties, ElementOfSeq
<1>2. DOMAIN t = DOMAIN s /\ \A k \in DOMAIN s : t[k] = IF k = j THEN s[i] ELSE IF k = i THEN s[j] ELSE s[k]
  OBVIOUS
<1>3. t \in [1 .. Len(s) -> Entries]
  <2>1. t = [k \in DOMAIN s |-> IF k = j THEN s[i] ELSE IF k = i THEN s[j] ELSE s[k]]
    OBVIOUS
  <2> QED BY <1>1, <2>1
<1>4. t \in Seq(Entries)
  BY <1>1, <1>3
<1>5. ToSet(t) \subseteq ToSet(s)
  BY <1>2 DEF ToSet
<1>6. IsInjective(t)
  BY <1>2 DEF IsInjective
<1> QED BY <1>4, <1>5, <1>6

LEMMA RosterAppended ==
  ASSUME NEW s \in Seq(Entries), IsInjective(s), NEW x \in Entries, x \notin ToSet(s)
  PROVE  /\ Append(s, x) \in Seq(Entries) /\ IsInjective(Append(s, x))
         /\ ToSet(Append(s, x)) \subseteq ToSet(s) \cup {x}
<1> DEFINE t == Append(s, x)
<1>1. /\ t \in Seq(Entries) /\ DOMAIN s = 1 .. Len(s) /\ DOMAIN t = 1 .. Len(s) + 1 /\ Len(s) \in Nat
      /\ \A k \in 1 .. Len(s) : t[k] = s[k]
      /\ t[Len(s) + 1] = x
  BY AppendProperties, LenProperties
<1> HIDE DEF t
<1>2. ToSet(t) \subseteq ToSet(s) \cup {x}
  BY <1>1 DEF ToSet
<1>3. \A k \in DOMAIN s : s[k] # x
  BY DEF ToSet
<1>4. IsInjective(t)
  BY <1>1, <1>3 DEF IsInjective
<1> QED BY <1>1, <1>2, <1>4 DEF t

LEMMA RosterFront ==
  ASSUME NEW s \in Seq(Entries), IsInjective(s), s # <<>>
  PROVE  /\ Front(s) \in Seq(Entries) /\ IsInjective(Front(s)) /\ Last(s) \in ToSet(s)
         /\ ToSet(Front(s)) \subseteq ToSet(s) \ {Last(s)}
<1>1. Len(s) \in Nat \ {0} /\ DOMAIN s = 1 .. Len(s)
  BY LenProperties, EmptySeq
<1> DEFINE t == Front(s)
<1>2. /\ t \in Seq(Entries) /\ DOMAIN t = 1 .. Len(s) - 1
      /\ \A k \in 1 .. Len(s) - 1 : t[k] = s[k]
  BY <1>1, SubSeqProperties, LenProperties DEF Front
<1> HIDE DEF t
<1>3. IsInjective(t) /\ ToSet(t) \subseteq ToSet(s)
  BY <1>1, <1>2 DEF IsInjective, ToSet
<1>4. Len(s) \in DOMAIN s /\ \A k \in DOMAIN t : t[k] # s[Len(s)]
  BY <1>1, <1>2 DEF IsInjective
<1> QED BY <1>2, <1>3, <1>4 DEF ToSet, Last, t

LEMMA HeadTailFacts ==
  ASSUME NEW s \in Seq(Entries), s # <<>>
  PROVE  Head(s) \in ToSet(s) /\ ToSet(Tail(s)) \subseteq ToSet(s)
<1>1. Len(s) \in Nat \ {0} /\ DOMAIN s = 1 .. Len(s)
  BY LenProperties, EmptySeq
<1>2. 1 \in DOMAIN s /\ Head(s) = s[1]
  BY <1>1
<1>3. DOMAIN Tail(s) = 1 .. Len(s) - 1 /\ \A i \in 1 .. Len(s) - 1 : Tail(s)[i] = s[i + 1] /\ i + 1 \in DOMAIN s
  BY <1>1, HeadTailProperties, LenProperties
<1> QED BY <1>2, <1>3 DEF ToSet

\* A list of a finite set is a list of all of it.
LEMMA ListOfAll ==
  ASSUME NEW S \in SUBSET Entries, IsFiniteSet(S), NEW s \in SetToSeqs(S)
  PROVE  s \in Seq(Entries) /\ ToSet(s) = S
<1>1. Cardinality(S) \in Nat /\ s \in [1 .. Cardinality(S) -> S]
  BY FS_CardinalityType DEF SetToSeqs
<1>2. s \in Injection(1 .. Cardinality(S), S)
  BY <1>1 DEF SetToSeqs, Injection, IsInjective
<1>3. Cardinality(1 .. Cardinality(S)) = Cardinality(S)
  BY <1>1, FS_Interval
<1>4. s \in Surjection(1 .. Cardinality(S), S)
  BY <1>2, <1>3, FS_Injection
<1>5. \A x \in S : \E k \in 1 .. Cardinality(S) : s[k] = x
  BY <1>4 DEF Surjection
<1> QED BY <1>1, <1>5 DEF ToSet

-----------------------------------------------------------------------------
(* The shapes a step has.                                                  *)

\* Who takes a lease has found the entry on the roster, so it is not removed.
LeaseFits(w, pc, l) ==
  w \in Clients /\ pc = "leased" => (epc[w] = "leased" /\ eloc[w].e = l.e) \/ removed[l.e] = ""

LEMMA ClientIsWorker ==
  ASSUME EntriesAssumption
  PROVE  /\ \A c \in Clients : c \in Workers /\ c # Operator /\ c # Maintainer
         /\ Operator \in Workers /\ Maintainer \in Workers /\ Operator # Maintainer
         /\ Operator \notin Clients /\ Maintainer \notin Clients /\ Nobody \notin Workers
BY DEF EntriesAssumption, Workers

\* A removed entry that is on lease to nobody stays so.
LEMMA NoNewLease ==
  ASSUME Types, NEW w \in Workers, NEW pc \in EPCs, NEW l \in ELocals, Jump(w, pc, l),
         LeaseFits(w, pc, l), NEW e \in Entries, removed[e] # "", ~Leased(e)
  PROVE  ~Leased(e)'
<1> SUFFICES ASSUME NEW c \in Clients, epc'[c] = "leased", eloc'[c].e = e PROVE FALSE
  BY DEF Leased
<1>1. /\ epc' = [epc EXCEPT ![w] = pc] /\ eloc' = [eloc EXCEPT ![w] = l]
      /\ epc \in [Workers -> EPCs] /\ eloc \in [Workers -> ELocals] /\ c \in Workers
  BY DEF Jump, Types, Workers
<1>2. CASE c = w
  <2>1. pc = "leased" /\ l.e = e
    BY <1>1, <1>2
  <2>2. epc[w] = "leased" /\ eloc[w].e = e
    BY <1>2, <2>1 DEF LeaseFits
  <2> QED BY <1>2, <2>2 DEF Leased
<1>3. CASE c # w
  <2>1. epc[c] = "leased" /\ eloc[c].e = e
    BY <1>1, <1>3
  <2> QED BY <2>1 DEF Leased
<1> QED BY <1>2, <1>3

\* A step of one worker: the others still fit.
LEMMA Moves ==
  ASSUME EntriesAssumption, IInv, NEW w \in Workers, NEW pc \in EPCs, NEW l \in ELocals,
         Jump(w, pc, l), LeaseFits(w, pc, l),
         roster' \in Seq(Entries), IsInjective(roster'),
         removed' \in [Entries -> {"", "last", "at", "all", "reload"}],
         drainer' \in [Entries -> Workers \cup {Nobody}],
         \A e \in Entries : removed[e] # "" => removed'[e] = removed[e],
         w # Operator => UNCHANGED <<roster, removed>>,
         Fits(w, pc, l)'
  PROVE  /\ Types' /\ \A v \in Workers : Fits(v, epc[v], eloc[v])'
         /\ \A e \in Entries : removed[e] # "" /\ ~Leased(e) => ~Leased(e)'
<1>1. /\ epc' = [epc EXCEPT ![w] = pc] /\ eloc' = [eloc EXCEPT ![w] = l]
      /\ epc \in [Workers -> EPCs] /\ eloc \in [Workers -> ELocals]
  BY DEF Jump, IInv, Types
<1>2. Types'
  BY <1>1 DEF Types
<1>3. \A e \in Entries : removed[e] # "" /\ ~Leased(e) => ~Leased(e)'
  BY NoNewLease DEF IInv
<1>4. ASSUME NEW v \in Workers PROVE Fits(v, epc[v], eloc[v])'
  <2>1. CASE v = w
    <3>1. epc'[v] = pc /\ eloc'[v] = l
      BY <1>1, <2>1
    <3> QED BY <2>1, <3>1
  <2>2. CASE v # w
    <3>1. epc'[v] = epc[v] /\ eloc'[v] = eloc[v] /\ Fits(v, epc[v], eloc[v])
      BY <1>1, <2>2 DEF IInv
    <3>2. Claims(epc[v], eloc[v]) =>
            /\ eloc[v].e \in Entries /\ removed'[eloc[v].e] # ""
            /\ removed'[eloc[v].e] = "last" => ~Leased(eloc[v].e)'
      BY <1>3, <3>1 DEF Fits
    <3>3. v = Operator => OperatorFits(epc[v], eloc[v])'
      <4> SUFFICES ASSUME v = Operator PROVE OperatorFits(epc[v], eloc[v])'
        OBVIOUS
      <4>1. UNCHANGED <<roster, removed>> /\ OperatorFits(epc[v], eloc[v])
        BY <2>2, <3>1 DEF Fits
      <4>2. epc[v] = "retire" /\ removed[eloc[v].e] = "last" /\ ~eloc[v].slip =>
              ~Leased(eloc[v].e)'
        <5> SUFFICES ASSUME epc[v] = "retire", removed[eloc[v].e] = "last", ~eloc[v].slip
                     PROVE  ~Leased(eloc[v].e)'
          OBVIOUS
        <5>1. eloc[v].e \in Entries /\ ~Leased(eloc[v].e)
          BY <4>1 DEF OperatorFits
        <5>2. PICK e \in Entries : e = eloc[v].e
          BY <5>1
        <5>3. ~Leased(e)'
          BY <1>3, <5>1, <5>2
        <5> QED BY <3>1, <5>2, <5>3 DEF Leased
      <4>3. ReloadFits(eloc[v]) <=> ReloadFits(eloc[v])'
        BY <3>1, <4>1 DEF ReloadFits
      <4> QED BY <3>1, <4>1, <4>2, <4>3 DEF OperatorFits
    <3>4. Claims(epc[v], eloc[v])' <=> Claims(epc[v], eloc[v])
      BY <3>1 DEF Claims
    <3> QED BY <3>1, <3>2, <3>3, <3>4 DEF Fits
  <2> QED BY <2>1, <2>2
<1> QED BY <1>2, <1>3, <1>4

\* What fits a worker before its step fits it after, when the roster stays.
LEMMA FitsLater ==
  ASSUME IInv, NEW w \in Workers, NEW pc \in EPCs, NEW l \in ELocals,
         Jump(w, pc, l), LeaseFits(w, pc, l), UNCHANGED <<roster, removed>>, Fits(w, pc, l)
  PROVE  Fits(w, pc, l)'
<1>1. \A e \in Entries : removed[e] # "" /\ ~Leased(e) => ~Leased(e)'
  BY NoNewLease DEF IInv
<1>2. Claims(pc, l) => /\ l.e \in Entries /\ removed'[l.e] # ""
                       /\ removed'[l.e] = "last" => ~Leased(l.e)'
  BY <1>1 DEF Fits
<1>3. w = Operator => OperatorFits(pc, l)'
  <2> SUFFICES ASSUME w = Operator PROVE OperatorFits(pc, l)'
    OBVIOUS
  <2>1. OperatorFits(pc, l)
    BY DEF Fits
  <2>2. pc = "retire" /\ removed[l.e] = "last" /\ ~l.slip => ~Leased(l.e)'
    BY <1>1, <2>1 DEF OperatorFits
  <2>3. ReloadFits(l)' <=> ReloadFits(l)
    BY DEF ReloadFits
  <2> QED BY <2>1, <2>2, <2>3 DEF OperatorFits
<1> QED BY <1>2, <1>3 DEF Fits

\* A step of one worker that only moves it.
LEMMA Walks ==
  ASSUME EntriesAssumption, IInv, NEW w \in Workers, NEW pc \in EPCs, NEW l \in ELocals,
         Jump(w, pc, l), LeaseFits(w, pc, l), UNCHANGED <<rosterVars, drainVars>>,
         w = Operator => epc[w] \notin {"retire", "park"},
         Fits(w, pc, l)
  PROVE  IInv'
<1>1. UNCHANGED <<roster, removed, retired, drainer, drained>>
  BY DEF rosterVars, drainVars
<1>2. \A e \in Entries : removed[e] # "" /\ ~Leased(e) => ~Leased(e)'
  BY NoNewLease DEF IInv
<1>3. Fits(w, pc, l)'
  BY <1>1, FitsLater
<1>4. /\ roster' \in Seq(Entries) /\ IsInjective(roster')
      /\ removed' \in [Entries -> {"", "last", "at", "all", "reload"}]
      /\ drainer' \in [Entries -> Workers \cup {Nobody}]
  BY <1>1 DEF IInv, Types
<1>5. Types' /\ \A v \in Workers : Fits(v, epc[v], eloc[v])'
  BY <1>1, <1>3, <1>4, Moves
<1>6. OnRosterNotRemoved' /\ PresentUntouched'
  BY <1>1 DEF IInv, OnRosterNotRemoved, PresentUntouched
<1>7. LastKept'
  BY <1>1, <1>2 DEF IInv, LastKept
<1>8. \A e \in Entries : Holds(epc[Operator], eloc[Operator], e) =>
                         Holds(epc[Operator], eloc[Operator], e)'
  <2>1. CASE w = Operator
    BY <2>1 DEF Holds
  <2>2. CASE w # Operator
    <3>1. epc'[Operator] = epc[Operator] /\ eloc'[Operator] = eloc[Operator]
      BY <2>2, ClientIsWorker DEF IInv, Types, Jump
    <3> QED BY <3>1 DEF Holds
  <2> QED BY <2>1, <2>2
<1>9. OffParked'
  <2> SUFFICES ASSUME NEW e \in Entries, TakenOff(e)', Leased(e)'
               PROVE  e \in retired' \cup drained' \/ Holds(epc[Operator], eloc[Operator], e)'
    BY DEF OffParked
  <2>1. TakenOff(e) /\ removed[e] # "" /\ Leased(e)
    BY <1>1, <1>2 DEF TakenOff
  <2> QED BY <1>1, <1>8, <2>1 DEF IInv, OffParked
<1> QED BY <1>5, <1>6, <1>7, <1>9 DEF IInv

\* A step that moves nobody; the roster may change while the operator is at home,
\* as long as no removed entry gets on it, and an unleased entry may leave retired.
LEMMA Stays ==
  ASSUME EntriesAssumption, IInv, UNCHANGED <<epc, eloc, removed, drainVars>>,
         roster' \in Seq(Entries), IsInjective(roster'),
         \A e \in ToSet(roster') : removed[e] = "",
         epc[Operator] = "home" \/ UNCHANGED roster,
         retired' \subseteq retired, \A e \in retired \ retired' : ~Leased(e)
  PROVE  IInv'
<1>1. UNCHANGED <<epc, eloc, removed, drainer, drained>>
  BY DEF drainVars
<1>2. Types'
  BY <1>1 DEF IInv, Types
<1>3. \A e : Leased(e)' <=> Leased(e)
  BY <1>1 DEF Leased
<1>4. ASSUME NEW w \in Workers PROVE Fits(w, epc[w], eloc[w])'
  <2>1. Fits(w, epc[w], eloc[w])
    BY DEF IInv
  <2>2. w = Operator => OperatorFits(epc[w], eloc[w])'
    <3> SUFFICES ASSUME w = Operator PROVE OperatorFits(epc[w], eloc[w])'
      OBVIOUS
    <3>1. OperatorFits(epc[w], eloc[w])
      BY <2>1 DEF Fits
    <3>2. CASE UNCHANGED roster
      <4>1. ReloadFits(eloc[w])' <=> ReloadFits(eloc[w])
        BY <1>1, <3>2 DEF ReloadFits
      <4> QED BY <1>1, <1>3, <3>1, <3>2, <4>1 DEF OperatorFits
    <3>3. CASE epc[Operator] = "home"
      BY <1>1, <3>1, <3>3 DEF OperatorFits
    <3> QED BY <3>2, <3>3
  <2> QED BY <1>1, <1>3, <2>1, <2>2 DEF Fits, Claims
<1>5. OnRosterNotRemoved' /\ PresentUntouched' /\ LastKept'
  BY <1>1, <1>3 DEF IInv, OnRosterNotRemoved, PresentUntouched, LastKept
<1>6. OffParked'
  BY <1>1, <1>3 DEF IInv, OffParked, TakenOff, Holds
<1> QED BY <1>2, <1>4, <1>5, <1>6 DEF IInv

\* Going home fits.
LEMMA HomeFits ==
  ASSUME EntriesAssumption, NEW w \in Workers
  PROVE  NoELoc \in ELocals /\ "home" \in EPCs /\ Fits(w, "home", NoELoc) /\ LeaseFits(w, "home", NoELoc)
BY ClientIsWorker DEF NoELoc, ELocals, EPCs, Fits, OperatorFits, Claims, LeaseFits

LEMMA GoesHome ==
  ASSUME EntriesAssumption, IInv, NEW w \in Workers, Home(w), UNCHANGED <<rosterVars, drainVars>>,
         w = Operator => epc[w] \notin {"retire", "park"}
  PROVE  IInv'
BY HomeFits, Walks DEF Home

LEMMA InRoster ==
  ASSUME NEW s \in Seq(Entries)
  PROVE  /\ \A i \in DOMAIN s : s[i] \in Entries /\ s[i] \in ToSet(s) /\ i \in Nat
         /\ \A e \in ToSet(s) : e \in Entries
<1>1. \A i \in DOMAIN s : s[i] \in Entries /\ i \in Nat
  BY LenProperties, ElementOfSeq
<1> QED BY <1>1 DEF ToSet

\* The locals of a worker at home.
LEMMA HomeLocals ==
  /\ NoELoc \in ELocals /\ NoELoc.why = "" /\ ~NoELoc.once /\ ~NoELoc.slip
  /\ NoELoc.rest = <<>>
BY DEF NoELoc, ELocals

LEMMA WorkerFacts ==
  ASSUME EntriesAssumption, IInv, NEW w \in Workers
  PROVE  /\ eloc[w] \in ELocals /\ epc[w] \in EPCs /\ Fits(w, epc[w], eloc[w])
         /\ w = Operator => OperatorFits(epc[w], eloc[w])
         /\ \A i \in DOMAIN roster : roster[i] \in Entries /\ roster[i] \in ToSet(roster) /\ i \in Nat
         /\ \A e \in ToSet(roster) : e \in Entries /\ removed[e] = ""
<1>1. /\ eloc[w] \in ELocals /\ epc[w] \in EPCs /\ Fits(w, epc[w], eloc[w])
      /\ roster \in Seq(Entries) /\ \A e \in ToSet(roster) : removed[e] = ""
  BY DEF IInv, Types, OnRosterNotRemoved
<1>2. w = Operator => OperatorFits(epc[w], eloc[w])
  BY <1>1 DEF Fits
<1> QED BY <1>1, <1>2, InRoster

LEMMA InitFits ==
  ASSUME EntriesAssumption, EInit
  PROVE  IInv
<1>1. \A w \in Workers : Fits(w, epc[w], eloc[w])
  BY HomeFits DEF EInit
<1>2. \A e : ~Leased(e)
  BY ClientIsWorker DEF EInit, Leased
<1>3. \A e \in ToSet(roster) : removed[e] = ""
  <2>1. \A e \in ToSet(roster) : e \in Entries
    BY InRoster DEF EInit, EntriesAssumption
  <2> QED BY <2>1 DEF EInit
<1>4. Types
  BY HomeFits DEF EInit, Types, EntriesAssumption
<1>5. PresentUntouched /\ LastKept /\ OffParked
  BY <1>2 DEF EInit, PresentUntouched, LastKept, OffParked
<1> QED BY <1>1, <1>3, <1>4, <1>5 DEF IInv, OnRosterNotRemoved

-----------------------------------------------------------------------------
(* The requests.                                                           *)

\* A client that goes on with the same entry and takes no lease.
LEMMA ClientKeeps ==
  ASSUME EntriesAssumption, IInv, NEW c \in Clients, epc[c] # "home",
         NEW pc \in {"admit", "alive", "start", "confirm", "giveback"},
         Keep(c, pc), UNCHANGED <<rosterVars, drainVars>>
  PROVE  IInv'
<1>1. c \in Workers /\ c # Operator /\ c # Maintainer
  BY ClientIsWorker
<1>2. eloc[c] \in ELocals /\ Fits(c, epc[c], eloc[c]) /\ pc \in EPCs
  BY <1>1, WorkerFacts DEF EPCs
<1>3. Fits(c, pc, eloc[c])
  BY <1>1, <1>2 DEF Fits, Claims
<1>4. LeaseFits(c, pc, eloc[c])
  BY DEF LeaseFits
<1> QED BY <1>1, <1>2, <1>3, <1>4, Walks DEF Keep

LEMMA AskFits ==
  ASSUME EntriesAssumption, IInv, NEW c \in Clients, Ask(c)
  PROVE  IInv'
<1>1. PICK i \in DOMAIN roster : Jump(c, "admit", [NoELoc EXCEPT !.e = roster[i], !.i = i])
  BY DEF Ask
<1> DEFINE l == [NoELoc EXCEPT !.e = roster[i], !.i = i]
<1>2. c \in Workers /\ c # Operator /\ c # Maintainer /\ roster[i] \in Entries /\ i \in Nat
  BY ClientIsWorker, WorkerFacts
<1>3. l \in ELocals /\ l.e = roster[i] /\ l.why = "" /\ "admit" \in EPCs
  BY <1>2, HomeLocals DEF ELocals, EPCs
<1> HIDE DEF l
<1>4. Fits(c, "admit", l) /\ LeaseFits(c, "admit", l)
  BY <1>2, <1>3 DEF Fits, Claims, LeaseFits
<1>5. UNCHANGED <<rosterVars, drainVars>>
  BY DEF Ask
<1> QED BY <1>1, <1>2, <1>3, <1>4, <1>5, Walks DEF l

\* The lease is granted on a look at the roster.
LEMMA GrantFits ==
  ASSUME EntriesAssumption, IInv, NEW c \in Clients, Grant(c)
  PROVE  IInv'
<1>1. c \in Workers /\ c # Operator /\ c # Maintainer /\ UNCHANGED <<rosterVars, drainVars>>
      /\ epc[c] = "confirm"
  BY ClientIsWorker DEF Grant
<1>2. CASE OnRosterAt(c)
  <2>1. eloc[c] \in ELocals /\ Fits(c, epc[c], eloc[c]) /\ "leased" \in EPCs
    BY <1>1, WorkerFacts DEF EPCs
  <2>2. removed[eloc[c].e] = ""
    BY <1>1, <1>2, WorkerFacts DEF OnRosterAt
  <2>3. Fits(c, "leased", eloc[c]) /\ LeaseFits(c, "leased", eloc[c])
    BY <1>1, <2>1, <2>2 DEF Fits, Claims, LeaseFits
  <2> QED BY <1>1, <1>2, <2>1, <2>3, Walks DEF Grant, Keep
<1>3. CASE ~OnRosterAt(c)
  BY <1>1, <1>3, GoesHome DEF Grant
<1> QED BY <1>2, <1>3

\* Whoever finds the entry parked and idle drains it: it is off the roster, so
\* nobody can lease it again.
LEMMA LookParkedFits ==
  ASSUME EntriesAssumption, IInv, NEW c \in Clients, LookParked(c)
  PROVE  IInv'
<1>1. c \in Workers /\ c # Operator /\ c # Maintainer /\ UNCHANGED <<rosterVars, drainVars>>
      /\ epc[c] = "giveback"
  BY ClientIsWorker DEF LookParked
<1>2. CASE eloc[c].e \in retired /\ InflightOf(eloc[c].e) = {}
  <2>1. eloc[c] \in ELocals /\ Fits(c, epc[c], eloc[c]) /\ "drain" \in EPCs
    BY <1>1, WorkerFacts DEF EPCs
  <2>2. eloc[c].e \in Entries /\ removed[eloc[c].e] # ""
    BY <1>1, <1>2, <2>1 DEF Fits, IInv, PresentUntouched
  <2>3. ~Leased(eloc[c].e)
    BY <1>2 DEF Leased, InflightOf
  <2>4. Fits(c, "drain", eloc[c]) /\ LeaseFits(c, "drain", eloc[c])
    BY <1>1, <2>1, <2>2, <2>3 DEF Fits, Claims, LeaseFits
  <2> QED BY <1>1, <1>2, <2>1, <2>4, Walks DEF LookParked, Keep
<1>3. CASE ~(eloc[c].e \in retired /\ InflightOf(eloc[c].e) = {})
  BY <1>1, <1>3, GoesHome DEF LookParked
<1> QED BY <1>2, <1>3

LEMMA ClientFits ==
  ASSUME EntriesAssumption, IInv, NEW c \in Clients,
         \/ Ask(c) \/ AdmitSession(c) \/ Vanished(c) \/ StartRun(c) \/ Grant(c) \/ GiveRunBack(c)
         \/ LookParked(c) \/ Abandon(c)
  PROVE  IInv'
<1>1. c \in Workers /\ c # Operator
  BY ClientIsWorker
<1>2. CASE Ask(c) \/ Grant(c) \/ LookParked(c)
  BY <1>2, AskFits, GrantFits, LookParkedFits
<1>3. CASE AdmitSession(c)
  BY <1>3, ClientKeeps DEF AdmitSession
<1>4. CASE Vanished(c)
  BY <1>1, <1>4, ClientKeeps, GoesHome DEF Vanished
<1>5. CASE StartRun(c)
  BY <1>5, ClientKeeps DEF StartRun
<1>6. CASE GiveRunBack(c)
  BY <1>6, ClientKeeps DEF GiveRunBack
<1>7. CASE Abandon(c)
  BY <1>1, <1>7, GoesHome DEF Abandon
<1> QED BY <1>2, <1>3, <1>4, <1>5, <1>6, <1>7

-----------------------------------------------------------------------------
(* The drains.                                                             *)

\* Whoever claims an entry is a client, or the operator with a removal or a reload.
LEMMA Claimant ==
  ASSUME EntriesAssumption, IInv, NEW w \in Workers, Claims(epc[w], eloc[w])
  PROVE  /\ w \in Clients \/ w = Operator
         /\ eloc[w].why \in {"", "reload"} /\ (eloc[w].why = "reload" => w = Operator)
         /\ eloc[w].e \in Entries /\ removed[eloc[w].e] # ""
         /\ removed[eloc[w].e] = "last" => ~Leased(eloc[w].e)
         /\ epc[w] \in {"drain", "finish", "end"}
<1>1. Fits(w, epc[w], eloc[w]) /\ (w = Operator => OperatorFits(epc[w], eloc[w]))
  BY WorkerFacts
<1>2. w # Maintainer
  BY <1>1 DEF Fits, Claims
<1>3. w \in Clients \/ w = Operator
  BY <1>2 DEF Workers
<1>4. eloc[w].why \in {"", "reload"} /\ (eloc[w].why = "reload" => w = Operator)
  BY <1>1, <1>3 DEF Fits, OperatorFits, Claims
<1> QED BY <1>1, <1>3, <1>4 DEF Fits, Claims

\* After the drain: home, or back to the list of the reload.
LEMMA AfterDrainFits ==
  ASSUME EntriesAssumption, IInv, NEW w \in Workers, Claims(epc[w], eloc[w]), AfterDrain(w)
  PROVE  \E pc \in EPCs, l \in ELocals :
           Jump(w, pc, l) /\ Fits(w, pc, l) /\ LeaseFits(w, pc, l) /\ pc \notin {"retire", "park"}
<1>1. CASE eloc[w].why = "reload"
  <2> DEFINE l == [eloc[w] EXCEPT !.once = FALSE]
  <2>1. w = Operator /\ w \notin Clients /\ w # Maintainer /\ epc[w] \in {"drain", "finish", "end"}
    BY <1>1, Claimant, ClientIsWorker
  <2>2. eloc[w] \in ELocals /\ OperatorFits(epc[w], eloc[w]) /\ "settle" \in EPCs
    BY <2>1, WorkerFacts DEF EPCs
  <2>3. l \in ELocals /\ l.rest = eloc[w].rest /\ l.why = "reload" /\ ~l.once
    BY <1>1, <2>2 DEF ELocals
  <2> HIDE DEF l
  <2>4. OperatorFits("settle", l)
    BY <1>1, <2>1, <2>2, <2>3 DEF OperatorFits
  <2>5. Fits(w, "settle", l) /\ LeaseFits(w, "settle", l)
    BY <2>1, <2>4 DEF Fits, Claims, LeaseFits
  <2>6. Jump(w, "settle", l)
    BY <1>1 DEF AfterDrain, l
  <2> QED BY <2>2, <2>3, <2>5, <2>6
<1>2. CASE eloc[w].why # "reload"
  BY <1>2, HomeFits DEF AfterDrain, Home
<1> QED BY <1>1, <1>2

LEMMA EnterDrainFits ==
  ASSUME EntriesAssumption, IInv, NEW w \in Workers, EnterDrain(w)
  PROVE  IInv'
<1>0. PICK e : e = eloc[w].e
  OBVIOUS
<1>1. /\ epc[w] = "drain" /\ Claims(epc[w], eloc[w])
      /\ UNCHANGED <<roster, removed, retired, drained>>
  BY DEF EnterDrain, Claims, rosterVars
<1>2. CASE e \in drained /\ AfterDrain(w) /\ UNCHANGED drainer
  <2>1. PICK pc \in EPCs, k \in ELocals :
          Jump(w, pc, k) /\ Fits(w, pc, k) /\ LeaseFits(w, pc, k) /\ pc \notin {"retire", "park"}
    BY <1>1, <1>2, AfterDrainFits
  <2>2. UNCHANGED <<rosterVars, drainVars>>
    BY <1>1, <1>2 DEF rosterVars, drainVars
  <2> QED BY <1>1, <2>1, <2>2, Walks
<1>3. CASE drainer' = [drainer EXCEPT ![e] = w] /\ Jump(w, "finish", [eloc[w] EXCEPT !.once = TRUE])
  <2>1. /\ w \in Clients \/ w = Operator
        /\ eloc[w].why \in {"", "reload"} /\ (eloc[w].why = "reload" => w = Operator)
        /\ e \in Entries /\ removed[e] # "" /\ (removed[e] = "last" => ~Leased(e))
    BY <1>0, <1>1, Claimant
  <2>2. /\ eloc[w] \in ELocals /\ Fits(w, "drain", eloc[w]) /\ "finish" \in EPCs
        /\ w = Operator => OperatorFits("drain", eloc[w])
    BY <1>1, WorkerFacts DEF EPCs
  <2>3. PICK l \in ELocals :
           /\ Jump(w, "finish", l)
           /\ l.e = e /\ l.why = eloc[w].why /\ l.rest = eloc[w].rest /\ l.once
    <3> DEFINE k == [eloc[w] EXCEPT !.once = TRUE]
    <3>1. /\ k \in ELocals /\ k.e = e /\ k.why = eloc[w].why /\ k.rest = eloc[w].rest /\ k.once
      BY <1>0, <2>2 DEF ELocals
    <3>2. Jump(w, "finish", k)
      BY <1>3
    <3> HIDE DEF k
    <3> QED BY <3>1, <3>2
  <2>4. LeaseFits(w, "finish", l)
    BY DEF LeaseFits
  <2>5. Fits(w, "finish", l)
    <3>1. w = Operator => OperatorFits("finish", l)
      BY <2>1, <2>2, <2>3 DEF OperatorFits
    <3>2. w # Maintainer
      BY <2>1, ClientIsWorker
    <3> QED BY <2>1, <2>2, <2>3, <3>1, <3>2 DEF Fits, Claims
  <2>6. Fits(w, "finish", l)'
    BY <1>1, <1>3, <2>2, <2>3, <2>4, <2>5, FitsLater
  <2>7. /\ roster' \in Seq(Entries) /\ IsInjective(roster')
        /\ removed' \in [Entries -> {"", "last", "at", "all", "reload"}]
        /\ drainer' \in [Entries -> Workers \cup {Nobody}]
    BY <1>1, <1>3 DEF IInv, Types
  <2>8. /\ Types' /\ \A v \in Workers : Fits(v, epc[v], eloc[v])'
        /\ \A x \in Entries : removed[x] # "" /\ ~Leased(x) => ~Leased(x)'
    BY <1>1, <1>3, <2>2, <2>3, <2>4, <2>6, <2>7, Moves
  <2>9. \A x \in Entries \ {e} : drainer'[x] = drainer[x]
    BY <1>3 DEF IInv, Types
  <2>10. OnRosterNotRemoved' /\ PresentUntouched'
    BY <1>1, <2>1, <2>9 DEF IInv, OnRosterNotRemoved, PresentUntouched
  <2>11. LastKept'
    <3> SUFFICES ASSUME NEW x \in Entries, removed[x] = "last", Leased(x)'
                 PROVE  x \notin drained /\ drainer'[x] = Nobody
      BY <1>1 DEF LastKept
    <3>1. Leased(x) /\ x # e
      BY <2>1, <2>8
    <3> QED BY <2>9, <3>1 DEF IInv, LastKept
  <2>12. \A x \in Entries : Holds(epc[Operator], eloc[Operator], x) =>
                            Holds(epc[Operator], eloc[Operator], x)'
    <3>1. CASE w = Operator
      BY <1>1, <3>1 DEF Holds
    <3>2. CASE w # Operator
      <4>1. epc'[Operator] = epc[Operator] /\ eloc'[Operator] = eloc[Operator]
        BY <1>3, <3>2, ClientIsWorker DEF IInv, Types, Jump
      <4> QED BY <4>1 DEF Holds
    <3> QED BY <3>1, <3>2
  <2>13. OffParked'
    <3> SUFFICES ASSUME NEW x \in Entries, TakenOff(x)', Leased(x)'
                 PROVE  x \in retired' \cup drained' \/ Holds(epc[Operator], eloc[Operator], x)'
      BY DEF OffParked
    <3>1. TakenOff(x) /\ removed[x] # "" /\ Leased(x)
      BY <1>1, <2>8 DEF TakenOff
    <3> QED BY <1>1, <2>12, <3>1 DEF IInv, OffParked
  <2> QED BY <2>8, <2>10, <2>11, <2>13 DEF IInv
<1> QED BY <1>0, <1>2, <1>3 DEF EnterDrain

\* FinishAllRuns: home, on to the session, or on with the list.
LEMMA FinishAllFits ==
  ASSUME EntriesAssumption, IInv, NEW w \in Workers, FinishAll(w)
  PROVE  IInv'
<1>1. /\ epc[w] = "finish" /\ UNCHANGED <<rosterVars, drainVars>>
      /\ eloc[w] \in ELocals /\ Fits(w, "finish", eloc[w])
      /\ w = Operator => OperatorFits("finish", eloc[w])
  BY WorkerFacts DEF FinishAll
<1>2. CASE eloc[w].why = "idle"
  <2>1. w = Maintainer /\ "sweep" \in EPCs /\ w \notin Clients /\ w # Operator /\ ~eloc[w].once
    BY <1>1, <1>2, ClientIsWorker DEF Fits, OperatorFits, Workers, EPCs
  <2>2. Fits(w, "sweep", eloc[w]) /\ LeaseFits(w, "sweep", eloc[w])
    BY <1>2, <2>1 DEF Fits, Claims, LeaseFits
  <2> QED BY <1>1, <1>2, <2>1, <2>2, Walks DEF FinishAll, Keep
<1>3. CASE eloc[w].why = "finish"
  BY <1>1, <1>3, GoesHome DEF FinishAll
<1>4. CASE eloc[w].why \notin {"idle", "finish"}
  <2>1. w # Maintainer /\ "end" \in EPCs
    BY <1>1, <1>4 DEF Fits, EPCs
  <2>2. w = Operator => OperatorFits("end", eloc[w])
    BY <1>1, <1>4 DEF OperatorFits
  <2>3. Fits(w, "end", eloc[w]) /\ LeaseFits(w, "end", eloc[w])
    BY <1>1, <2>1, <2>2 DEF Fits, Claims, LeaseFits
  <2> QED BY <1>1, <1>4, <2>1, <2>3, Walks DEF FinishAll, Keep
<1> QED BY <1>2, <1>3, <1>4

\* The end of drained.Do: the entry is drained and leaves retired.
LEMMA EndOneFits ==
  ASSUME EntriesAssumption, IInv, NEW w \in Workers, EndOne(w)
  PROVE  IInv'
<1>0. PICK e : e = eloc[w].e
  OBVIOUS
<1>1. /\ epc[w] = "end" /\ UNCHANGED <<roster, removed>>
      /\ eloc[w] \in ELocals /\ Fits(w, "end", eloc[w])
      /\ w = Operator => OperatorFits("end", eloc[w])
  BY WorkerFacts DEF EndOne
<1>2. CASE ~eloc[w].once
  <2>1. w = Operator /\ "sweep" \in EPCs /\ w \notin Clients /\ w # Maintainer
    BY <1>1, <1>2, ClientIsWorker DEF Fits, Workers, EPCs
  <2>2. OperatorFits("sweep", eloc[w])
    BY <1>1, <1>2, <2>1 DEF OperatorFits
  <2>3. Fits(w, "sweep", eloc[w]) /\ LeaseFits(w, "sweep", eloc[w])
    BY <2>1, <2>2 DEF Fits, Claims, LeaseFits
  <2>4. UNCHANGED <<rosterVars, drainVars>> /\ Jump(w, "sweep", eloc[w])
    BY <1>1, <1>2 DEF EndOne, Keep, rosterVars, drainVars
  <2> QED BY <1>1, <2>1, <2>3, <2>4, Walks
<1>3. CASE eloc[w].once
  <2>1. /\ drained' = drained \cup {e} /\ drainer' = [drainer EXCEPT ![e] = Nobody]
        /\ retired' = retired \ {e} /\ AfterDrain(w) /\ Claims(epc[w], eloc[w])
    BY <1>0, <1>1, <1>3 DEF EndOne, Claims
  <2>2. e \in Entries /\ removed[e] # "" /\ (removed[e] = "last" => ~Leased(e))
    BY <1>0, <2>1, Claimant
  <2>3. PICK pc \in EPCs, l \in ELocals :
          Jump(w, pc, l) /\ Fits(w, pc, l) /\ LeaseFits(w, pc, l) /\ pc \notin {"retire", "park"}
    BY <2>1, AfterDrainFits
  <2>4. Fits(w, pc, l)'
    BY <1>1, <2>3, FitsLater
  <2>5. /\ roster' \in Seq(Entries) /\ IsInjective(roster')
        /\ removed' \in [Entries -> {"", "last", "at", "all", "reload"}]
        /\ drainer' \in [Entries -> Workers \cup {Nobody}]
    BY <1>1, <2>1 DEF IInv, Types
  <2>6. /\ Types' /\ \A v \in Workers : Fits(v, epc[v], eloc[v])'
        /\ \A x \in Entries : removed[x] # "" /\ ~Leased(x) => ~Leased(x)'
    BY <1>1, <2>3, <2>4, <2>5, Moves
  <2>7. \A x \in Entries \ {e} : drainer'[x] = drainer[x]
    BY <2>1 DEF IInv, Types
  <2>8. OnRosterNotRemoved' /\ PresentUntouched'
    BY <1>1, <2>1, <2>2, <2>7 DEF IInv, OnRosterNotRemoved, PresentUntouched
  <2>9. LastKept'
    <3> SUFFICES ASSUME NEW x \in Entries, removed[x] = "last", Leased(x)'
                 PROVE  x \notin drained' /\ drainer'[x] = Nobody
      BY <1>1 DEF LastKept
    <3>0. removed[x] # "" /\ Leased(x)
      BY <2>6
    <3>1. Leased(x) /\ x # e
      BY <2>2, <3>0
    <3> QED BY <2>1, <2>7, <3>1 DEF IInv, LastKept
  <2>10. \A x \in Entries : Holds(epc[Operator], eloc[Operator], x) =>
                            Holds(epc[Operator], eloc[Operator], x)'
    <3>1. CASE w = Operator
      BY <1>1, <3>1 DEF Holds
    <3>2. CASE w # Operator
      <4>1. epc'[Operator] = epc[Operator] /\ eloc'[Operator] = eloc[Operator]
        BY <2>3, <3>2, ClientIsWorker DEF IInv, Types, Jump
      <4> QED BY <4>1 DEF Holds
    <3> QED BY <3>1, <3>2
  <2>11. OffParked'
    <3> SUFFICES ASSUME NEW x \in Entries, TakenOff(x)', Leased(x)'
                 PROVE  x \in retired' \cup drained' \/ Holds(epc[Operator], eloc[Operator], x)'
      BY DEF OffParked
    <3>1. TakenOff(x) /\ removed[x] # "" /\ Leased(x)
      BY <1>1, <2>6 DEF TakenOff
    <3> QED BY <2>1, <2>10, <3>1 DEF IInv, OffParked
  <2> QED BY <2>6, <2>8, <2>9, <2>11 DEF IInv
<1> QED BY <1>2, <1>3

LEMMA SweepNextFits ==
  ASSUME EntriesAssumption, IInv, NEW w \in Workers, SweepNext(w)
  PROVE  IInv'
<1>1. /\ epc[w] = "sweep" /\ UNCHANGED <<rosterVars, drainVars>>
      /\ eloc[w] \in ELocals /\ Fits(w, "sweep", eloc[w])
      /\ w = Operator => OperatorFits("sweep", eloc[w])
  BY WorkerFacts DEF SweepNext
<1>2. w \notin Clients /\ (w = Operator \/ w = Maintainer)
  BY <1>1 DEF Fits, Workers
<1>3. CASE eloc[w].rest = <<>>
  <2>1. CASE eloc[w].why = "all"
    <3>1. w = Operator /\ w # Maintainer /\ OperatorFits("clear", eloc[w]) /\ "clear" \in EPCs
      BY <1>1, <1>2, <2>1, ClientIsWorker DEF Fits, OperatorFits, EPCs
    <3>2. Fits(w, "clear", eloc[w]) /\ LeaseFits(w, "clear", eloc[w])
      BY <1>2, <3>1 DEF Fits, Claims, LeaseFits
    <3>3. Keep(w, "clear")
      BY <1>3, <2>1 DEF SweepNext
    <3> QED BY <1>1, <3>1, <3>2, <3>3, Walks DEF Keep
  <2>2. CASE eloc[w].why # "all"
    BY <1>1, <1>3, <2>2, GoesHome DEF SweepNext
  <2> QED BY <2>1, <2>2
<1>4. CASE eloc[w].rest # <<>>
  <2> DEFINE k == [eloc[w] EXCEPT !.e = Head(eloc[w].rest), !.rest = Tail(eloc[w].rest)]
  <2>1. eloc[w].rest \in Seq(Entries)
    BY <1>1 DEF ELocals
  <2>2. Head(eloc[w].rest) \in Entries /\ Tail(eloc[w].rest) \in Seq(Entries)
    BY <1>4, <2>1, HeadTailProperties
  <2>3. k \in ELocals /\ k.why = eloc[w].why /\ k.once = eloc[w].once
    BY <1>1, <2>2 DEF ELocals
  <2>4. Jump(w, "sweep", k) \/ Jump(w, "finish", k)
    BY <1>4 DEF SweepNext
  <2> HIDE DEF k
  <2>5. ASSUME NEW pc \in {"sweep", "finish"} PROVE Fits(w, pc, k) /\ LeaseFits(w, pc, k) /\ pc \in EPCs
    <3>1. ~k.once
      BY <1>1, <1>2, <2>3 DEF Fits, OperatorFits
    <3>2. w = Operator => OperatorFits(pc, k)
      BY <1>1, <2>3, <3>1 DEF OperatorFits
    <3> QED BY <1>1, <1>2, <2>3, <3>1, <3>2 DEF Fits, Claims, LeaseFits, EPCs
  <2> QED BY <1>1, <2>3, <2>4, <2>5, Walks
<1> QED BY <1>3, <1>4

LEMMA DrainFits ==
  ASSUME EntriesAssumption, IInv, NEW w \in Workers, DrainStep(w)
  PROVE  IInv'
BY EnterDrainFits, FinishAllFits, EndOneFits, SweepNextFits DEF DrainStep

-----------------------------------------------------------------------------
(* The operator and the maintenance loop.                                  *)

LEMMA OperatorFacts ==
  ASSUME EntriesAssumption, IInv
  PROVE  /\ Operator \in Workers /\ Operator \notin Clients /\ Operator # Maintainer
         /\ eloc[Operator] \in ELocals /\ OperatorFits(epc[Operator], eloc[Operator])
         /\ roster \in Seq(Entries) /\ IsInjective(roster)
BY ClientIsWorker, WorkerFacts DEF IInv, Types

\* A place that is no drain fits the operator as soon as it fits an operator.
LEMMA OperatorPlace ==
  ASSUME EntriesAssumption, NEW pc, NEW l, ~Claims(pc, l)
  PROVE  /\ OperatorFits(pc, l) => Fits(Operator, pc, l)
         /\ OperatorFits(pc, l)' => Fits(Operator, pc, l)'
         /\ LeaseFits(Operator, pc, l)
BY ClientIsWorker DEF Fits, LeaseFits, Claims

\* A step of the operator that only moves it, to a place that is no drain.
LEMMA OperatorWalks ==
  ASSUME EntriesAssumption, IInv, NEW pc \in EPCs, NEW l \in ELocals, Jump(Operator, pc, l),
         UNCHANGED <<rosterVars, drainVars>>, epc[Operator] \notin {"retire", "park"},
         OperatorFits(pc, l), ~Claims(pc, l)
  PROVE  IInv'
BY OperatorFacts, OperatorPlace, Walks

LEMMA LeasesStay ==
  ASSUME EntriesAssumption, IInv, NEW pc, NEW l, Jump(Operator, pc, l)
  PROVE  \A e : Leased(e)' <=> Leased(e)
<1>1. \A c \in Clients : epc'[c] = epc[c] /\ eloc'[c] = eloc[c]
  BY ClientIsWorker DEF Jump, IInv, Types
<1> QED BY <1>1 DEF Leased

\* The operator takes entries off the roster and holds them.
LEMMA TakesOff ==
  ASSUME EntriesAssumption, IInv, NEW pc \in EPCs, NEW l \in ELocals, Jump(Operator, pc, l),
         UNCHANGED <<retired, drainVars>>, epc[Operator] \notin {"retire", "park"},
         roster' \in Seq(Entries), IsInjective(roster'),
         removed' \in [Entries -> {"", "last", "at", "all", "reload"}],
         \A e \in ToSet(roster') : removed'[e] = "",
         \A e \in Entries : removed[e] # "" => removed'[e] = removed[e],
         \A e \in Entries : TakenOff(e)' /\ removed[e] = "" => Holds(pc, l, e),
         OperatorFits(pc, l)', ~Claims(pc, l)
  PROVE  IInv'
<1>1. Operator \in Workers /\ Fits(Operator, pc, l)' /\ LeaseFits(Operator, pc, l)
  BY OperatorFacts, OperatorPlace
<1>2. UNCHANGED <<drainer, drained>>
  BY DEF drainVars
<1>3. drainer' \in [Entries -> Workers \cup {Nobody}]
  BY <1>2 DEF IInv, Types
<1>4. Types' /\ \A v \in Workers : Fits(v, epc[v], eloc[v])'
  BY <1>1, <1>3, Moves
<1>5. \A e : Leased(e)' <=> Leased(e)
  BY LeasesStay
<1>6. OnRosterNotRemoved'
  BY DEF OnRosterNotRemoved
<1>7. PresentUntouched'
  BY <1>2 DEF IInv, PresentUntouched
<1>8. LastKept'
  BY <1>2, <1>5 DEF IInv, LastKept, PresentUntouched
<1>9. OffParked'
  <2> SUFFICES ASSUME NEW e \in Entries, TakenOff(e)', Leased(e)'
               PROVE  e \in retired' \cup drained' \/ Holds(epc[Operator], eloc[Operator], e)'
    BY DEF OffParked
  <2>1. CASE removed[e] = ""
    <3>1. Holds(pc, l, e)
      BY <2>1
    <3>2. epc'[Operator] = pc /\ eloc'[Operator] = l
      BY <1>1 DEF Jump, IInv, Types
    <3> QED BY <3>1, <3>2 DEF Holds
  <2>2. CASE removed[e] # ""
    <3>1. TakenOff(e) /\ Leased(e)
      BY <1>5, <2>2 DEF TakenOff
    <3> QED BY <1>2, <3>1 DEF IInv, OffParked, Holds
  <2> QED BY <2>1, <2>2
<1> QED BY <1>4, <1>6, <1>7, <1>8, <1>9 DEF IInv

\* Calls that only begin, and take the roster they find.
LEMMA BeginsFits ==
  ASSUME EntriesAssumption, IInv, RemoveLast \/ RemoveOne \/ RemoveAll \/ FinishToken \/ Stop
  PROVE  IInv'
<1>1. /\ epc[Operator] = "home" /\ eloc[Operator] = NoELoc /\ roster \in Seq(Entries)
      /\ UNCHANGED <<rosterVars, drainVars>>
  <2>1. epc[Operator] = "home" /\ UNCHANGED <<rosterVars, drainVars>>
    BY DEF RemoveLast, RemoveOne, RemoveAll, FinishToken, Stop, Edit, EditOnly
  <2> QED BY <2>1, OperatorFacts DEF OperatorFits
<1>2. CASE RemoveLast
  <2>1. OperatorFits("pop", NoELoc) /\ "pop" \in EPCs /\ Jump(Operator, "pop", NoELoc)
    BY <1>1, <1>2 DEF RemoveLast, Keep, OperatorFits, EPCs
  <2> QED BY <1>1, <2>1, HomeLocals, OperatorWalks DEF Claims
<1>3. CASE RemoveOne
  <2>1. PICK i \in DOMAIN roster : Jump(Operator, "popat", [NoELoc EXCEPT !.i = i])
    BY <1>3 DEF RemoveOne
  <2>2. i \in Nat
    BY <1>1, InRoster
  <2> DEFINE l == [NoELoc EXCEPT !.i = i]
  <2>3. l \in ELocals /\ l.i = i /\ "popat" \in EPCs
    BY <2>2, HomeLocals DEF ELocals, EPCs
  <2> HIDE DEF l
  <2>4. OperatorFits("popat", l)
    BY <2>3 DEF OperatorFits
  <2>5. Jump(Operator, "popat", l)
    BY <2>1 DEF l
  <2> QED BY <1>1, <2>3, <2>4, <2>5, OperatorWalks DEF Claims
<1>4. CASE RemoveAll \/ Stop
  <2>1. PICK y \in {"all", "stop"} :
          Jump(Operator, "sweep", [NoELoc EXCEPT !.rest = roster, !.why = y])
    BY <1>4 DEF RemoveAll, Stop
  <2> DEFINE l == [NoELoc EXCEPT !.rest = roster, !.why = y]
  <2>2. l \in ELocals /\ l.why = y /\ ~l.once /\ "sweep" \in EPCs
    BY <1>1, HomeLocals DEF ELocals, EPCs
  <2> HIDE DEF l
  <2>3. OperatorFits("sweep", l)
    BY <2>2 DEF OperatorFits
  <2>4. Jump(Operator, "sweep", l)
    BY <2>1 DEF l
  <2> QED BY <1>1, <2>2, <2>3, <2>4, OperatorWalks DEF Claims
<1>5. CASE FinishToken
  <2>1. PICK e \in ToSet(roster) : Jump(Operator, "finish", [NoELoc EXCEPT !.e = e, !.why = "finish"])
    BY <1>5 DEF FinishToken
  <2>2. e \in Entries
    BY <1>1, InRoster
  <2> DEFINE l == [NoELoc EXCEPT !.e = e, !.why = "finish"]
  <2>3. l \in ELocals /\ l.why = "finish" /\ ~l.once /\ "finish" \in EPCs
    BY <2>2, HomeLocals DEF ELocals, EPCs
  <2> HIDE DEF l
  <2>4. OperatorFits("finish", l)
    BY <2>3 DEF OperatorFits
  <2>5. Jump(Operator, "finish", l)
    BY <2>1 DEF l
  <2> QED BY <1>1, <2>3, <2>4, <2>5, OperatorWalks DEF Claims
<1> QED BY <1>2, <1>3, <1>4, <1>5

\* Calls that change the roster while the operator is at home, and what the
\* maintenance loop does.
LEMMA ReordersFits ==
  ASSUME EntriesAssumption, IInv, Append1 \/ Swap \/ Move
  PROVE  IInv'
<1>1. /\ epc[Operator] = "home" /\ UNCHANGED <<epc, eloc, removed, retired, drainVars>>
      /\ roster \in Seq(Entries) /\ IsInjective(roster)
      /\ \A e \in ToSet(roster) : removed[e] = ""
  BY OperatorFacts DEF Append1, Swap, Move, Edit, EditOnly, IInv, OnRosterNotRemoved
<1>2. /\ roster' \in Seq(Entries) /\ IsInjective(roster')
      /\ \A e \in ToSet(roster') : removed[e] = ""
  <2>1. CASE Append1
    <3>1. PICK e \in Entries :
            e \notin ToSet(roster) /\ removed[e] = "" /\ roster' = Append(roster, e)
      BY <2>1 DEF Append1
    <3>2. /\ roster' \in Seq(Entries) /\ IsInjective(roster')
          /\ ToSet(roster') \subseteq ToSet(roster) \cup {e}
      BY <1>1, <3>1, RosterAppended
    <3> QED BY <1>1, <3>1, <3>2
  <2>2. CASE Swap
    <3>1. PICK i \in DOMAIN roster, j \in DOMAIN roster :
            i < j /\ roster' = [roster EXCEPT ![i] = roster[j], ![j] = roster[i]]
      BY <2>2 DEF Swap
    <3>2. i \in Nat /\ j \in Nat /\ i # j
      <4>1. i \in Nat /\ j \in Nat /\ i < j
        BY <1>1, <3>1, InRoster
      <4> QED BY <4>1
    <3>3. roster' \in Seq(Entries) /\ IsInjective(roster') /\ ToSet(roster') \subseteq ToSet(roster)
      BY <1>1, <3>1, <3>2, RosterSwapped
    <3> QED BY <1>1, <3>3
  <2>3. CASE Move
    <3>1. PICK i \in DOMAIN roster, j \in DOMAIN roster :
            i # j /\ roster' = InsertAt(RemoveAt(roster, i), j, roster[i])
      BY <2>3 DEF Move
    <3> DEFINE s == RemoveAt(roster, i)
    <3>2. /\ s \in Seq(Entries) /\ IsInjective(s) /\ ToSet(s) \subseteq ToSet(roster) \ {roster[i]}
      BY <1>1, RosterWithout
    <3>3. Len(s) = Len(roster) - 1 /\ Len(roster) \in Nat /\ j \in 1 .. Len(roster)
      BY <1>1, RemoveAtFacts, LenProperties
    <3>4. roster[i] \in Entries /\ roster[i] \in ToSet(roster)
      BY <1>1, InRoster
    <3> HIDE DEF s
    <3>5. j \in 1 .. Len(s) + 1 /\ roster[i] \notin ToSet(s)
      BY <3>2, <3>3
    <3>6. /\ InsertAt(s, j, roster[i]) \in Seq(Entries) /\ IsInjective(InsertAt(s, j, roster[i]))
          /\ ToSet(InsertAt(s, j, roster[i])) \subseteq ToSet(s) \cup {roster[i]}
      BY <3>2, <3>4, <3>5, RosterInserted
    <3>7. roster' = InsertAt(s, j, roster[i])
      BY <3>1 DEF s
    <3> QED BY <1>1, <3>2, <3>4, <3>6, <3>7
  <2> QED BY <2>1, <2>2, <2>3
<1> QED BY <1>1, <1>2, Stays

LEMMA MaintainerFits ==
  ASSUME EntriesAssumption, IInv, IdlePass \/ Prune \/ GrowIdle
  PROVE  IInv'
<1>1. roster \in Seq(Entries) /\ IsInjective(roster) /\ \A e \in ToSet(roster) : removed[e] = ""
  BY OperatorFacts DEF IInv, OnRosterNotRemoved
<1>2. CASE IdlePass
  <2> DEFINE l == [NoELoc EXCEPT !.rest = roster, !.why = "idle"]
  <2>1. Jump(Maintainer, "sweep", l) /\ UNCHANGED <<rosterVars, drainVars>>
    BY <1>2 DEF IdlePass
  <2>2. l \in ELocals /\ l.why = "idle" /\ ~l.once /\ "sweep" \in EPCs
    BY <1>1, HomeLocals DEF ELocals, EPCs
  <2> HIDE DEF l
  <2>3. /\ Maintainer \in Workers /\ Maintainer # Operator
        /\ Fits(Maintainer, "sweep", l) /\ LeaseFits(Maintainer, "sweep", l)
    BY <2>2, ClientIsWorker DEF Fits, Claims, LeaseFits
  <2> QED BY <2>1, <2>2, <2>3, Walks
<1>3. CASE Prune
  <2>1. PICK e \in retired : Prunable(e) /\ retired' = retired \ {e}
    BY <1>3 DEF Prune
  <2>2. ~Leased(e)
    BY <2>1 DEF Prunable, InflightOf, Leased
  <2>3. UNCHANGED <<roster, removed, drainVars, epc, eloc>>
    BY <1>3 DEF Prune
  <2> QED BY <1>1, <2>1, <2>2, <2>3, Stays
<1>4. CASE GrowIdle
  <2>1. UNCHANGED <<roster, removed, retired, drainVars, epc, eloc>>
    BY <1>4 DEF GrowIdle, rosterVars
  <2> QED BY <1>1, <2>1, Stays
<1> QED BY <1>2, <1>3, <1>4

\* The swaps of RemoveLastToken and RemoveTokenAt: the operator has the entry in
\* hand until it parks it.
LEMMA PopsFits ==
  ASSUME EntriesAssumption, IInv, Pop \/ PopAt
  PROVE  IInv'
<1>1. /\ roster \in Seq(Entries) /\ IsInjective(roster) /\ Operator \in Workers
      /\ eloc[Operator] \in ELocals /\ OperatorFits(epc[Operator], eloc[Operator])
      /\ epc[Operator] \in {"pop", "popat"} /\ UNCHANGED <<retired, drainVars>>
      /\ \A e \in ToSet(roster) : e \in Entries /\ removed[e] = ""
      /\ removed \in [Entries -> {"", "last", "at", "all", "reload"}]
  BY OperatorFacts, WorkerFacts DEF Pop, PopAt, IInv, Types
<1>2. PICK e \in ToSet(roster), l \in ELocals, y \in {"last", "at"} :
        /\ Jump(Operator, "retire", l) /\ l.e = e /\ l.why = "" /\ ~l.once
        /\ y = "last" /\ ~l.slip => ~Leased(e)
        /\ removed' = [removed EXCEPT ![e] = y]
        /\ roster' \in Seq(Entries) /\ IsInjective(roster') /\ ToSet(roster') \subseteq ToSet(roster) \ {e}
  <2>1. CASE Pop
    <3>1. PICK e : e = Last(roster)
      OBVIOUS
    <3>2. roster # <<>>
      BY <1>1, <2>1 DEF Pop, OperatorFits
    <3>3. /\ e \in ToSet(roster) /\ roster' \in Seq(Entries) /\ IsInjective(roster')
          /\ ToSet(roster') \subseteq ToSet(roster) \ {e} /\ removed' = [removed EXCEPT ![e] = "last"]
      BY <1>1, <2>1, <3>1, <3>2, RosterFront DEF Pop
    <3>4. PICK b \in BOOLEAN : b = Slip(e)
      BY DEF Slip
    <3>5. Jump(Operator, "retire", [NoELoc EXCEPT !.e = e, !.slip = b])
      BY <2>1, <3>1, <3>4 DEF Pop
    <3> DEFINE l == [NoELoc EXCEPT !.e = e, !.slip = b]
    <3>6. l \in ELocals /\ l.e = e /\ l.why = "" /\ ~l.once /\ l.slip = b
      BY <1>1, <3>3, HomeLocals DEF ELocals
    <3> HIDE DEF l
    <3>7. ~b => ~Leased(e)
      BY <3>4 DEF Slip, InflightOf, Leased
    <3>8. Jump(Operator, "retire", l)
      BY <3>5 DEF l
    <3> QED BY <3>3, <3>6, <3>7, <3>8
  <2>2. CASE PopAt
    <3>1. PICK i \in DOMAIN roster : i = eloc[Operator].i
      BY <1>1, <2>2 DEF PopAt, OperatorFits
    <3>2. PICK e \in ToSet(roster) : e = roster[i]
      BY <1>1, InRoster
    <3>3. /\ roster' \in Seq(Entries) /\ IsInjective(roster')
          /\ ToSet(roster') \subseteq ToSet(roster) \ {e} /\ removed' = [removed EXCEPT ![e] = "at"]
      BY <1>1, <2>2, <3>1, <3>2, RosterWithout DEF PopAt
    <3>4. Jump(Operator, "retire", [NoELoc EXCEPT !.e = e])
      BY <2>2, <3>1, <3>2 DEF PopAt
    <3> DEFINE l == [NoELoc EXCEPT !.e = e]
    <3>5. l \in ELocals /\ l.e = e /\ l.why = "" /\ ~l.once
      BY <1>1, HomeLocals DEF ELocals
    <3> HIDE DEF l
    <3>6. Jump(Operator, "retire", l)
      BY <3>4 DEF l
    <3> QED BY <3>3, <3>5, <3>6
  <2> QED BY <2>1, <2>2
<1>3. "retire" \in EPCs /\ ~Claims("retire", l) /\ e \in Entries /\ removed[e] = ""
  BY <1>1 DEF EPCs, Claims
<1>4. /\ removed'[e] = y /\ \A x \in Entries \ {e} : removed'[x] = removed[x]
      /\ removed' \in [Entries -> {"", "last", "at", "all", "reload"}]
  BY <1>1, <1>2, <1>3
<1>5. \A x \in ToSet(roster') : removed'[x] = ""
  BY <1>1, <1>2, <1>4
<1>6. \A x \in Entries : removed[x] # "" => removed'[x] = removed[x]
  BY <1>3, <1>4
<1>7. \A x \in Entries : TakenOff(x)' /\ removed[x] = "" => Holds("retire", l, x)
  <2> SUFFICES ASSUME NEW x \in Entries, TakenOff(x)', removed[x] = "" PROVE x = e
    BY <1>2 DEF Holds
  <2> QED BY <1>4 DEF TakenOff
<1>8. Leased(e)' <=> Leased(e)
  BY <1>2, LeasesStay
<1>9. OperatorFits("retire", l)'
  <2>1. y = "last" /\ ~l.slip => ~Leased(e)'
    BY <1>2, <1>8
  <2>2. y = "last" /\ ~l.slip => ~Leased(l.e)'
    BY <1>2, <2>1
  <2> QED BY <1>2, <1>3, <1>4, <2>2 DEF OperatorFits
<1> QED BY <1>1, <1>2, <1>3, <1>4, <1>5, <1>6, <1>7, <1>9, TakesOff

\* RemoveAllTokens clears the roster; it holds nothing and parks nothing.
LEMMA ClearFits ==
  ASSUME EntriesAssumption, IInv, Clear
  PROVE  IInv'
<1>1. /\ \A e \in ToSet(roster) : e \in Entries /\ removed[e] = ""
      /\ removed \in [Entries -> {"", "last", "at", "all", "reload"}]
      /\ Operator \in Workers /\ epc[Operator] = "clear" /\ UNCHANGED <<retired, drainVars>>
  BY OperatorFacts, WorkerFacts DEF Clear, IInv, Types
<1>2. /\ roster' = <<>> /\ Jump(Operator, "home", NoELoc)
      /\ removed' = [e \in Entries |-> IF e \in ToSet(roster) THEN "all" ELSE removed[e]]
  BY DEF Clear, Home
<1>3. roster' \in Seq(Entries) /\ IsInjective(roster') /\ \A e \in ToSet(roster') : removed'[e] = ""
  BY <1>2 DEF IsInjective, ToSet
<1>4. "home" \in EPCs /\ NoELoc \in ELocals /\ ~Claims("home", NoELoc) /\ OperatorFits("home", NoELoc)'
  BY HomeLocals DEF EPCs, Claims, OperatorFits
<1>5. /\ removed' \in [Entries -> {"", "last", "at", "all", "reload"}]
      /\ \A e \in Entries : removed[e] # "" => removed'[e] = removed[e]
      /\ \A e \in Entries : TakenOff(e)' => removed[e] # ""
  BY <1>1, <1>2 DEF TakenOff
<1> QED BY <1>1, <1>2, <1>3, <1>4, <1>5, TakesOff

\* SetConfig begins: what the new list is made of, and who goes.
LEMMA ReloadBegins ==
  ASSUME EntriesAssumption, IInv, "reorder" \notin EntryOps, Reload
  PROVE  IInv'
<1>0. PICK new \in NewLists("reload") : \E rest \in SetToSeqs(Replaced(new)) :
        Jump(Operator, "replace", [NoELoc EXCEPT !.new = new, !.rest = rest, !.why = "reload"])
  BY DEF Reload, Edit
<1>1. PICK rest \in SetToSeqs(Replaced(new)) :
        Jump(Operator, "replace", [NoELoc EXCEPT !.new = new, !.rest = rest, !.why = "reload"])
  BY <1>0
<1>2. /\ roster \in Seq(Entries) /\ IsInjective(roster) /\ epc[Operator] = "home"
      /\ UNCHANGED <<rosterVars, drainVars>>
      /\ \A i \in DOMAIN roster : roster[i] \in Entries /\ roster[i] \in ToSet(roster) /\ i \in Nat
      /\ \A e \in ToSet(roster) : e \in Entries /\ removed[e] = ""
      /\ DOMAIN roster = 1 .. Len(roster) /\ Len(roster) \in Nat
  <2>1. roster \in Seq(Entries) /\ IsInjective(roster)
    BY OperatorFacts
  <2>2. DOMAIN roster = 1 .. Len(roster) /\ Len(roster) \in Nat
    BY <2>1, LenProperties
  <2>3. epc[Operator] = "home" /\ UNCHANGED <<rosterVars, drainVars>>
    BY DEF Reload, Edit, EditOnly
  <2> QED BY <2>1, <2>2, <2>3, OperatorFacts, WorkerFacts
<1>3. PICK n \in 1 .. Cardinality(Entries) : new \in [1 .. n -> Entries]
  BY DEF NewLists
<1>4. /\ IsInjective(new) /\ InPlace(new) /\ Len(new) >= Len(roster)
      /\ \A i \in DOMAIN new : Fresh(new[i]) \/ new[i] \in ToSet(roster)
  BY DEF NewLists
<1>5. n \in Nat /\ new \in Seq(Entries) /\ DOMAIN new = 1 .. Len(new) /\ Len(new) \in Nat
  <2>1. n \in Nat
    OBVIOUS
  <2>2. new \in Seq(Entries)
    BY <1>3, <2>1
  <2> QED BY <2>1, <2>2, LenProperties
<1>6. \A i \in DOMAIN roster : i \in DOMAIN new
  <2> TAKE i \in DOMAIN roster
  <2>1. i \in 1 .. Len(roster) /\ Len(roster) \in Nat /\ Len(new) \in Nat /\ Len(new) >= Len(roster)
    BY <1>2, <1>4, <1>5
  <2> QED BY <1>5, <2>1
<1>7. Replaced(new) \subseteq ToSet(roster) /\ IsFiniteSet(Replaced(new))
  <2> DEFINE K == {k \in DOMAIN new \cap DOMAIN roster : Fresh(new[k])}
             f == [k \in K |-> roster[k]]
  <2>1. IsFiniteSet(1 .. Len(roster))
    <3>1. Len(roster) \in Nat
      BY <1>2
    <3>2. 1 \in Int /\ Len(roster) \in Int
      BY <3>1
    <3> QED BY <3>2, FS_Interval, Zenon
  <2>2. K \in SUBSET (1 .. Len(roster))
    BY <1>2
  <2>3. IsFiniteSet(K)
    BY <2>1, <2>2, FS_Subset
  <2>4. f \in Surjection(K, Replaced(new))
    BY DEF Surjection, Replaced
  <2>5. IsFiniteSet(Replaced(new))
    <3> HIDE DEF K, f
    <3> QED BY <2>3, <2>4, FS_Surjection
  <2> QED BY <1>2, <2>5 DEF Replaced
<1>8. rest \in Seq(Entries) /\ ToSet(rest) = Replaced(new)
  BY <1>2, <1>7, ListOfAll
<1>9. Replaced(new) \cap ToSet(new) = {}
  <2> SUFFICES ASSUME NEW i \in DOMAIN roster, i \in DOMAIN new, Fresh(new[i]),
                      NEW j \in DOMAIN new, roster[i] = new[j]
               PROVE  FALSE
    BY DEF Replaced, ToSet
  <2>1. j \in DOMAIN roster /\ new[j] = roster[j]
    BY <1>2, <1>4 DEF InPlace, Fresh
  <2>2. i = j
    BY <1>2, <2>1 DEF IsInjective
  <2> QED BY <1>2, <2>1, <2>2 DEF Fresh
<1>10. ToSet(roster) \ ToSet(new) \subseteq Replaced(new)
  <2> SUFFICES ASSUME NEW i \in DOMAIN roster, roster[i] \notin ToSet(new)
               PROVE  roster[i] \in Replaced(new)
    BY DEF ToSet
  <2>1. i \in DOMAIN new
    BY <1>6
  <2>2. new[i] # roster[i]
    BY <2>1 DEF ToSet
  <2>3. Fresh(new[i])
    BY <1>4, <2>1, <2>2 DEF InPlace
  <2> QED BY <2>1, <2>3 DEF Replaced
<1>11. \A e \in ToSet(new) : removed[e] = ""
  <2>1. \A i \in DOMAIN new : removed[new[i]] = ""
    BY <1>2, <1>4 DEF Fresh
  <2> QED BY <2>1 DEF ToSet
<1> DEFINE l == [NoELoc EXCEPT !.new = new, !.rest = rest, !.why = "reload"]
<1>12. /\ l \in ELocals /\ l.new = new /\ l.rest = rest /\ l.why = "reload" /\ ~l.once
       /\ "replace" \in EPCs
  BY <1>5, <1>8, HomeLocals DEF ELocals, EPCs
<1> HIDE DEF l
<1>13. ReloadFits(l)
  BY <1>4, <1>7, <1>8, <1>9, <1>10, <1>11, <1>12 DEF ReloadFits
<1>14. OperatorFits("replace", l)
  BY <1>12, <1>13 DEF OperatorFits
<1>15. Jump(Operator, "replace", l)
  BY <1>1 DEF l
<1> QED BY <1>2, <1>12, <1>14, <1>15, OperatorWalks DEF Claims

\* The swap of SetConfig: the operator has in hand everything that fell off.
LEMMA ReplaceFits ==
  ASSUME EntriesAssumption, IInv, ReplaceRoster
  PROVE  IInv'
<1>1. PICK l \in ELocals : l = eloc[Operator]
  BY OperatorFacts
<1>2. /\ epc[Operator] = "replace" /\ OperatorFits("replace", l) /\ Operator \in Workers
      /\ UNCHANGED <<retired, drainVars>> /\ Jump(Operator, "park", l)
  BY <1>1, OperatorFacts DEF ReplaceRoster, Keep
<1>3. /\ roster' = l.new
      /\ removed' = [e \in Entries |-> IF e \in ToSet(roster) \ ToSet(l.new) THEN "reload" ELSE removed[e]]
  BY <1>1 DEF ReplaceRoster
<1>4. l.why = "reload" /\ ~l.once /\ ReloadFits(l) /\ l.new \in Seq(Entries) /\ l.rest \in Seq(Entries)
  BY <1>2 DEF OperatorFits, ELocals
<1>5. /\ \A e \in ToSet(roster) : e \in Entries /\ removed[e] = ""
      /\ \A e \in ToSet(l.new) : e \in Entries /\ removed[e] = ""
      /\ removed \in [Entries -> {"", "last", "at", "all", "reload"}]
  BY <1>2, <1>4, WorkerFacts, InRoster DEF IInv, Types, ReloadFits
<1>6. /\ removed' \in [Entries -> {"", "last", "at", "all", "reload"}]
      /\ \A e \in Entries : removed[e] # "" => removed'[e] = removed[e]
      /\ \A e \in ToSet(roster') : removed'[e] = ""
  BY <1>3, <1>5
<1>7. roster' \in Seq(Entries) /\ IsInjective(roster')
  BY <1>3, <1>4 DEF ReloadFits
<1>8. \A e \in Entries : TakenOff(e)' /\ removed[e] = "" => Holds("park", l, e)
  <2> SUFFICES ASSUME NEW e \in Entries, TakenOff(e)', removed[e] = "" PROVE e \in ToSet(l.rest)
    BY DEF Holds
  <2>1. e \in ToSet(roster) \ ToSet(l.new)
    BY <1>3 DEF TakenOff
  <2> QED BY <1>4, <2>1 DEF ReloadFits
<1>9. \A e \in ToSet(l.rest) : removed'[e] = "reload"
  <2>1. \A e \in ToSet(l.rest) : e \in ToSet(roster) \ ToSet(l.new)
    BY <1>4 DEF ReloadFits
  <2> QED BY <1>3, <1>5, <2>1
<1>10. OperatorFits("park", l)' /\ "park" \in EPCs /\ ~Claims("park", l)
  BY <1>4, <1>9 DEF OperatorFits, EPCs, Claims
<1> QED BY <1>2, <1>6, <1>7, <1>8, <1>10, TakesOff

\* The operator parks what it has in hand.
LEMMA Parks ==
  ASSUME EntriesAssumption, IInv, NEW pc \in EPCs, NEW l \in ELocals, Jump(Operator, pc, l),
         UNCHANGED <<roster, removed, drainVars>>, Fits(Operator, pc, l),
         NEW S \in SUBSET Entries, retired' = retired \cup S, \A e \in S : removed[e] # "",
         \A e \in Entries : Holds(epc[Operator], eloc[Operator], e) => e \in S
  PROVE  IInv'
<1>1. /\ Operator \in Workers /\ LeaseFits(Operator, pc, l)
      /\ UNCHANGED <<roster, removed, drainer, drained>>
  BY OperatorFacts DEF LeaseFits, drainVars
<1>2. Fits(Operator, pc, l)'
  BY <1>1, FitsLater
<1>3. /\ roster' \in Seq(Entries) /\ IsInjective(roster')
      /\ removed' \in [Entries -> {"", "last", "at", "all", "reload"}]
      /\ drainer' \in [Entries -> Workers \cup {Nobody}]
  BY <1>1 DEF IInv, Types
<1>4. Types' /\ \A v \in Workers : Fits(v, epc[v], eloc[v])'
  BY <1>1, <1>2, <1>3, Moves
<1>5. \A e : Leased(e)' <=> Leased(e)
  BY LeasesStay
<1>6. OnRosterNotRemoved' /\ PresentUntouched' /\ LastKept'
  BY <1>1, <1>5 DEF IInv, OnRosterNotRemoved, PresentUntouched, LastKept
<1>7. OffParked'
  <2> SUFFICES ASSUME NEW e \in Entries, TakenOff(e)', Leased(e)'
               PROVE  e \in retired' \cup drained'
    BY DEF OffParked
  <2>1. TakenOff(e) /\ Leased(e)
    BY <1>1, <1>5 DEF TakenOff
  <2> QED BY <1>1, <2>1 DEF IInv, OffParked
<1> QED BY <1>4, <1>6, <1>7 DEF IInv

LEMMA RetireFits ==
  ASSUME EntriesAssumption, IInv, Retire
  PROVE  IInv'
<1>1. PICK l \in ELocals : l = eloc[Operator]
  BY OperatorFacts
<1>2. /\ epc[Operator] = "retire" /\ OperatorFits("retire", l) /\ Operator \in Workers
      /\ retired' = retired \cup {l.e} /\ UNCHANGED <<roster, removed, drainVars>>
      /\ IF l.slip THEN Home(Operator) ELSE Jump(Operator, "drain", l)
  BY <1>1, OperatorFacts DEF Retire, Keep
<1>3. l.e \in Entries /\ removed[l.e] # ""
  BY <1>2 DEF OperatorFits
<1>4. \A e \in Entries : Holds(epc[Operator], eloc[Operator], e) => e \in {l.e}
  BY <1>1, <1>2 DEF Holds
<1>5. CASE l.slip
  BY <1>2, <1>3, <1>4, <1>5, HomeFits, Parks DEF Home
<1>6. CASE ~l.slip
  <2>1. OperatorFits("drain", l) /\ "drain" \in EPCs /\ (removed[l.e] = "last" => ~Leased(l.e))
    BY <1>2, <1>6 DEF OperatorFits, EPCs
  <2>2. Fits(Operator, "drain", l)
    BY <1>3, <2>1, OperatorFacts DEF Fits
  <2> QED BY <1>2, <1>3, <1>4, <1>6, <2>1, <2>2, Parks
<1> QED BY <1>5, <1>6

LEMMA ParkFits ==
  ASSUME EntriesAssumption, IInv, Park
  PROVE  IInv'
<1>1. PICK l \in ELocals : l = eloc[Operator]
  BY OperatorFacts
<1>2. /\ epc[Operator] = "park" /\ OperatorFits("park", l) /\ Jump(Operator, "settle", l)
      /\ retired' = retired \cup ToSet(l.rest) /\ UNCHANGED <<roster, removed, drainVars>>
  BY <1>1, OperatorFacts DEF Park, Keep
<1>3. ToSet(l.rest) \in SUBSET Entries
  <2>1. l.rest \in Seq(Entries)
    BY DEF ELocals
  <2> QED BY <2>1, InRoster
<1>4. OperatorFits("settle", l) /\ "settle" \in EPCs /\ ~Claims("settle", l)
      /\ \A e \in ToSet(l.rest) : removed[e] # ""
  BY <1>2 DEF OperatorFits, EPCs, Claims
<1>5. Fits(Operator, "settle", l)
  BY <1>4, OperatorPlace
<1>6. \A e \in Entries : Holds(epc[Operator], eloc[Operator], e) => e \in ToSet(l.rest)
  BY <1>1, <1>2 DEF Holds
<1> QED BY <1>2, <1>3, <1>4, <1>5, <1>6, Parks

\* The idle ones of a reload are drained; none of them went as the last.
LEMMA SettleFits ==
  ASSUME EntriesAssumption, IInv, Settle
  PROVE  IInv'
<1>1. PICK l \in ELocals : l = eloc[Operator]
  BY OperatorFacts
<1>2. /\ epc[Operator] = "settle" /\ OperatorFits("settle", l) /\ Operator \in Workers
      /\ UNCHANGED <<rosterVars, drainVars>>
  BY <1>1, OperatorFacts DEF Settle
<1>3. CASE l.rest = <<>>
  BY <1>1, <1>2, <1>3, GoesHome DEF Settle
<1>4. CASE l.rest # <<>>
  <2>1. l.rest \in Seq(Entries)
    BY DEF ELocals
  <2>2. PICK h \in Entries, t \in Seq(Entries) : h = Head(l.rest) /\ t = Tail(l.rest)
    BY <1>4, <2>1, HeadTailProperties
  <2>3. h \in ToSet(l.rest) /\ ToSet(t) \subseteq ToSet(l.rest)
    BY <1>4, <2>1, <2>2, HeadTailFacts
  <2> DEFINE k == [l EXCEPT !.e = h, !.rest = t]
  <2>4. k \in ELocals /\ k.e = h /\ k.rest = t /\ k.why = l.why /\ k.once = l.once
    BY <2>2 DEF ELocals
  <2>5. PICK pc \in {"drain", "settle"} : Jump(Operator, pc, k)
    BY <1>1, <1>4, <2>2 DEF Settle
  <2> HIDE DEF k
  <2>6. k.why = "reload" /\ ~k.once /\ removed[h] = "reload" /\ \A e \in ToSet(t) : removed[e] = "reload"
    BY <1>2, <2>3, <2>4 DEF OperatorFits
  <2>7. OperatorFits(pc, k) /\ pc \in EPCs
    BY <2>4, <2>5, <2>6 DEF OperatorFits, EPCs
  <2>8. Fits(Operator, pc, k) /\ LeaseFits(Operator, pc, k)
    BY <2>4, <2>6, <2>7, OperatorFacts DEF Fits, LeaseFits
  <2> QED BY <1>2, <2>4, <2>5, <2>7, <2>8, Walks
<1> QED BY <1>3, <1>4

-----------------------------------------------------------------------------
(* What slips in under a removal is served to its end.                     *)

LEMMA NextFits ==
  ASSUME EntriesAssumption, "reorder" \notin EntryOps, IInv, [ENext]_evars
  PROVE  IInv'
<1>1. CASE \E c \in Clients : Ask(c) \/ ClientStep(c)
  BY <1>1, ClientFits, DrainFits, ClientIsWorker DEF ClientStep
<1>2. CASE OperatorCall
  BY <1>2, ReordersFits, BeginsFits, ReloadBegins DEF OperatorCall
<1>3. CASE OperatorStep
  BY <1>3, PopsFits, RetireFits, ClearFits, ReplaceFits, ParkFits, SettleFits, DrainFits,
     ClientIsWorker DEF OperatorStep
<1>4. CASE MaintainerStep
  BY <1>4, MaintainerFits, DrainFits, ClientIsWorker DEF MaintainerStep
<1>5. CASE UNCHANGED evars
  <2>1. UNCHANGED <<roster, removed, retired, drainVars, epc, eloc>>
    BY <1>5 DEF evars, rosterVars
  <2>2. roster \in Seq(Entries) /\ IsInjective(roster) /\ \A e \in ToSet(roster) : removed[e] = ""
    BY OperatorFacts DEF IInv, OnRosterNotRemoved
  <2> QED BY <2>1, <2>2, Stays
<1> QED BY <1>1, <1>2, <1>3, <1>4, <1>5 DEF ENext

LEMMA ServedFollows ==
  ASSUME EntriesAssumption, IInv
  PROVE  SlippedServed
<1>1. \A e \in LeasedEntries : e \in Entries /\ Leased(e)
  <2> SUFFICES ASSUME NEW c \in Clients, epc[c] = "leased" PROVE eloc[c].e \in Entries /\ Leased(eloc[c].e)
    BY DEF LeasedEntries
  <2> QED BY WorkerFacts, ClientIsWorker DEF Fits, Leased
<1>2. SlippedKeepsSession
  BY <1>1 DEF IInv, LastKept, SlippedKeepsSession
<1>3. \A e \in Entries : Holds(epc[Operator], eloc[Operator], e) => e \in AtHand
  BY DEF Holds, AtHand
<1>4. SlippedIsParked
  BY <1>1, <1>3 DEF IInv, OffParked, TakenOff, SlippedIsParked
<1> QED BY <1>2, <1>4 DEF SlippedServed

\* What the pool promises a request that got its lease while the token was being
\* removed: RemoveLastToken's second look keeps the runs and the session open, and
\* the entry stays where the release finds it.  For a dashboard that does not
\* reorder the tokens by the list it saves.
THEOREM SlippedIsServed ==
  ASSUME EntriesAssumption, "reorder" \notin EntryOps
  PROVE  ESpec => []SlippedServed
<1>1. EInit => IInv
  BY InitFits
<1>2. IInv /\ [ENext]_evars => IInv'
  BY NextFits
<1>3. IInv => SlippedServed
  BY ServedFollows
<1> QED BY <1>1, <1>2, <1>3, PTL DEF ESpec

=============================================================================
