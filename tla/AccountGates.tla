----------------------------- MODULE AccountGates -----------------------------
(***************************************************************************)
(* What the pool remembers of an account's refusals, and who may forget it: *)
(* the bans, country blocks and per-model limits in the run manager, the   *)
(* quarantine marker on the entry, the hint in memory and its row in the   *)
(* store.  Walks and chats write them when upstream refuses, a probe and a *)
(* success clear them, the operator unlocks, time lets them run out, a     *)
(* restart keeps the rows only.                                            *)
(*                                                                         *)
(* Every item has a lock or an atomic of its own, so writing one refusal   *)
(* down takes several steps.  A deadline is an instant; 0 is none.         *)
(***************************************************************************)
EXTENDS Naturals, Sequences, FiniteSets, SequencesExt

CONSTANTS
  Walkers,     \* goroutines that acquire and chat
  GProber, GOperator, GKeeper,   \* ProbeTokenDetailed, the dashboard, the maintain loop
  Accounts, GModels, ga1, ga2,   \* ga1, ga2: the accounts in roster order
  MaxTime,     \* bound: instants
  MaxRefusals, \* bound: refusals upstream gives
  MaxActs,     \* bound: walks, probes, unlocks, swaps, flushes and restarts
  GateOps      \* "walk", "chat", "limit", "country", "probe", "unlock", "swap", "flush", "restart"

VARIABLES
  now,
  list,     \* the roster
  ban, cool, country, limit,   \* RunManager: ban, cooldownUntil, countryUntil, modelLimits
  mark,     \* tokenEntry.quarantine: its liftAt
  hint,     \* Pool.cooldownHints
  row,      \* pool/cooldown/* in the store
  told,     \* history: the deadlines upstream gave, per account and kind
  acts, gpc, gloc

\* The gates and their clock make sense; the other accounts and models are any.
GatesAssumption == MaxTime \in Nat /\ {ga1, ga2} \subseteq Accounts /\ GModels # {}

memory == <<ban, cool, country, limit>>
hints == <<hint, row>>
history == <<told, acts>>
gvars == <<now, list, memory, mark, hints, history, gpc, gloc>>

GWorkers == Walkers \cup {GProber, GOperator, GKeeper}
Forever == MaxTime + 2
Window == 1
Times == 0 .. Forever
Kinds == {"ban", "country"} \cup GModels
GPCs == {"home", "visit", "gates", "call", "leased", "judge", "mark", "hint", "put", "save",
         "unmark", "wipe", "unrow", "probe", "meter", "flush"}
\* The entry at hand and its index, the model, the lanes left, whether hints
\* count, the deadline to write, where to go on, and what a flush has staged.
NoGLoc == [e |-> ga1, i |-> 1, m |-> CHOOSE m \in GModels : TRUE, rest |-> <<>>, skip |-> FALSE,
           met |-> "", until |-> 0, ret |-> "home", staged |-> [a \in Accounts |-> 0]]

GInit ==
  /\ now = 0 /\ list = <<ga1, ga2>>
  /\ ban = [a \in Accounts |-> 0] /\ cool = ban /\ country = ban /\ mark = ban /\ hint = ban /\ row = ban
  /\ limit = [a \in Accounts |-> [m \in GModels |-> 0]]
  /\ told = [a \in Accounts |-> {}] /\ acts = 0
  /\ gpc = [w \in GWorkers |-> "home"] /\ gloc = [w \in GWorkers |-> NoGLoc]

-----------------------------------------------------------------------------
Live(t) == now < t
BanLive(a) == Live(ban[a])
Refusals == Cardinality(UNION {{a} \X told[a] : a \in Accounts})
Go(w, pc, l) == gpc' = [gpc EXCEPT ![w] = pc] /\ gloc' = [gloc EXCEPT ![w] = l]
On(w, pc) == Go(w, pc, gloc[w])
Act(op) == op \in GateOps /\ acts < MaxActs /\ acts' = acts + 1
Tell(a, kind, t) == Refusals < MaxRefusals /\ told' = [told EXCEPT ![a] = @ \cup {<<kind, t>>}]

\* RunManager's memory.  A ban without an end is live for ever but leaves no
\* cooldown; one that is already over leaves nothing; any ban drops the rest.
CooldownBan(a, t) ==
  LET u == IF Live(t) THEN t ELSE 0 IN
  /\ ban' = [ban EXCEPT ![a] = u] /\ cool' = [cool EXCEPT ![a] = IF u = Forever THEN 0 ELSE u]
  /\ country' = [country EXCEPT ![a] = 0] /\ UNCHANGED limit
CountryBlocked(a) ==
  IF BanLive(a) THEN UNCHANGED memory
  ELSE /\ country' = [country EXCEPT ![a] = now + Window] /\ cool' = [cool EXCEPT ![a] = now + Window]
       /\ ban' = [ban EXCEPT ![a] = 0] /\ UNCHANGED limit
Cooldown(a, t) ==
  /\ cool' = [cool EXCEPT ![a] = t] /\ ban' = [ban EXCEPT ![a] = 0]
  /\ country' = [country EXCEPT ![a] = 0] /\ UNCHANGED limit
ClearCooldowns(a) ==
  /\ ban' = [ban EXCEPT ![a] = 0] /\ cool' = [cool EXCEPT ![a] = 0]
  /\ country' = [country EXCEPT ![a] = 0] /\ limit' = [limit EXCEPT ![a] = [m \in GModels |-> 0]]

-----------------------------------------------------------------------------
(* A walk.                                                                 *)

MarkLifted(a) == mark[a] # 0 /\ ~Live(mark[a])
Fresh(a) == Live(hint[a])
SpillOrder ==
  LET open == SelectSeq(list, LAMBDA a : ~Live(mark[a])) IN IF open = <<>> THEN list ELSE open
HintSkippable(order) == \E a \in ToSet(order) : ~Fresh(a)

\* clearLiftedQuarantine: of spillOrder, and of every maintain tick.
Lift(w) ==
  /\ gpc[w] = "home"
  /\ \E a \in ToSet(list) :
       /\ MarkLifted(a) /\ mark' = [mark EXCEPT ![a] = 0] /\ Go(w, "wipe", [NoGLoc EXCEPT !.e = a])
  /\ UNCHANGED <<now, list, memory, hints, history>>
Arrive(w) ==
  /\ gpc[w] = "home" /\ Act("walk") /\ \A a \in ToSet(list) : ~MarkLifted(a)
  /\ \E m \in GModels :
       Go(w, "visit", [NoGLoc EXCEPT !.rest = SpillOrder, !.m = m, !.skip = HintSkippable(SpillOrder), !.met = "hint"])
  /\ UNCHANGED <<now, list, memory, mark, hints, told>>
\* walkGates: the hint, the marker, which goes when it has lifted ...
Visit(w) ==
  LET l == gloc[w] a == Head(l.rest) n == [l EXCEPT !.e = a, !.rest = Tail(@)] IN
  /\ gpc[w] = "visit"
  /\ IF l.rest = <<>> THEN Go(w, "home", NoGLoc) /\ UNCHANGED mark
     ELSE IF l.skip /\ Fresh(a) THEN Go(w, "visit", n) /\ UNCHANGED mark
     ELSE IF Live(mark[a]) THEN Go(w, "visit", [n EXCEPT !.met = "gate"]) /\ UNCHANGED mark
     ELSE IF MarkLifted(a)
     THEN mark' = [mark EXCEPT ![a] = 0] /\ Go(w, "wipe", [n EXCEPT !.ret = "gates"])
     ELSE Go(w, "gates", n) /\ UNCHANGED mark
  /\ UNCHANGED <<now, list, memory, hints, history>>
\* ... the account's cooldown or ban, and what the model was refused.
Gates(w) ==
  LET l == gloc[w] IN
  /\ gpc[w] = "gates"
  /\ IF Live(cool[l.e]) \/ BanLive(l.e) \/ Live(limit[l.e][l.m])
     THEN Go(w, "visit", [l EXCEPT !.met = "gate"]) ELSE Go(w, "call", [l EXCEPT !.met = "gate"])
  /\ UNCHANGED <<now, list, memory, mark, hints, history>>
\* EnsureSessionForModel and runs.Acquire: the answer is classified and written
\* down.
Admitted(w) ==
  /\ gpc[w] = "call" /\ ClearCooldowns(gloc[w].e)
  /\ Go(w, "wipe", [gloc[w] EXCEPT !.ret = "leased"])
  /\ UNCHANGED <<now, list, mark, hints, history>>
Banned(w) ==
  /\ gpc[w] = "call"
  /\ \E t \in (0 .. MaxTime) \cup {Forever} :
       /\ Tell(gloc[w].e, "ban", t) /\ CooldownBan(gloc[w].e, t)
       /\ Go(w, "judge", [gloc[w] EXCEPT !.until = t, !.ret = "visit"])
  /\ UNCHANGED <<now, list, mark, hints, acts>>
CountryRefused(w) ==
  /\ gpc[w] = "call" /\ "country" \in GateOps
  /\ Tell(gloc[w].e, "country", now + Window)
  /\ Go(w, "put", [gloc[w] EXCEPT !.until = now + Window, !.ret = "home"])
  /\ UNCHANGED <<now, list, memory, mark, hints, acts>>
Limited(w) ==
  LET l == gloc[w] IN
  /\ gpc[w] = "call" /\ "limit" \in GateOps
  /\ \E t \in 0 .. MaxTime :
       /\ Tell(l.e, l.m, t)
       /\ limit' = IF Live(t) THEN [limit EXCEPT ![l.e][l.m] = t] ELSE limit
  /\ On(w, "visit")
  /\ UNCHANGED <<now, list, ban, cool, country, mark, hints, acts>>
OtherwiseRefused(w) ==
  /\ gpc[w] = "call" /\ On(w, "visit")
  /\ UNCHANGED <<now, list, memory, mark, hints, history>>
\* The chat of a lease.
ChatEnds(w) ==
  /\ gpc[w] = "leased" /\ Go(w, "home", NoGLoc)
  /\ UNCHANGED <<now, list, memory, mark, hints, history>>
ChatBanned(w) ==
  /\ gpc[w] = "leased" /\ "chat" \in GateOps
  /\ \E t \in (0 .. MaxTime) \cup {Forever} :
       /\ Tell(gloc[w].e, "ban", t) /\ CooldownBan(gloc[w].e, t)
       /\ Go(w, "judge", [gloc[w] EXCEPT !.until = t, !.ret = "home"])
  /\ UNCHANGED <<now, list, mark, hints, acts>>

-----------------------------------------------------------------------------
(* Writing a ban down and wiping it out.                                   *)

Leave(w) == IF gloc[w].ret = "home" THEN Go(w, "home", NoGLoc) ELSE On(w, gloc[w].ret)
\* Quarantined only while the ban is still live ...
Judge(w) ==
  /\ gpc[w] = "judge" /\ On(w, IF BanLive(gloc[w].e) THEN "mark" ELSE "hint")
  /\ UNCHANGED <<now, list, memory, mark, hints, history>>
\* ... once, until the ban lifts if its end is still to come.
LiftAt(t) == IF Live(t) THEN t ELSE Forever
Quarantine(w) ==
  LET l == gloc[w] IN
  /\ gpc[w] = "mark"
  /\ mark' = IF mark[l.e] = 0 THEN [mark EXCEPT ![l.e] = LiftAt(l.until)] ELSE mark
  /\ On(w, "hint")
  /\ UNCHANGED <<now, list, memory, hints, history>>
\* storeBanHint mirrors the ban that is remembered now.
HintForever(a) == Forever
HintUntil(a) == ban[a]
BanHint(w) ==
  LET a == gloc[w].e IN
  /\ gpc[w] = "hint"
  /\ IF BanLive(a) THEN Go(w, "put", [gloc[w] EXCEPT !.until = HintUntil(a)]) ELSE On(w, "wipe")
  /\ UNCHANGED <<now, list, memory, mark, hints, history>>
PutHint(w) ==
  /\ gpc[w] = "put"
  /\ hint' = [hint EXCEPT ![gloc[w].e] = gloc[w].until] /\ On(w, "save")
  /\ UNCHANGED <<now, list, memory, mark, row, history>>
SaveHint(w) ==
  /\ gpc[w] = "save"
  /\ row' = [row EXCEPT ![gloc[w].e] = gloc[w].until] /\ Leave(w)
  /\ UNCHANGED <<now, list, memory, mark, hint, history>>
\* clearCooldownHint goes to the store only if memory had one.
WipeHint(w) ==
  LET a == gloc[w].e IN
  /\ gpc[w] = "wipe"
  /\ hint' = [hint EXCEPT ![a] = 0]
  /\ IF hint[a] # 0 THEN On(w, "unrow") ELSE Leave(w)
  /\ UNCHANGED <<now, list, memory, mark, row, history>>
WipeRow(w) ==
  /\ gpc[w] = "unrow"
  /\ row' = [row EXCEPT ![gloc[w].e] = 0] /\ Leave(w)
  /\ UNCHANGED <<now, list, memory, mark, hint, history>>

-----------------------------------------------------------------------------
(* The probe: the entry is looked up before the call, and once more by its *)
(* index when the answer is a refusal.                                     *)

Probe ==
  /\ gpc[GProber] = "home" /\ Act("probe")
  /\ \E i \in DOMAIN list : Go(GProber, "probe", [NoGLoc EXCEPT !.i = i, !.e = list[i]])
  /\ UNCHANGED <<now, list, memory, mark, hints, told>>
ProbeBanned ==
  LET l == gloc[GProber] a == list[l.i] IN
  /\ gpc[GProber] = "probe"
  /\ \E t \in (0 .. MaxTime) \cup {Forever} :
       /\ Tell(l.e, "ban", t) /\ CooldownBan(a, t)
       /\ Go(GProber, "judge", [l EXCEPT !.e = a, !.until = t])
  /\ UNCHANGED <<now, list, mark, hints, acts>>
ProbeCountry ==
  LET l == gloc[GProber] a == list[l.i] IN
  /\ gpc[GProber] = "probe" /\ "country" \in GateOps
  /\ Tell(l.e, "country", now + Window) /\ CountryBlocked(a)
  /\ IF cool'[a] = 0 THEN Go(GProber, "home", NoGLoc)
     ELSE Go(GProber, "put", [l EXCEPT !.e = a, !.until = cool'[a]])
  /\ UNCHANGED <<now, list, mark, hints, acts>>
ProbeRefused ==
  /\ gpc[GProber] = "probe" /\ Go(GProber, "home", NoGLoc)
  /\ UNCHANGED <<now, list, memory, mark, hints, history>>
\* Healthy: a quarantine goes, with everything remembered.
ProbeHealthy ==
  LET l == gloc[GProber] IN
  /\ gpc[GProber] = "probe"
  /\ IF mark[l.e] = 0 THEN On(GProber, "meter") /\ UNCHANGED mark
     ELSE mark' = [mark EXCEPT ![l.e] = 0] /\ Go(GProber, "unmark", [l EXCEPT !.ret = "meter"])
  /\ UNCHANGED <<now, list, memory, hints, history>>
ProbeClears ==
  /\ gpc[GProber] = "unmark" /\ ClearCooldowns(gloc[GProber].e) /\ On(GProber, "wipe")
  /\ UNCHANGED <<now, list, mark, hints, history>>
\* An empty meter cools the entry down until its refill.
Exhausted ==
  /\ gpc[GProber] = "meter" /\ Cooldown(list[gloc[GProber].i], now + Window) /\ Go(GProber, "home", NoGLoc)
  /\ UNCHANGED <<now, list, mark, hints, history>>
Metered ==
  LET l == gloc[GProber] IN
  /\ gpc[GProber] = "meter"
  /\ IF BanLive(l.e) THEN Go(GProber, "home", NoGLoc) ELSE Go(GProber, "wipe", [l EXCEPT !.ret = "home"])
  /\ UNCHANGED <<now, list, memory, mark, hints, history>>

-----------------------------------------------------------------------------
(* The operator, the maintain loop, time and restarts.                     *)

Unlock ==
  /\ gpc[GOperator] = "home" /\ Act("unlock")
  /\ \E a \in ToSet(list) : ClearCooldowns(a) /\ Go(GOperator, "unmark", [NoGLoc EXCEPT !.e = a])
  /\ UNCHANGED <<now, list, mark, hints, told>>
UnlockMark ==
  /\ gpc[GOperator] = "unmark" /\ mark' = [mark EXCEPT ![gloc[GOperator].e] = 0] /\ On(GOperator, "wipe")
  /\ UNCHANGED <<now, list, memory, hints, history>>
SwapTokens ==
  /\ gpc[GOperator] = "home" /\ Act("swap") /\ list' = Reverse(list)
  /\ UNCHANGED <<now, memory, mark, hints, told, gpc, gloc>>
\* FlushPoolPersist: the live hints are staged, then saved; other rows go.
Stage ==
  /\ gpc[GKeeper] = "home" /\ Act("flush")
  /\ hint' = [a \in Accounts |-> IF Fresh(a) THEN hint[a] ELSE 0]
  /\ Go(GKeeper, "flush", [NoGLoc EXCEPT !.staged = hint'])
  /\ UNCHANGED <<now, list, memory, mark, row, told>>
Flush ==
  /\ gpc[GKeeper] = "flush" /\ row' = gloc[GKeeper].staged /\ Go(GKeeper, "home", NoGLoc)
  /\ UNCHANGED <<now, list, memory, mark, hint, history>>
\* restoreCooldownHints drops what has run out.
Restart ==
  /\ Act("restart")
  /\ ban' = [a \in Accounts |-> 0] /\ cool' = ban' /\ country' = ban' /\ mark' = ban'
  /\ limit' = [a \in Accounts |-> [m \in GModels |-> 0]]
  /\ row' = [a \in Accounts |-> IF Live(row[a]) THEN row[a] ELSE 0] /\ hint' = row'
  /\ gpc' = [w \in GWorkers |-> "home"] /\ gloc' = [w \in GWorkers |-> NoGLoc]
  /\ UNCHANGED <<now, list, told>>
Tick == now < MaxTime /\ now' = now + 1
        /\ UNCHANGED <<list, memory, mark, hints, history, gpc, gloc>>

WalkStep(w) ==
  \/ Arrive(w) \/ Lift(w) \/ Visit(w) \/ Gates(w) \/ Admitted(w) \/ Banned(w) \/ CountryRefused(w) \/ Limited(w)
  \/ OtherwiseRefused(w) \/ ChatEnds(w) \/ ChatBanned(w)
WriteStep(w) ==
  Judge(w) \/ Quarantine(w) \/ BanHint(w) \/ PutHint(w) \/ SaveHint(w) \/ WipeHint(w) \/ WipeRow(w)
ProbeStep ==
  Probe \/ ProbeBanned \/ ProbeCountry \/ ProbeRefused \/ ProbeHealthy \/ ProbeClears \/ Exhausted \/ Metered
GNext ==
  \/ \E w \in Walkers : WalkStep(w)
  \/ \E w \in GWorkers : WriteStep(w)
  \/ ProbeStep \/ Unlock \/ UnlockMark \/ Lift(GKeeper) \/ Stage \/ Flush \/ Restart \/ Tick
GSpec == GInit /\ [][GNext]_gvars
\* With an operator who reorders the tokens meanwhile.
GSwapSpec == GInit /\ [][GNext \/ SwapTokens]_gvars

-----------------------------------------------------------------------------
GTypeOK ==
  /\ now \in 0 .. MaxTime /\ list \in Seq(Accounts)
  /\ \A f \in {ban, cool, country, mark, hint, row} : f \in [Accounts -> Times]
  /\ limit \in [Accounts -> [GModels -> Times]]
  /\ told \in [Accounts -> SUBSET (Kinds \X Times)] /\ acts \in 0 .. MaxActs
  /\ gpc \in [GWorkers -> GPCs]

Deadlines(a, kinds) == {t \in Times : \E k \in kinds : <<k, t>> \in told[a]}
\* What closes an account is what upstream said about that account, and for no
\* longer: through races, restarts and flushes.  (The marker: a ban of it.)
RefusalsHonest ==
  \A a \in Accounts :
    /\ ban[a] # 0 => ban[a] \in Deadlines(a, {"ban"})
    /\ \A m \in GModels : limit[a][m] # 0 => limit[a][m] \in Deadlines(a, {m})
    /\ \A t \in {hint[a], row[a]} \ {0} : t \in Deadlines(a, {"ban", "country"})

\* A quarantine or a ban is remembered of an account that upstream banned.
MarkedWasRefused ==
  \A a \in Accounts : mark[a] # 0 \/ ban[a] # 0 => Deadlines(a, {"ban"}) # {}

\* A walk that called nobody met more than hints.
HintNeverAlone ==
  [][\A w \in Walkers : gpc[w] = "visit" /\ gpc'[w] = "home" => gloc[w].met # "hint" \/ acts' # acts]_gvars
\* A quarantine ends with the ban it stands for.
TemporaryBanLifts ==
  \A a \in Accounts : mark[a] # 0 => mark[a] \in Deadlines(a, {"ban"})
=============================================================================
