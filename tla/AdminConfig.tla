------------------------------ MODULE AdminConfig ------------------------------
(***************************************************************************)
(* The configuration and who changes it: the process environment, the rows *)
(* of the settings store, the .env file and the defaults are layers of one *)
(* configuration (config/config_load.go, settings_overlay.go); the admin   *)
(* handlers (server/admin_*.go) write the .env file and the rows together, *)
(* load, verify, and hand the result to the pool; a boot imports the       *)
(* configuration into the rows once (cli/cli_env_migrate.go).              *)
(*                                                                         *)
(* Every value is a sequence: a list of tokens, or the one value of a      *)
(* scalar; << >> is an empty value and Unset an absent one.                *)
(***************************************************************************)
EXTENDS Naturals, Sequences, FiniteSets, SequencesExt

CONSTANTS
  Admins, Wizard,  \* dashboard requests, and a login that completed
  Orders,          \* Orders[p]: what admin p may ask for
  WizardToken,     \* the token the login brings
  ProcessEnv, EnvFiles, SavedRows,   \* the layers there may be at the start
  MaxOrders, MaxFaults, MaxBoots

VARIABLES
  env,      \* the process environment
  file,     \* the .env file
  rows,     \* the settings rows
  cfg,      \* the running configuration
  served,   \* the pool's tokens, in order
  saver,    \* who holds adminSaveMu
  job,      \* each process's request
  scars,    \* history: what has gone wrong since the boot
  count     \* orders, faults and boots so far

configVars == <<env, file, rows, cfg, served, saver, job, scars, count>>

Unset == <<"unset">>
Keys == {"AUTH_TOKENS", "BRIDGE_ENABLED", "ADMIN_TOKEN", "DASHBOARD_REQUIRE_LOGIN", "KNOB"}
RowKeys == Keys \cup {"tokens_configured", "migrated"}
Defaults == [k \in Keys |-> CASE k \in {"BRIDGE_ENABLED", "DASHBOARD_REQUIRE_LOGIN"} -> <<"on">>
                              [] k = "KNOB" -> <<"good">> [] OTHER -> << >>]
People == Admins \cup {Wizard}
Nobody == "nobody"

-----------------------------------------------------------------------------
(* Loading.  The first layer that says something wins; an empty value says *)
(* something of AUTH_TOKENS only.                                          *)
Says(layer, k) == layer[k] # Unset /\ (k = "AUTH_TOKENS" \/ layer[k] # << >>)
\* OverlayFromRows leaves a row out that would not validate.
Overlay(r) == [k \in Keys |-> IF r[k] = <<"bad">> THEN Unset ELSE r[k]]
RawConfig(f, r) ==
  [k \in Keys |-> IF Says(env, k) THEN env[k] ELSE IF Says(Overlay(r), k) THEN r[k]
                  ELSE IF Says(f, k) THEN f[k] ELSE Defaults[k]]
Loads(f, r) == RawConfig(f, r)["KNOB"] # <<"bad">>
Dedupe(s) == FoldLeft(LAMBDA acc, t : IF t \in ToSet(acc) THEN acc ELSE Append(acc, t), << >>, s)
LoadConfig(f, r) ==
  LET raw == RawConfig(f, r)
      open == raw["DASHBOARD_REQUIRE_LOGIN"] = <<"off">> \/ raw["ADMIN_TOKEN"] = <<"none">>
  IN [raw EXCEPT !["AUTH_TOKENS"] = Dedupe(@),
                 !["DASHBOARD_REQUIRE_LOGIN"] = IF open THEN <<"off">> ELSE @,
                 !["ADMIN_TOKEN"] = IF open THEN << >> ELSE IF @ = << >> THEN <<"123456">> ELSE @]
NoRows == [k \in RowKeys |-> Unset]

Tokens(c) == c["AUTH_TOKENS"]
BridgeMode(c) == Tokens(c) = << >>
HybridBridgeMode(c) == ~BridgeMode(c) /\ c["BRIDGE_ENABLED"] = <<"on">>

\* migrateEnvToDB: the rows, the first n keys of the catalog imported.
Catalog == <<"AUTH_TOKENS", "ADMIN_TOKEN", "DASHBOARD_REQUIRE_LOGIN", "BRIDGE_ENABLED", "KNOB", "migrated">>
Imported(r, c, n) ==
  IF r["migrated"] # Unset THEN r
  ELSE [k \in RowKeys |-> IF k \in ToSet(SubSeq(Catalog, 1, n))
                          THEN IF k = "migrated" THEN <<"on">> ELSE c[k]
                          ELSE r[k]]

-----------------------------------------------------------------------------
(* The pool's side.                                                        *)
\* SetConfig: the roster follows the list when the list brings a token the
\* roster has not; a shorter or reordered list changes nothing.
Reconciled(pool, list) == IF ToSet(list) \subseteq ToSet(pool) THEN pool ELSE list
Swapped(s, i, j) == [s EXCEPT ![i] = s[j], ![j] = s[i]]
Moved(s, i, j) == InsertAt(RemoveAt(s, i), j, s[i])

IsTokenOrder(o) == o.what \in {"add", "login", "remove", "swap", "move"}
\* The index of a removal; none asks for the last.
At(o, s) == IF o.at = 0 THEN Len(s) ELSE o.at
Applicable(o, s) ==
  CASE o.what = "remove" -> s # << >> /\ o.at <= Len(s)
    [] o.what \in {"swap", "move"} -> o.from <= Len(s) /\ o.dest <= Len(s)
    [] OTHER -> TRUE
\* The pool after the order, the list to save, and the pool after the rollback.
Mutated(o, s) ==
  CASE o.what \in {"add", "login"} -> Append(s, o.token)
    [] o.what = "remove" -> RemoveAt(s, At(o, s))
    [] o.what = "swap" -> Swapped(s, o.from, o.dest)
    [] o.what = "move" -> Moved(s, o.from, o.dest)
Listed(o, list) ==
  IF o.what \in {"add", "login"} /\ o.token \in ToSet(list) THEN list ELSE Mutated(o, list)
Undone(o, s, list) ==
  CASE o.what = "add" -> Front(s)
    [] o.what = "remove" -> Append(s, list[At(o, list)])
    [] o.what = "swap" -> Swapped(s, o.from, o.dest)
    [] o.what = "move" -> Moved(s, o.dest, o.from)
    [] OTHER -> s

-----------------------------------------------------------------------------
(* Plans: what an order writes to the .env file and to the rows.           *)
\* tokenMarkerDelta
TokenPlan(list) ==
  [set |-> [k \in {"AUTH_TOKENS", "tokens_configured"} \ (IF list = << >> THEN {"tokens_configured"} ELSE {}) |->
             IF k = "AUTH_TOKENS" THEN list ELSE <<"on">>],
   del |-> IF list = << >> THEN {"tokens_configured"} ELSE {}]
With(plan, k, v) == [plan EXCEPT !.set = [x \in DOMAIN @ \cup {k} |-> IF x = k THEN v ELSE @[x]]]
NoPlan == [set |-> [k \in {} |-> Unset], del |-> {}]
PlanOf(o, c) ==
  CASE IsTokenOrder(o) -> TokenPlan(Listed(o, Tokens(c)))
    [] o.what = "mode" /\ o.mode = "bridge" -> TokenPlan(<< >>)
    [] o.what = "mode" -> With(TokenPlan(Tokens(c)), "BRIDGE_ENABLED", IF o.mode = "hybrid" THEN <<"on">> ELSE <<"off">>)
    [] o.what = "password" -> With(With(NoPlan, "ADMIN_TOKEN", o.value), "DASHBOARD_REQUIRE_LOGIN", <<"on">>)
    [] o.what = "require" -> With(NoPlan, "DASHBOARD_REQUIRE_LOGIN", o.value)
    [] OTHER -> NoPlan
\* What dualWrite's caller makes sure of.
Verified(o, plan, new) ==
  CASE IsTokenOrder(o) -> Tokens(new) = plan.set["AUTH_TOKENS"]
    [] o.what = "mode" -> (CASE o.mode = "bridge" -> BridgeMode(new) [] o.mode = "hybrid" -> HybridBridgeMode(new)
                             [] OTHER -> ~HybridBridgeMode(new))
    [] o.what = "password" -> new["ADMIN_TOKEN"] = o.value
    [] o.what = "require" -> new["DASHBOARD_REQUIRE_LOGIN"] = o.value

Idle == [pc |-> "idle", order |-> [what |-> "none"], seen |-> Defaults, plan |-> NoPlan,
         file |-> [k \in Keys |-> Unset], rows |-> NoRows, todo |-> {}, next |-> Defaults]
ConfigInit ==
  /\ env \in ProcessEnv /\ file \in EnvFiles /\ rows \in SavedRows
  /\ Loads(file, rows)
  /\ cfg = LoadConfig(file, rows) /\ served = Tokens(cfg)
  /\ saver = Nobody /\ job = [p \in People |-> Idle] /\ scars = {}
  /\ count = [orders |-> 0, faults |-> 0, boots |-> 0]

Busy(p) == job[p].pc \notin {"idle", "asked"}
Pc(p, pc) == job' = [job EXCEPT ![p].pc = pc]
Fault == count.faults < MaxFaults /\ count' = [count EXCEPT !.faults = @ + 1]
LeaveUnlocks(p) == job' = [job EXCEPT ![p] = Idle] /\ saver' = Nobody
Leave(p) == job' = [job EXCEPT ![p] = Idle] /\ saver' = IF saver = p THEN Nobody ELSE saver
Refuse(p) == Leave(p) /\ UNCHANGED <<env, file, rows, cfg, served, scars, count>>

-----------------------------------------------------------------------------
(* An order arrives.  The mode switch reads the configuration and turns a  *)
(* request down before it takes adminSaveMu, everybody else after.         *)
ModeChanges(mode) ==
  CASE mode = "bridge" -> ~BridgeMode(cfg)
    [] mode = "pooled" -> HybridBridgeMode(cfg)
    [] mode = "hybrid" -> ~BridgeMode(cfg) /\ ~HybridBridgeMode(cfg)
Ask(p) ==
  /\ p \in Admins /\ job[p].pc = "idle" /\ count.orders < MaxOrders
  /\ \E o \in Orders[p] :
       /\ o.what = "mode" => ModeChanges(o.mode)
       /\ job' = [job EXCEPT ![p].pc = "asked", ![p].order = o, ![p].seen = cfg]
  /\ count' = [count EXCEPT !.orders = @ + 1]
  /\ UNCHANGED <<env, file, rows, cfg, served, saver, scars>>

\* adminSaveMu taken, the roster changed, the plan drawn up.
Begin(p) ==
  LET o == job[p].order
      seen == IF o.what = "mode" THEN job[p].seen ELSE cfg
  IN /\ job[p].pc = "asked" /\ saver = Nobody
     /\ o.what \in {"add", "remove", "swap", "move", "mode", "password", "require"}
     /\ LET stuck == IsTokenOrder(o) /\ (Len(Tokens(cfg)) # Len(served) \/ ~Applicable(o, Tokens(cfg)))
        IN
        \/ (stuck \/ o.what = "add") /\ Refuse(p)   \* a probe may turn the token down
        \/ /\ ~stuck
           /\ saver' = p
           /\ served' = IF IsTokenOrder(o) THEN Mutated(o, served) ELSE served
           /\ job' = [job EXCEPT ![p] = [@ EXCEPT !.pc = "write", !.seen = seen, !.plan = PlanOf(o, seen),
                                                  !.file = file, !.rows = rows]]
           /\ scars' = IF Busy(Wizard) THEN scars \cup {"wizard"} ELSE scars
           /\ UNCHANGED <<env, file, rows, cfg, count>>

\* addTokenPersist, without adminSaveMu, without a rollback.
WizardAdds ==
  LET o == [what |-> "login", token |-> WizardToken] IN
  /\ job[Wizard].pc = "idle" /\ count.orders < MaxOrders
  /\ count' = [count EXCEPT !.orders = @ + 1]
  /\ served' = Mutated(o, served)
  /\ job' = [job EXCEPT ![Wizard] = [@ EXCEPT !.pc = "write", !.order = o, !.seen = cfg, !.plan = PlanOf(o, cfg),
                                              !.file = file, !.rows = rows]]
  /\ scars' = IF \E p \in Admins : Busy(p) THEN scars \cup {"wizard"} ELSE scars
  /\ UNCHANGED <<env, file, rows, cfg, saver>>

\* dualWrite: the .env file, the rows one by one, the load, the verdict.
WriteEnv(p) ==
  LET plan == job[p].plan IN
  /\ job[p].pc = "write"
  /\ \/ Fault /\ Pc(p, "undo") /\ UNCHANGED file
     \/ /\ file' = [k \in Keys |-> IF k \in DOMAIN plan.set THEN plan.set[k] ELSE file[k]]
        /\ job' = [job EXCEPT ![p] = [@ EXCEPT !.pc = "rows", !.todo = DOMAIN plan.set \cup plan.del]]
        /\ UNCHANGED count
  /\ UNCHANGED <<env, rows, cfg, served, saver, scars>>
RowsKept(p) == rows
\* Only the rows the plan touches are put back.
Restored(p) == [k \in RowKeys |-> IF k \in DOMAIN job[p].plan.set \cup job[p].plan.del THEN job[p].rows[k] ELSE rows[k]]
WriteRow(p) ==
  LET plan == job[p].plan
      sets == job[p].todo \cap DOMAIN plan.set
  IN /\ job[p].pc = "rows"
     /\ \E k \in (IF sets # {} THEN sets ELSE job[p].todo) :
          \/ /\ rows' = [rows EXCEPT ![k] = IF k \in sets THEN plan.set[k] ELSE Unset]
             /\ job' = [job EXCEPT ![p].todo = @ \ {k}]
             /\ UNCHANGED <<file, count, scars>>
          \/ /\ Fault /\ Pc(p, "undo") /\ file' = job[p].file
             /\ rows' = IF k \in sets THEN rows ELSE Restored(p)
             /\ scars' = IF k \in sets /\ rows # job[p].rows THEN scars \cup {"torn"} ELSE scars
     /\ UNCHANGED <<env, cfg, served, saver>>
Verify(p) ==
  LET Try(r) == IF Loads(file, r) /\ Verified(job[p].order, job[p].plan, LoadConfig(file, r))
                THEN /\ job' = [job EXCEPT ![p].pc = "apply", ![p].next = LoadConfig(file, r)]
                     /\ UNCHANGED <<file, rows>>
                ELSE Pc(p, "undo") /\ file' = job[p].file /\ rows' = Restored(p)
  IN /\ job[p].pc = "rows" /\ job[p].todo = {}
     /\ \/ Try(rows) /\ UNCHANGED <<scars, count>>
        \/ Fault /\ Try(NoRows) /\ scars' = scars \cup {"blind"}
     /\ UNCHANGED <<env, cfg, served, saver>>
\* applyReloadedConfig, and the drain of a switch to bridge mode.
Apply(p) ==
  /\ job[p].pc = "apply" /\ cfg' = job[p].next /\ Pc(p, "adopt")
  /\ UNCHANGED <<env, file, rows, served, saver, scars, count>>
Adopt(p) ==
  LET o == job[p].order IN
  /\ job[p].pc = "adopt"
  /\ served' = IF o.what = "mode" /\ o.mode = "bridge" THEN << >> ELSE Reconciled(served, Tokens(job[p].next))
  /\ Leave(p) /\ UNCHANGED <<env, file, rows, cfg, scars, count>>
\* The pool's part is taken back.
Undo(p) ==
  LET o == job[p].order IN
  /\ job[p].pc = "undo"
  /\ served' = IF IsTokenOrder(o) THEN Undone(o, served, Tokens(job[p].seen)) ELSE served
  /\ scars' = IF o.what = "remove" THEN scars \cup {"moved"} ELSE scars
  /\ Leave(p) /\ UNCHANGED <<env, file, rows, cfg, count>>

-----------------------------------------------------------------------------
(* Orders of one layer.                                                    *)
\* handleSettingsPost and handleSettingsDelete load the candidate first.
Setting(p) ==
  LET o == job[p].order
      candidate == [rows EXCEPT ![o.key] = IF o.what = "post" THEN o.value ELSE Unset]
      allowed == IF o.what = "post" THEN o.key \notin {"AUTH_TOKENS", "ADMIN_TOKEN"} /\ o.value # <<"bad">>
                 ELSE rows[o.key] # Unset
  IN /\ job[p].pc = "asked" /\ saver = Nobody /\ o.what \in {"post", "delete"}
     /\ \/ Fault /\ Leave(p) /\ UNCHANGED <<rows, scars>>
        \/ /\ ~(allowed /\ Loads(file, candidate)) /\ Leave(p) /\ UNCHANGED <<rows, scars, count>>
        \/ /\ allowed /\ Loads(file, candidate)
           /\ rows' = candidate /\ saver' = p
           /\ job' = [job EXCEPT ![p].pc = "apply", ![p].next = LoadConfig(file, candidate)]
           /\ scars' = IF Busy(Wizard) THEN scars \cup {"wizard"} ELSE scars
           /\ UNCHANGED count
     /\ UNCHANGED <<env, file, cfg, served>>
\* handleConfigSave: the file is replaced, and put back when it does not load.
Save(p) ==
  LET o == job[p].order IN
  /\ job[p].pc = "asked" /\ saver = Nobody /\ o.what = "save"
  /\ \/ Fault /\ Leave(p) /\ UNCHANGED <<file, scars>>
     \/ /\ file' = o.file /\ saver' = p
        /\ job' = [job EXCEPT ![p] = [@ EXCEPT !.pc = "saved", !.file = file, !.plan = With(NoPlan, "AUTH_TOKENS", o.file["AUTH_TOKENS"])]]
        /\ scars' = IF Busy(Wizard) THEN scars \cup {"wizard"} ELSE scars
        /\ UNCHANGED count
  /\ UNCHANGED <<env, rows, cfg, served>>
Saved(p) ==
  /\ job[p].pc = "saved"
  /\ IF Loads(file, rows)
     THEN job' = [job EXCEPT ![p].pc = "apply", ![p].next = LoadConfig(file, rows)] /\ UNCHANGED <<file, saver>>
     ELSE file' = job[p].file /\ Leave(p)
  /\ UNCHANGED <<env, rows, cfg, served, scars, count>>
Reload(p) ==
  /\ job[p].pc = "asked" /\ saver = Nobody /\ job[p].order.what = "reload"
  /\ IF Loads(file, rows)
     THEN saver' = p /\ job' = [job EXCEPT ![p].pc = "apply", ![p].next = LoadConfig(file, rows)]
     ELSE Leave(p)
  /\ scars' = IF Busy(Wizard) THEN scars \cup {"wizard"} ELSE scars
  /\ UNCHANGED <<env, file, rows, cfg, served, count>>

\* The process is killed at any point and starts again; the import of a first
\* boot may stop half way.
Boot ==
  /\ count.boots < MaxBoots /\ Loads(file, rows)
  /\ cfg' = LoadConfig(file, rows) /\ served' = Tokens(cfg')
  /\ \/ rows' = Imported(rows, cfg', Len(Catalog)) /\ count' = [count EXCEPT !.boots = @ + 1]
     \/ /\ count.faults < MaxFaults /\ \E n \in 0 .. Len(Catalog) - 1 : rows' = Imported(rows, cfg', n)
        /\ count' = [count EXCEPT !.boots = @ + 1, !.faults = @ + 1]
  /\ saver' = Nobody /\ job' = [p \in People |-> Idle] /\ scars' = {}
  /\ UNCHANGED <<env, file>>

DualWrite(p) == WriteEnv(p) \/ WriteRow(p) \/ Verify(p) \/ Apply(p) \/ Adopt(p) \/ Undo(p)
ConfigNext ==
  \/ \E p \in Admins : Ask(p) \/ Begin(p) \/ Setting(p) \/ Save(p) \/ Saved(p) \/ Reload(p)
  \/ WizardAdds \/ Boot
  \/ \E p \in People : DualWrite(p)
ConfigSpec == ConfigInit /\ [][ConfigNext]_configVars

-----------------------------------------------------------------------------
ConfigTypeOK ==
  /\ DOMAIN cfg = Keys /\ DOMAIN file = Keys /\ DOMAIN rows = RowKeys
  /\ saver \in Admins \cup {Nobody} /\ \A p \in Admins : Busy(p) <=> saver = p
  /\ scars \subseteq {"torn", "blind", "wizard", "moved"}
  /\ \A p \in People : job[p].pc \in {"idle", "asked", "write", "rows", "apply", "adopt", "undo", "saved"}

\* Unless a fault is one of those the README lists, the running configuration is
\* what a restart would load and the pool serves its tokens whenever no save is
\* under way, and a kill in the middle of one boots with the old tokens or the new.
ConfigAgrees ==
  scars = {} =>
    /\ (\A p \in People : ~Busy(p)) => cfg = LoadConfig(file, rows) /\ ToSet(Tokens(cfg)) \subseteq ToSet(served)
    /\ Loads(file, rows) =>
         \/ Tokens(LoadConfig(file, rows)) = Tokens(cfg)
         \/ \E p \in People : /\ "AUTH_TOKENS" \in DOMAIN job[p].plan.set
                              /\ Tokens(LoadConfig(file, rows)) = Dedupe(job[p].plan.set["AUTH_TOKENS"])
         \/ \E p \in Admins : job[p].pc = "apply" /\ Tokens(LoadConfig(file, rows)) = Tokens(job[p].next)
=============================================================================
