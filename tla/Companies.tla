----------------------------- MODULE Companies -----------------------------
(***************************************************************************)
(* The company profiles, the settings in use, and the gate in front of     *)
(* live synchronisation (services/settings.py, routers/settings.py,        *)
(* routers/tally_check.py, services/tally_masters.py).                     *)
(*                                                                         *)
(* A profile carries a configuration, and so do the settings: activating a *)
(* company copies its configuration into them.  The keys of one            *)
(* configuration change together here.  A request loads rows, and its      *)
(* commit writes the attributes that differ from what it has loaded: rows  *)
(* others have changed meanwhile keep what it does not write.              *)
(*                                                                         *)
(* Ghost: `apart` says that a request wrote over another one, or a start   *)
(* repaired something, since an undisturbed activation.                    *)
(***************************************************************************)
EXTENDS Naturals, FiniteSets

CONSTANTS
    Labels,         \* names of profiles
    Configs,        \* configurations
    Incomplete,     \* those with an empty name, such as the default settings
    Default,        \* what DEFAULT_SETTINGS holds
    Legacy,         \* LEGACY_PLACEHOLDER_SETTINGS
    LegacyLabel,    \* the name of the profile an old installer created
    Flags,          \* tally_purchase_enabled and tally_sales_enabled
    Clerks,         \* request threads
    None

ASSUME ConfigsAssumption == {Default, Legacy} \subseteq Configs /\ Incomplete \subseteq Configs
ASSUME LabelsAssumption  == LegacyLabel \in Labels /\ None \notin Labels

Forms   == Configs \ {Default}        \* validate_settings asks for a name
Profile == [config : Configs, active : BOOLEAN]

ASSUME NoneAssumption == None \notin Profile

VARIABLES
    profiles,   \* companies
    config,     \* the rows of settings that belong to a company
    sync,       \* the kinds of batches that are synchronised
    checked,    \* the configurations whose masters are all confirmed
    req,        \* per thread: its request, with what it has loaded
    apart

vars == <<profiles, config, sync, checked, req, apart>>
tables == <<profiles, config, sync>>

Init ==
    /\ profiles = [l \in Labels |-> None]
    /\ config \in {Default, Legacy}
    /\ sync = {} /\ checked = {}
    /\ req = [t \in Clerks |-> None]
    /\ apart = FALSE

Known(ps)  == {l \in Labels : ps[l] # None}
Active(ps) == {l \in Known(ps) : ps[l].active}

-----------------------------------------------------------------------------
(* live_sync_readiness: every master the settings and the active products  *)
(* need has a name and is confirmed.  Somebody confirms masters, takes     *)
(* that back or edits products, and for other configurations it is so.     *)
Ready(c) == c \in checked

TallyCheck ==
    \E S \in SUBSET (Configs \ Incomplete) :
        /\ checked' = S
        /\ UNCHANGED <<tables, req, apart>>

-----------------------------------------------------------------------------
(* Requests load, with their early returns ...                             *)
(* (those that do not switch synchronisation do not load its rows)         *)
Seen(op, to) ==
    [profiles |-> [l \in Labels |->
        IF l = to \/ profiles[l] = None THEN profiles[l] ELSE [profiles[l] EXCEPT !.config = Default]],
     config |-> config,
     sync |-> IF op \in {"save", "activate"} THEN sync ELSE {}]
Take(t, op, what) ==
    /\ req[t] = None
    /\ req' = [req EXCEPT ![t] = [op |-> op, what |-> what, seen |-> Seen(op, what.to)]]
    /\ UNCHANGED <<tables, checked, apart>>

AnyOfThem   == IF Known(profiles) = {} THEN {None} ELSE Known(profiles)    \* variant
FirstActive == IF Active(profiles) = {} THEN {None} ELSE Active(profiles)
OpenSave(t, c, flags) ==
    \E a \in FirstActive : Take(t, "save", [to |-> a, config |-> c, flags |-> flags])
OpenAutosave(t, c) ==
    \E a \in FirstActive : Take(t, "autosave", [to |-> a, config |-> c, flags |-> {}])
OpenAdd(t, l, c) ==
    profiles[l] = None /\ Take(t, "add", [to |-> l, config |-> c, flags |-> {}])
OpenUpdate(t, l, c) ==
    profiles[l] # None /\ Take(t, "update", [to |-> l, config |-> c, flags |-> {}])
OpenActivate(t, l) ==
    /\ profiles[l] # None
    /\ Take(t, "activate", [to |-> l, config |-> profiles[l].config, flags |-> {}])
OpenDelete(t, l) ==
    /\ profiles[l] # None /\ Cardinality(Known(profiles)) > 1 /\ ~profiles[l].active
    /\ Take(t, "delete", [to |-> l, config |-> Default, flags |-> {}])

(* ... and write what differs from it.                                     *)
Written(now, seen, value) == IF value = seen THEN now ELSE value
Switched(flags, seen) ==
    LET touched == (flags \ seen) \cup (seen \ flags)
    IN (sync \ touched) \cup (flags \cap touched)
SetConfig(ps, l, c) == [ps EXCEPT ![l] = [@ EXCEPT !.config = c]]

Crossed(r) == r.seen # Seen(r.op, r.what.to)
Over(t, together) ==
    /\ req' = [req EXCEPT ![t] = None]
    /\ apart' = IF tables' = tables THEN apart
                ELSE IF Crossed(req[t]) THEN TRUE ELSE apart /\ ~together
    /\ UNCHANGED <<checked>>
Rollback == UNCHANGED tables

ReadyBefore(c) == Ready(config)        \* variant: looks before it writes
ReadyAfter(c)  == Ready(c)

(* persist_settings_and_active_company: the settings, and the profile the  *)
(* request took for the active one.  Kinds of batches are only switched by *)
(* save_settings, which looks at the masters after it has written.         *)
Save(t) ==
    /\ req[t] # None /\ req[t].op \in {"save", "autosave"}
    /\ LET r == req[t].what  seen == req[t].seen  c == Written(config, seen.config, r.config)
           gone  == /\ r.to # None /\ seen.profiles[r.to].config # r.config
                    /\ profiles[r.to] = None
       IN IF gone \/ (r.flags # {} /\ ~ReadyAfter(c)) THEN Rollback
          ELSE /\ config' = c
               /\ sync' = IF req[t].op = "autosave" THEN sync ELSE Switched(r.flags, seen.sync)
               /\ profiles' = IF r.to = None \/ seen.profiles[r.to].config = r.config
                              THEN profiles ELSE SetConfig(profiles, r.to, r.config)
    /\ Over(t, FALSE)

Add(t) ==
    /\ req[t] # None /\ req[t].op = "add"
    /\ LET r == req[t].what  seen == req[t].seen  first == Known(seen.profiles) = {}
       IN IF profiles[r.to] # None THEN Rollback      \* the name is unique
          ELSE /\ profiles' = [profiles EXCEPT ![r.to] = [config |-> r.config, active |-> first]]
               /\ config' = IF first THEN Written(config, seen.config, r.config) ELSE config
               /\ UNCHANGED sync
    /\ Over(t, FALSE)

Update(t) ==
    /\ req[t] # None /\ req[t].op = "update"
    /\ LET r == req[t].what  seen == req[t].seen  was == seen.profiles[r.to]
       IN IF was.config # r.config /\ profiles[r.to] = None THEN Rollback
          ELSE /\ profiles' = IF was.config = r.config THEN profiles
                              ELSE SetConfig(profiles, r.to, r.config)
               /\ config' = IF was.active THEN Written(config, seen.config, r.config) ELSE config
               /\ UNCHANGED sync
    /\ Over(t, FALSE)

(* activate_company: one company active, all others not, its configuration *)
(* copied, and nothing synchronised until somebody checks the masters.     *)
OnlyOn(ps, l, seen)   ==              \* variant: the old one is left active
    [o \in Labels |-> IF o = l /\ ps[o] # None THEN [ps[o] EXCEPT !.active = TRUE] ELSE ps[o]]
MakeActive(ps, l, seen) ==
    [o \in Labels |-> IF seen[o] # None /\ seen[o].active # (o = l) /\ ps[o] # None
                      THEN [ps[o] EXCEPT !.active = (o = l)] ELSE ps[o]]
Activate(t) ==
    /\ req[t] # None /\ req[t].op = "activate"
    /\ LET r == req[t].what  seen == req[t].seen
           gone == \E o \in Known(seen.profiles) :
                      seen.profiles[o].active # (o = r.to) /\ profiles[o] = None
       IN IF gone THEN Rollback
          ELSE /\ profiles' = MakeActive(profiles, r.to, seen.profiles)
               /\ config' = Written(config, seen.config, r.config)
               /\ sync' = Switched({}, seen.sync)
    /\ Over(t, TRUE)

Delete(t) ==
    /\ req[t] # None /\ req[t].op = "delete"
    /\ profiles' = [profiles EXCEPT ![req[t].what.to] = None]
    /\ UNCHANGED <<config, sync>>
    /\ Over(t, FALSE)

-----------------------------------------------------------------------------
(* A start of the program (bootstrap): the values an old installer left    *)
(* are cleared, then there is an active company if there is one at all.    *)
Placeholder == sync = {} /\ config = Legacy
Cleared == [l \in Labels |->
              IF /\ Placeholder /\ l = LegacyLabel
                 /\ profiles[l] # None /\ profiles[l].config = Legacy
              THEN None ELSE profiles[l]]

Boot ==
    /\ req' = [t \in Clerks |-> None]
    /\ config' = IF Placeholder THEN Default ELSE config
    /\ IF Known(Cleared) = {}
       THEN IF config' = Default THEN profiles' = Cleared
            ELSE \E l \in Labels :
                   profiles' = [Cleared EXCEPT ![l] = [config |-> config', active |-> TRUE]]
       ELSE IF Active(Cleared) # {} THEN profiles' = Cleared
            ELSE \E l \in Known(Cleared) :
                   profiles' = [Cleared EXCEPT ![l] = [@ EXCEPT !.active = TRUE]]
    /\ apart' = (apart \/ (Known(profiles') # {}
                           /\ (Placeholder \/ (Active(profiles') # Active(profiles)
                                               /\ Known(Cleared) # {}))))
    /\ UNCHANGED <<sync, checked>>

Open(t) ==
    \/ \E c \in Forms : OpenAutosave(t, c) \/ \E flags \in SUBSET Flags : OpenSave(t, c, flags)
    \/ \E l \in Labels : \/ OpenActivate(t, l) \/ OpenDelete(t, l)
                         \/ \E c \in Forms : OpenAdd(t, l, c) \/ OpenUpdate(t, l, c)
Commit(t) == Save(t) \/ Add(t) \/ Update(t) \/ Activate(t) \/ Delete(t)

Next ==
    \/ \E t \in Clerks : Open(t) \/ Commit(t)
    \/ TallyCheck \/ Boot

Spec == Init /\ [][Next]_vars

-----------------------------------------------------------------------------
(* Properties.                                                             *)

Request == [op : {"save", "autosave", "add", "update", "activate", "delete"},
            what : [to : Labels \cup {None}, config : Configs, flags : SUBSET Flags],
            seen : [profiles : [Labels -> Profile \cup {None}], config : Configs,
                    sync : SUBSET Flags]]

(* Types; a request is about a profile it has seen, or a name it has not.  *)
TypeOK ==
    /\ profiles \in [Labels -> Profile \cup {None}]
    /\ config \in Configs /\ sync \subseteq Flags
    /\ checked \subseteq Configs \ Incomplete
    /\ req \in [Clerks -> Request \cup {None}]
    /\ apart \in BOOLEAN
    /\ \A t \in Clerks : req[t] # None =>
         LET r == req[t] IN
         CASE r.op = "add" -> r.what.to \notin Known(r.seen.profiles)
           [] r.op \in {"update", "activate", "delete"} -> r.what.to \in Known(r.seen.profiles)
           [] OTHER -> r.what.to \in Active(r.seen.profiles) \cup {None}

(* One company is active and the settings in use are its own, whatever     *)
(* was saved, activated, edited and deleted, in whatever order; and where  *)
(* two requests did write over each other, the next activation that nobody *)
(* disturbs puts it right.                                                 *)
SettingsFollowActive ==
    ~apart /\ Known(profiles) # {} =>
        \E l \in Labels : Active(profiles) = {l} /\ profiles[l].config = config

(* "Live sync gate: Tally sync cannot be enabled until Tally Check is      *)
(* complete" (docs/codex-windows-handoff.md:24): in the moment in which a  *)
(* kind of batch is switched on, every master that the settings then in    *)
(* use need is confirmed - whatever commits between the load and the       *)
(* commit of that request.                                                 *)
SwitchedOnWhenReady ==
    [][~(sync' \subseteq sync) => Ready(config')]_vars
=============================================================================
