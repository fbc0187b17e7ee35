--------------------------- MODULE CompaniesProofs ---------------------------
(* However the requests about companies and settings overlap, the settings *)
(* in use are those of the active company, and nothing is synchronised     *)
(* before the masters were checked.                                        *)
EXTENDS Companies, TLAPS

(* What a request knows of the profile it is about.                        *)
Fits(r) ==
    /\ r.op = "add" => r.what.to \in Labels \ Known(r.seen.profiles)
    /\ r.op \in {"update", "activate", "delete"} => r.what.to \in Known(r.seen.profiles)
    /\ r.op \in {"save", "autosave"} =>
          \/ r.what.to \in Active(r.seen.profiles)
          \/ r.what.to = None /\ Active(r.seen.profiles) = {}
    /\ r.op = "activate" => r.what.config = r.seen.profiles[r.what.to].config
    /\ r.op = "delete" => ~r.seen.profiles[r.what.to].active

RequestsFit == /\ req \in [Clerks -> Request \cup {None}]
               /\ \A t \in Clerks : req[t] # None => Fits(req[t])
TablesOK    == /\ profiles \in [Labels -> Profile \cup {None}]
               /\ config \in Configs /\ sync \subseteq Flags
RestOK      == checked \subseteq Configs \ Incomplete /\ apart \in BOOLEAN

Sound == TablesOK /\ RestOK /\ RequestsFit

(* One company is active, and c is its configuration.                      *)
Follow(ps, c) == Known(ps) # {} => \E l \in Labels : Active(ps) = {l} /\ ps[l].config = c

Inv == Sound /\ SettingsFollowActive

-----------------------------------------------------------------------------
(* Facts about data.                                                       *)

LEMMA SoundIsTyped == Sound => TypeOK
<1> SUFFICES ASSUME Sound PROVE TypeOK
    OBVIOUS
<1>1. ASSUME NEW t \in Clerks, req[t] # None
      PROVE  CASE req[t].op = "add" -> req[t].what.to \notin Known(req[t].seen.profiles)
               [] req[t].op \in {"update", "activate", "delete"} ->
                    req[t].what.to \in Known(req[t].seen.profiles)
               [] OTHER -> req[t].what.to \in Active(req[t].seen.profiles) \cup {None}
    <2>1. Fits(req[t]) /\ req[t] \in Request
        BY <1>1 DEF Sound, RequestsFit
    <2>2. req[t].op \in {"save", "autosave", "add", "update", "activate", "delete"}
        BY <2>1 DEF Request
    <2>3. CASE req[t].op = "add"
        BY <2>1, <2>3 DEF Fits
    <2>4. CASE req[t].op \in {"update", "activate", "delete"}
        BY <2>1, <2>4 DEF Fits
    <2>5. CASE req[t].op \in {"save", "autosave"}
        BY <2>1, <2>5 DEF Fits
    <2> QED BY <2>2, <2>3, <2>4, <2>5
<1> QED BY <1>1 DEF Sound, TablesOK, RestOK, RequestsFit, TypeOK

LEMMA FollowIs == SettingsFollowActive <=> (~apart => Follow(profiles, config))
BY DEF SettingsFollowActive, Follow

LEMMA ProfileFields ==
    ASSUME NEW ps \in [Labels -> Profile \cup {None}]
    PROVE  /\ Known(ps) \subseteq Labels /\ Active(ps) \subseteq Known(ps)
           /\ \A l \in Known(ps) : /\ ps[l] \in Profile /\ ps[l] # None
                                   /\ ps[l].config \in Configs /\ ps[l].active \in BOOLEAN
BY DEF Known, Active, Profile

(* What is loaded are the rows as they are, but for what is not looked at. *)
LEMMA SeenIs ==
    ASSUME TablesOK, NEW op, NEW to, NEW seen, seen = Seen(op, to)
    PROVE  /\ seen \in [profiles : [Labels -> Profile \cup {None}], config : Configs,
                        sync : SUBSET Flags]
           /\ Known(seen.profiles) = Known(profiles)
           /\ Active(seen.profiles) = Active(profiles)
           /\ \A l \in Labels : l = to => seen.profiles[l] = profiles[l]
           /\ seen.config = config
           /\ op \in {"save", "activate"} => seen.sync = sync
<1> DEFINE ps == [l \in Labels |-> IF l = to \/ profiles[l] = None THEN profiles[l]
                                   ELSE [profiles[l] EXCEPT !.config = Default]]
           fs == IF op \in {"save", "activate"} THEN sync ELSE {}
<1>1. profiles \in [Labels -> Profile \cup {None}] /\ config \in Configs /\ sync \subseteq Flags
    BY DEF TablesOK
<1>2. Default \in Configs
    BY ConfigsAssumption
<1>3. \A l \in Labels : profiles[l] # None =>
          /\ [profiles[l] EXCEPT !.config = Default] \in Profile
          /\ [profiles[l] EXCEPT !.config = Default] # None
          /\ [profiles[l] EXCEPT !.config = Default].active = profiles[l].active
    BY <1>1, <1>2, NoneAssumption DEF Profile
<1>4. ps \in [Labels -> Profile \cup {None}]
    BY <1>1, <1>3
<1>5. \A l \in Labels : /\ ps[l] = None <=> profiles[l] = None
                        /\ ps[l] # None => ps[l].active = profiles[l].active
                        /\ l = to => ps[l] = profiles[l]
    BY <1>3
<1> HIDE DEF ps
<1>6. Known(ps) = Known(profiles) /\ Active(ps) = Active(profiles)
    BY <1>5 DEF Known, Active
<1>7. seen = [profiles |-> ps, config |-> config, sync |-> fs]
    BY DEF Seen, ps
<1>8. fs \in SUBSET Flags
    BY <1>1
<1> QED BY <1>1, <1>4, <1>5, <1>6, <1>7, <1>8

(* The settings after a request that nobody wrote under.                   *)
LEMMA OverKeeps ==
    ASSUME SettingsFollowActive, NEW t \in Clerks, NEW together \in BOOLEAN,
           Over(t, together), apart \in BOOLEAN,
           ~Crossed(req[t]) /\ (together \/ Follow(profiles, config))
               => Follow(profiles', config')
    PROVE  SettingsFollowActive' /\ apart' \in BOOLEAN
<1>1. CASE tables' = tables
    BY <1>1 DEF Over, tables, SettingsFollowActive, Known, Active
<1>2. CASE tables' # tables /\ Crossed(req[t])
    BY <1>2 DEF Over, SettingsFollowActive
<1>3. CASE tables' # tables /\ ~Crossed(req[t])
    <2>1. apart' = (apart /\ ~together)
        BY <1>3 DEF Over
    <2>2. ~apart' => Follow(profiles', config')
        BY <1>3, <2>1, FollowIs
    <2> QED BY <2>1, <2>2 DEF SettingsFollowActive, Follow
<1> QED BY <1>1, <1>2, <1>3

LEMMA RequestOver ==
    ASSUME Sound, NEW t \in Clerks, NEW together, Over(t, together)
    PROVE  RequestsFit'
BY DEF Sound, RequestsFit, Over

LEMMA RequestTaken ==
    ASSUME Sound, SettingsFollowActive, NEW t \in Clerks, NEW op, NEW what, Take(t, op, what),
           [op |-> op, what |-> what, seen |-> Seen(op, what.to)] \in Request,
           Fits([op |-> op, what |-> what, seen |-> Seen(op, what.to)])
    PROVE  Inv'
<1> DEFINE r == [op |-> op, what |-> what, seen |-> Seen(op, what.to)]
<1>1. /\ req' = [req EXCEPT ![t] = r] /\ r \in Request /\ Fits(r)
      /\ UNCHANGED <<profiles, config, sync, checked, apart>>
    BY DEF Take, tables
<1> HIDE DEF r
<1>2. RequestsFit'
    BY <1>1 DEF Sound, RequestsFit
<1>3. TablesOK' /\ RestOK'
    BY <1>1 DEF Sound, TablesOK, RestOK
<1>4. SettingsFollowActive'
    BY <1>1 DEF SettingsFollowActive, Known, Active
<1> QED BY <1>2, <1>3, <1>4 DEF Inv, Sound
-----------------------------------------------------------------------------
(* Requests that load.                                                     *)

LEMMA RequestMade ==
    ASSUME TablesOK, NEW op \in {"save", "autosave", "add", "update", "activate", "delete"},
           NEW to \in Labels \cup {None}, NEW c \in Configs, NEW flags \in SUBSET Flags,
           NEW r, r = [op |-> op, what |-> [to |-> to, config |-> c, flags |-> flags],
                       seen |-> Seen(op, to)]
    PROVE  r \in Request
<1> DEFINE seen == Seen(op, to)
<1>1. seen \in [profiles : [Labels -> Profile \cup {None}], config : Configs, sync : SUBSET Flags]
    BY SeenIs
<1> HIDE DEF seen
<1>2. r = [op |-> op, what |-> [to |-> to, config |-> c, flags |-> flags], seen |-> seen]
    BY DEF seen
<1> QED BY <1>1, <1>2 DEF Request

LEMMA OpenKeeps ==
    ASSUME Inv, NEW t \in Clerks, Open(t)
    PROVE  Inv'
<1>1. Sound /\ SettingsFollowActive /\ TablesOK /\ Default \in Configs /\ Forms \subseteq Configs
    BY ConfigsAssumption DEF Inv, Sound, Forms
<1>2. profiles \in [Labels -> Profile \cup {None}]
    BY <1>1 DEF TablesOK
<1>3. ASSUME NEW op \in {"save", "autosave", "add", "update", "activate", "delete"},
             NEW to \in Labels \cup {None}, NEW c \in Configs, NEW flags \in SUBSET Flags,
             Take(t, op, [to |-> to, config |-> c, flags |-> flags]),
             /\ op = "add" => to \in Labels \ Known(profiles)
             /\ op \in {"update", "activate", "delete"} => to \in Known(profiles)
             /\ op \in {"save", "autosave"} =>
                   to \in Active(profiles) \/ (to = None /\ Active(profiles) = {})
             /\ op = "activate" => c = profiles[to].config
             /\ op = "delete" => ~profiles[to].active
      PROVE  Inv'
    <2> DEFINE what == [to |-> to, config |-> c, flags |-> flags]
               seen == Seen(op, to)
               r == [op |-> op, what |-> what, seen |-> seen]
    <2>1. /\ Known(seen.profiles) = Known(profiles) /\ Active(seen.profiles) = Active(profiles)
          /\ to \in Labels => seen.profiles[to] = profiles[to]
        BY <1>1, SeenIs
    <2>2. r \in Request
        BY <1>1, RequestMade
    <2>3. Known(profiles) \subseteq Labels
        BY DEF Known
    <2>4. Fits(r)
        <3> HIDE DEF seen
        <3> QED BY <1>3, <2>1, <2>3 DEF Fits
    <2>5. what.to = to
        OBVIOUS
    <2>6. Take(t, op, what)
        BY <1>3
    <2> HIDE DEF what
    <2> QED BY <1>1, <2>2, <2>4, <2>5, <2>6, RequestTaken
<1>4. ASSUME NEW c \in Forms, OpenAutosave(t, c) PROVE Inv'
    <2>1. PICK a \in FirstActive : Take(t, "autosave", [to |-> a, config |-> c, flags |-> {}])
        BY <1>4 DEF OpenAutosave
    <2>2. a \in Active(profiles) \/ (a = None /\ Active(profiles) = {})
        BY <2>1 DEF FirstActive
    <2>3. a \in Labels \cup {None}
        BY <2>2 DEF Active, Known
    <2> QED BY <1>1, <1>3, <2>1, <2>2, <2>3
<1>5. ASSUME NEW c \in Forms, NEW flags \in SUBSET Flags, OpenSave(t, c, flags) PROVE Inv'
    <2>1. PICK a \in FirstActive : Take(t, "save", [to |-> a, config |-> c, flags |-> flags])
        BY <1>5 DEF OpenSave
    <2>2. a \in Active(profiles) \/ (a = None /\ Active(profiles) = {})
        BY <2>1 DEF FirstActive
    <2>3. a \in Labels \cup {None}
        BY <2>2 DEF Active, Known
    <2> QED BY <1>1, <1>3, <2>1, <2>2, <2>3
<1>6. ASSUME NEW l \in Labels, OpenActivate(t, l) PROVE Inv'
    <2>1. l \in Known(profiles) /\ profiles[l].config \in Configs
        BY <1>2, <1>6, ProfileFields DEF OpenActivate, Known
    <2> QED BY <1>3, <1>6, <2>1 DEF OpenActivate
<1>7. ASSUME NEW l \in Labels, OpenDelete(t, l) PROVE Inv'
    BY <1>1, <1>3, <1>7 DEF OpenDelete, Known
<1>8. ASSUME NEW l \in Labels, NEW c \in Forms, OpenAdd(t, l, c) PROVE Inv'
    BY <1>1, <1>3, <1>8 DEF OpenAdd, Known
<1>9. ASSUME NEW l \in Labels, NEW c \in Forms, OpenUpdate(t, l, c) PROVE Inv'
    BY <1>1, <1>3, <1>9 DEF OpenUpdate, Known
<1> QED BY <1>4, <1>5, <1>6, <1>7, <1>8, <1>9 DEF Open
-----------------------------------------------------------------------------
(* Requests that commit.                                                   *)

(* What a commit that nobody wrote under has loaded is what it finds.      *)
LEMMA UncrossedIs ==
    ASSUME Sound, NEW t \in Clerks, req[t] # None
    PROVE  /\ req[t] \in Request /\ Fits(req[t])
           /\ ~Crossed(req[t]) =>
                /\ Known(req[t].seen.profiles) = Known(profiles)
                /\ Active(req[t].seen.profiles) = Active(profiles)
                /\ req[t].what.to \in Labels =>
                      req[t].seen.profiles[req[t].what.to] = profiles[req[t].what.to]
                /\ req[t].seen.config = config
<1>1. req[t] \in Request /\ Fits(req[t])
    BY DEF Sound, RequestsFit
<1> DEFINE op == req[t].op  to == req[t].what.to  seen == req[t].seen
<1>2. ASSUME ~Crossed(req[t])
      PROVE  /\ Known(seen.profiles) = Known(profiles)
             /\ Active(seen.profiles) = Active(profiles)
             /\ to \in Labels => seen.profiles[to] = profiles[to]
             /\ seen.config = config
    <2>1. seen = Seen(op, to)
        BY <1>2 DEF Crossed
    <2>2. TablesOK
        BY DEF Sound
    <2> HIDE DEF seen, op, to
    <2> QED BY <2>1, <2>2, SeenIs
<1> QED BY <1>1, <1>2

LEMMA RequestFields ==
    ASSUME NEW r \in Request
    PROVE  /\ r.what.to \in Labels \cup {None} /\ r.what.config \in Configs
           /\ r.what.flags \subseteq Flags
           /\ r.seen.profiles \in [Labels -> Profile \cup {None}]
           /\ r.seen.config \in Configs /\ r.seen.sync \subseteq Flags
BY DEF Request

(* A profile that gets another configuration.                              *)
LEMMA ConfigSet ==
    ASSUME NEW ps \in [Labels -> Profile \cup {None}], NEW l \in Known(ps), NEW c \in Configs
    PROVE  /\ SetConfig(ps, l, c) \in [Labels -> Profile \cup {None}]
           /\ Known(SetConfig(ps, l, c)) = Known(ps)
           /\ Active(SetConfig(ps, l, c)) = Active(ps)
           /\ SetConfig(ps, l, c)[l].config = c
           /\ \A o \in Labels \ {l} : SetConfig(ps, l, c)[o] = ps[o]
<1> DEFINE p == [ps[l] EXCEPT !.config = c]
           q == [ps EXCEPT ![l] = p]
<1>1. ps[l] \in Profile /\ l \in Labels
    BY ProfileFields
<1>2. p \in Profile /\ p # None /\ p.config = c /\ p.active = ps[l].active
    BY <1>1, NoneAssumption DEF Profile
<1> HIDE DEF p
<1>3. /\ q \in [Labels -> Profile \cup {None}] /\ q[l] = p
      /\ \A o \in Labels \ {l} : q[o] = ps[o]
    BY <1>1, <1>2
<1>4. SetConfig(ps, l, c) = q
    BY DEF SetConfig, p
<1> HIDE DEF q
<1>5. Known(q) = Known(ps) /\ Active(q) = Active(ps)
    BY <1>1, <1>2, <1>3 DEF Known, Active
<1> QED BY <1>2, <1>3, <1>4, <1>5

(* The active profile and the settings get the same configuration.         *)
LEMMA BothSet ==
    ASSUME NEW ps \in [Labels -> Profile \cup {None}], NEW l \in Known(ps), NEW c \in Configs,
           NEW old, Follow(ps, old), l \in Active(ps)
    PROVE  Follow(SetConfig(ps, l, c), c)
<1>1. PICK a \in Labels : Active(ps) = {a} /\ ps[a].config = old
    BY DEF Follow
<1>2. a = l
    BY <1>1
<1> QED BY <1>1, <1>2, ConfigSet DEF Follow

(* A profile that is not in use gets a configuration.                      *)
LEMMA OtherSet ==
    ASSUME NEW ps \in [Labels -> Profile \cup {None}], NEW l \in Known(ps), NEW c \in Configs,
           NEW old, Follow(ps, old), l \notin Active(ps)
    PROVE  Follow(SetConfig(ps, l, c), old)
<1>1. PICK a \in Labels : Active(ps) = {a} /\ ps[a].config = old
    BY DEF Follow
<1>2. a # l
    BY <1>1
<1> QED BY <1>1, <1>2, ConfigSet DEF Follow

LEMMA SwitchedTyped ==
    ASSUME sync \subseteq Flags, NEW flags \in SUBSET Flags, NEW seen \in SUBSET Flags
    PROVE  Switched(flags, seen) \subseteq Flags
BY DEF Switched

LEMMA SaveKeeps ==
    ASSUME Inv, NEW t \in Clerks, Save(t)
    PROVE  Inv'
<1> DEFINE r == req[t]  to == r.what.to  new == r.what.config  seen == r.seen
           gone == /\ to # None /\ seen.profiles[to].config # new /\ profiles[to] = None
           set == ~(to = None \/ seen.profiles[to].config = new)
<1>1. /\ Sound /\ SettingsFollowActive /\ TablesOK /\ apart \in BOOLEAN
      /\ r \in Request /\ Fits(r) /\ r.op \in {"save", "autosave"}
      /\ Over(t, FALSE)
    BY UncrossedIs DEF Inv, Sound, RestOK, Save
<1>2. /\ profiles \in [Labels -> Profile \cup {None}] /\ config \in Configs /\ sync \subseteq Flags
      /\ to \in Labels \cup {None} /\ new \in Configs /\ r.what.flags \subseteq Flags
      /\ seen.profiles \in [Labels -> Profile \cup {None}]
      /\ seen.config \in Configs /\ seen.sync \subseteq Flags
    BY <1>1, RequestFields DEF TablesOK
<1>3. RequestsFit'
    BY <1>1, RequestOver
<1>4. \/ UNCHANGED <<profiles, config, sync>>
      \/ /\ ~gone /\ config' = Written(config, seen.config, new)
         /\ sync' = sync \/ sync' = Switched(r.what.flags, seen.sync)
         /\ profiles' = IF set THEN SetConfig(profiles, to, new) ELSE profiles
    BY DEF Save, Rollback, tables
<1>5. ~gone /\ set => to \in Known(profiles)
    BY <1>2 DEF Known
<1>6. TablesOK'
    <2>1. Written(config, seen.config, new) \in Configs
        BY <1>2 DEF Written
    <2>2. ~gone /\ set => SetConfig(profiles, to, new) \in [Labels -> Profile \cup {None}]
        BY <1>2, <1>5, ConfigSet
    <2>3. Switched(r.what.flags, seen.sync) \subseteq Flags
        BY <1>2, SwitchedTyped
    <2> HIDE DEF r, to, new, seen, gone, set
    <2> QED BY <1>2, <1>4, <2>1, <2>2, <2>3 DEF TablesOK
<1>7. ASSUME ~Crossed(r), Follow(profiles, config)
      PROVE  Follow(profiles', config')
    <2>1. /\ Active(seen.profiles) = Active(profiles) /\ seen.config = config
          /\ to \in Labels => seen.profiles[to] = profiles[to]
        BY <1>7, <1>1, UncrossedIs DEF Save
    <2>2. CASE UNCHANGED <<profiles, config, sync>>
        BY <1>7, <2>2 DEF Follow, Known, Active
    <2>3. CASE /\ ~gone /\ config' = Written(config, seen.config, new)
               /\ profiles' = IF set THEN SetConfig(profiles, to, new) ELSE profiles
        <3>1. config' = new
            BY <2>1, <2>3 DEF Written
        <3>2. CASE to = None
            <4>1. Active(profiles) = {} /\ profiles' = profiles
                BY <1>1, <2>1, <2>3, <3>2, LabelsAssumption, ProfileFields, <1>2 DEF Fits, Active, Known
            <4>2. Known(profiles) = {}
                BY <1>7, <4>1 DEF Follow
            <4> QED BY <4>1, <4>2 DEF Follow, Known
        <3>3. CASE to # None
            <4>1. to \in Active(profiles) /\ to \in Known(profiles) /\ seen.profiles[to] = profiles[to]
                BY <1>1, <1>2, <2>1, <3>3 DEF Fits, Active
            <4>2. CASE set
                <5>1. profiles' = SetConfig(profiles, to, new)
                    BY <2>3, <4>2
                <5>2. Follow(SetConfig(profiles, to, new), new)
                    BY <1>2, <1>7, <4>1, BothSet
                <5> QED BY <3>1, <5>1, <5>2 DEF Follow, Known, Active
            <4>3. CASE ~set
                <5>1. profiles[to].config = new /\ profiles' = profiles
                    BY <2>3, <3>3, <4>1, <4>3
                <5>2. PICK a \in Labels : Active(profiles) = {a} /\ profiles[a].config = config
                    BY <1>7, <4>1 DEF Follow
                <5> QED BY <3>1, <4>1, <5>1, <5>2 DEF Follow, Known, Active
            <4> QED BY <4>2, <4>3
        <3> QED BY <3>2, <3>3
    <2> HIDE DEF r, to, new, seen, gone, set
    <2> QED BY <1>4, <2>2, <2>3
<1>8. SettingsFollowActive' /\ apart' \in BOOLEAN
    BY <1>1, <1>7, OverKeeps
<1>9. RestOK'
    BY <1>1, <1>8 DEF RestOK, Over, Sound
<1> QED BY <1>3, <1>6, <1>8, <1>9 DEF Inv, Sound
With(ps, l, p) == [ps EXCEPT ![l] = p]

LEMMA NewProfile ==
    ASSUME NEW ps \in [Labels -> Profile \cup {None}], NEW l \in Labels, NEW p \in Profile
    PROVE  /\ With(ps, l, p) \in [Labels -> Profile \cup {None}]
           /\ Known(With(ps, l, p)) = Known(ps) \cup {l}
           /\ l \notin Known(ps) =>
                Active(With(ps, l, p)) = IF p.active THEN Active(ps) \cup {l} ELSE Active(ps)
           /\ With(ps, l, p)[l] = p
           /\ \A o \in Labels \ {l} : With(ps, l, p)[o] = ps[o]
<1> DEFINE q == With(ps, l, p)
<1>1. p # None
    BY NoneAssumption
<1>2. /\ q \in [Labels -> Profile \cup {None}] /\ q[l] = p
      /\ \A o \in Labels \ {l} : q[o] = ps[o]
    BY DEF With
<1> HIDE DEF q
<1>3. Known(q) = Known(ps) \cup {l}
    BY <1>1, <1>2 DEF Known
<1>4. l \notin Known(ps) => Active(q) = IF p.active THEN Active(ps) \cup {l} ELSE Active(ps)
    BY <1>1, <1>2, <1>3 DEF Known, Active
<1> QED BY <1>2, <1>3, <1>4 DEF q

LEMMA AddKeeps ==
    ASSUME Inv, NEW t \in Clerks, Add(t)
    PROVE  Inv'
<1> DEFINE r == req[t]  to == r.what.to  new == r.what.config  seen == r.seen
           first == Known(seen.profiles) = {}
<1>1. /\ Sound /\ SettingsFollowActive /\ TablesOK /\ apart \in BOOLEAN
      /\ r \in Request /\ Fits(r) /\ r.op = "add" /\ Over(t, FALSE)
    BY UncrossedIs DEF Inv, Sound, RestOK, Add
<1>2. /\ profiles \in [Labels -> Profile \cup {None}] /\ config \in Configs /\ sync \subseteq Flags
      /\ to \in Labels /\ new \in Configs /\ seen.config \in Configs /\ first \in BOOLEAN
    BY <1>1, RequestFields DEF TablesOK, Fits
<1>3. RequestsFit'
    BY <1>1, RequestOver
<1>4. \/ UNCHANGED <<profiles, config, sync>>
      \/ /\ to \notin Known(profiles) /\ sync' = sync
         /\ config' = IF first THEN Written(config, seen.config, new) ELSE config
         /\ profiles' = [profiles EXCEPT ![to] = [config |-> new, active |-> first]]
    BY DEF Add, Rollback, tables, Known
<1>5. CASE UNCHANGED <<profiles, config, sync>>
    <2>1. Follow(profiles, config) => Follow(profiles', config')
        BY <1>5 DEF Follow, Known, Active
    <2>2. SettingsFollowActive' /\ apart' \in BOOLEAN
        BY <1>1, <2>1, OverKeeps
    <2> QED BY <1>1, <1>3, <1>5, <2>2 DEF Inv, Sound, TablesOK, RestOK, Over
<1>6. CASE /\ to \notin Known(profiles) /\ sync' = sync
           /\ config' = IF first THEN Written(config, seen.config, new) ELSE config
           /\ profiles' = [profiles EXCEPT ![to] = [config |-> new, active |-> first]]
    <2>1. /\ profiles' \in [Labels -> Profile \cup {None}]
          /\ Known(profiles') = Known(profiles) \cup {to}
          /\ Active(profiles') = IF first THEN Active(profiles) \cup {to} ELSE Active(profiles)
          /\ profiles'[to].config = new
          /\ \A o \in Labels \ {to} : profiles'[o] = profiles[o]
        <3>1. to \in Labels \ Known(profiles)
            BY <1>2, <1>6
        <3>2. PICK p : p = [config |-> new, active |-> first]
            OBVIOUS
        <3>3. p \in Profile /\ p.config = new /\ p.active = first
            BY <1>2, <3>2 DEF Profile
        <3>4. profiles' = With(profiles, to, p)
            BY <1>6, <3>2 DEF With
        <3>5. /\ With(profiles, to, p) \in [Labels -> Profile \cup {None}]
              /\ Known(With(profiles, to, p)) = Known(profiles) \cup {to}
              /\ Active(With(profiles, to, p)) = IF p.active THEN Active(profiles) \cup {to}
                                                              ELSE Active(profiles)
              /\ With(profiles, to, p)[to] = p
              /\ \A o \in Labels \ {to} : With(profiles, to, p)[o] = profiles[o]
            <4>1. /\ profiles \in [Labels -> Profile \cup {None}] /\ to \in Labels
                  /\ p \in Profile /\ to \notin Known(profiles)
                BY <1>2, <3>1, <3>3
            <4> HIDE DEF r, to, new, seen, first
            <4>2. /\ With(profiles, to, p) \in [Labels -> Profile \cup {None}]
                  /\ With(profiles, to, p)[to] = p
                  /\ \A o \in Labels \ {to} : With(profiles, to, p)[o] = profiles[o]
                BY <4>1, NewProfile
            <4>3. Known(With(profiles, to, p)) = Known(profiles) \cup {to}
                BY <4>1, NewProfile
            <4>4. Active(With(profiles, to, p)) = IF p.active THEN Active(profiles) \cup {to}
                                                              ELSE Active(profiles)
                BY <4>1, NewProfile
            <4> QED BY <4>2, <4>3, <4>4
        <3> HIDE DEF r, to, new, seen, first
        <3>6. /\ Known(profiles') = Known(With(profiles, to, p))
              /\ Active(profiles') = Active(With(profiles, to, p))
            BY <3>4 DEF Known, Active
        <3> QED BY <3>3, <3>4, <3>5, <3>6
    <2>2. TablesOK'
        BY <1>2, <1>6, <2>1 DEF TablesOK, Written
    <2>3. ASSUME ~Crossed(r), Follow(profiles, config)
          PROVE  Follow(profiles', config')
        <3>1. Known(seen.profiles) = Known(profiles) /\ seen.config = config
            BY <2>3, <1>1, UncrossedIs DEF Add
        <3>2. CASE first
            <4>1. Active(profiles') = {to}
                BY <2>1, <3>1, <3>2 DEF Active
            <4>2. config' = new
                BY <1>6, <3>1, <3>2 DEF Written
            <4> QED BY <1>2, <2>1, <4>1, <4>2 DEF Follow
        <3>3. CASE ~first
            <4>1. PICK a \in Labels : Active(profiles) = {a} /\ profiles[a].config = config
                BY <2>3, <3>1, <3>3 DEF Follow
            <4>2. a # to
                BY <1>6, <4>1 DEF Active
            <4>3. Active(profiles') = {a} /\ profiles'[a].config = config'
                BY <1>6, <2>1, <3>3, <4>1, <4>2
            <4> QED BY <4>3 DEF Follow
        <3> QED BY <3>2, <3>3
    <2>4. SettingsFollowActive' /\ apart' \in BOOLEAN
        BY <1>1, <2>3, OverKeeps
    <2> QED BY <1>1, <1>3, <2>2, <2>4 DEF Inv, Sound, RestOK, Over
<1> QED BY <1>4, <1>5, <1>6

LEMMA UpdateKeeps ==
    ASSUME Inv, NEW t \in Clerks, Update(t)
    PROVE  Inv'
<1> DEFINE r == req[t]  to == r.what.to  new == r.what.config  seen == r.seen
           was == seen.profiles[to]
<1>1. /\ Sound /\ SettingsFollowActive /\ TablesOK /\ apart \in BOOLEAN
      /\ r \in Request /\ Fits(r) /\ r.op = "update" /\ Over(t, FALSE)
    BY UncrossedIs DEF Inv, Sound, RestOK, Update
<1>2. /\ profiles \in [Labels -> Profile \cup {None}] /\ config \in Configs /\ sync \subseteq Flags
      /\ to \in Known(seen.profiles) /\ to \in Labels
      /\ new \in Configs /\ seen.config \in Configs
    BY <1>1, RequestFields DEF TablesOK, Fits, Known
<1>3. RequestsFit'
    BY <1>1, RequestOver
<1>4. \/ UNCHANGED <<profiles, config, sync>>
      \/ /\ was.config # new => to \in Known(profiles)
         /\ sync' = sync
         /\ config' = IF was.active THEN Written(config, seen.config, new) ELSE config
         /\ profiles' = IF was.config = new THEN profiles ELSE SetConfig(profiles, to, new)
    BY <1>2 DEF Update, Rollback, tables, Known
<1>5. CASE UNCHANGED <<profiles, config, sync>>
    <2>1. Follow(profiles, config) => Follow(profiles', config')
        BY <1>5 DEF Follow, Known, Active
    <2>2. SettingsFollowActive' /\ apart' \in BOOLEAN
        BY <1>1, <2>1, OverKeeps
    <2> QED BY <1>1, <1>3, <1>5, <2>2 DEF Inv, Sound, TablesOK, RestOK, Over
<1>6. CASE /\ was.config # new => to \in Known(profiles)
           /\ sync' = sync
           /\ config' = IF was.active THEN Written(config, seen.config, new) ELSE config
           /\ profiles' = IF was.config = new THEN profiles ELSE SetConfig(profiles, to, new)
    <2>1. TablesOK'
        <3>1. Written(config, seen.config, new) \in Configs
            BY <1>2 DEF Written
        <3>2. was.config # new => SetConfig(profiles, to, new) \in [Labels -> Profile \cup {None}]
            BY <1>2, <1>6, ConfigSet
        <3> HIDE DEF r, to, new, seen, was
        <3> QED BY <1>2, <1>6, <3>1, <3>2 DEF TablesOK
    <2>2. ASSUME ~Crossed(r), Follow(profiles, config)
          PROVE  Follow(profiles', config')
        <3>1. /\ Known(seen.profiles) = Known(profiles) /\ seen.config = config
              /\ was = profiles[to]
            BY <1>2, <2>2, <1>1, UncrossedIs DEF Update
        <3>2. to \in Known(profiles) /\ (to \in Active(profiles) <=> was.active)
            BY <1>2, <3>1 DEF Active
        <3>3. CASE was.active
            <4>1. config' = new
                BY <1>6, <3>1, <3>3 DEF Written
            <4>2. CASE was.config = new
                <5>1. PICK a \in Labels : Active(profiles) = {a} /\ profiles[a].config = config
                    BY <2>2, <3>2 DEF Follow
                <5>2. profiles' = profiles /\ a = to /\ profiles[a].config = new
                    BY <1>6, <3>1, <3>2, <3>3, <4>2, <5>1
                <5> QED BY <4>1, <5>1, <5>2 DEF Follow, Known, Active
            <4>3. CASE was.config # new
                <5>1. profiles' = SetConfig(profiles, to, new)
                    BY <1>6, <4>3
                <5>2. Follow(SetConfig(profiles, to, new), new)
                    BY <1>2, <2>2, <3>2, <3>3, BothSet
                <5> QED BY <4>1, <5>1, <5>2 DEF Follow, Known, Active
            <4> QED BY <4>2, <4>3
        <3>4. CASE ~was.active
            <4>1. config' = config
                BY <1>6, <3>4
            <4>2. Follow(SetConfig(profiles, to, new), config)
                BY <1>2, <2>2, <3>2, <3>4, OtherSet
            <4> HIDE DEF r, to, new, seen, was
            <4> QED BY <1>6, <2>2, <4>1, <4>2 DEF Follow, Known, Active
        <3> QED BY <3>3, <3>4
    <2>3. SettingsFollowActive' /\ apart' \in BOOLEAN
        BY <1>1, <2>2, OverKeeps
    <2> QED BY <1>1, <1>3, <2>1, <2>3 DEF Inv, Sound, RestOK, Over
<1> QED BY <1>4, <1>5, <1>6
LEMMA ActivateKeeps ==
    ASSUME Inv, NEW t \in Clerks, Activate(t)
    PROVE  Inv'
<1> DEFINE r == req[t]  to == r.what.to  new == r.what.config  seen == r.seen
           q == MakeActive(profiles, to, seen.profiles)
<1>1. /\ Sound /\ SettingsFollowActive /\ TablesOK /\ apart \in BOOLEAN
      /\ r \in Request /\ Fits(r) /\ r.op = "activate" /\ Over(t, TRUE)
    BY UncrossedIs DEF Inv, Sound, RestOK, Activate
<1>2. /\ profiles \in [Labels -> Profile \cup {None}] /\ config \in Configs /\ sync \subseteq Flags
      /\ to \in Known(seen.profiles) /\ to \in Labels /\ new = seen.profiles[to].config
      /\ seen.profiles \in [Labels -> Profile \cup {None}]
      /\ new \in Configs /\ seen.config \in Configs /\ seen.sync \subseteq Flags
    BY <1>1, RequestFields DEF TablesOK, Fits, Known
<1>3. RequestsFit'
    BY <1>1, RequestOver
<1>4. \/ UNCHANGED <<profiles, config, sync>>
      \/ /\ profiles' = q
         /\ config' = Written(config, seen.config, new)
         /\ sync' = Switched({}, seen.sync)
    BY DEF Activate, Rollback, tables
<1>5. /\ q \in [Labels -> Profile \cup {None}]
      /\ \A o \in Labels : /\ q[o] # None <=> profiles[o] # None
                           /\ q[o] # None => q[o].config = profiles[o].config
                           /\ q[o].active = IF /\ seen.profiles[o] # None
                                               /\ seen.profiles[o].active # (o = to)
                                               /\ profiles[o] # None
                                            THEN o = to ELSE profiles[o].active
    <2>1. ASSUME NEW o \in Labels, NEW on \in BOOLEAN, profiles[o] # None
          PROVE  /\ [profiles[o] EXCEPT !.active = on] \in Profile
                 /\ [profiles[o] EXCEPT !.active = on] # None
                 /\ [profiles[o] EXCEPT !.active = on].config = profiles[o].config
                 /\ [profiles[o] EXCEPT !.active = on].active = on
        BY <1>2, <2>1, NoneAssumption DEF Profile
    <2>2. \A o \in Labels : (o = to) \in BOOLEAN
        OBVIOUS
    <2> HIDE DEF r, to, new, seen
    <2> QED BY <1>2, <2>1, <2>2 DEF MakeActive
<1>6. TablesOK'
    <2>1. Written(config, seen.config, new) \in Configs /\ Switched({}, seen.sync) \subseteq Flags
        BY <1>2, SwitchedTyped DEF Written
    <2> HIDE DEF r, to, new, seen, q
    <2> QED BY <1>2, <1>4, <1>5, <2>1 DEF TablesOK
<1>7. ASSUME ~Crossed(r)
      PROVE  profiles' = q => Follow(q, Written(config, seen.config, new))
    <2>1. /\ Known(seen.profiles) = Known(profiles)
          /\ Active(seen.profiles) = Active(profiles)
          /\ seen.profiles[to] = profiles[to] /\ seen.config = config
        BY <1>1, <1>2, <1>7, UncrossedIs DEF Activate
    <2>2. \A o \in Known(profiles) : q[o].active <=> o = to
        <3> TAKE o \in Known(profiles)
        <3>1. o \in Labels /\ profiles[o] # None /\ seen.profiles[o] # None
            BY <2>1 DEF Known
        <3>2. profiles[o].active \in BOOLEAN /\ seen.profiles[o].active \in BOOLEAN
            BY <1>2, <3>1 DEF Profile
        <3>3. seen.profiles[o].active <=> profiles[o].active
            BY <2>1, <3>1 DEF Active
        <3>4. q[o].active = IF seen.profiles[o].active # (o = to) THEN o = to
                            ELSE profiles[o].active
            BY <1>5, <3>1
        <3> QED BY <3>2, <3>3, <3>4
    <2>3. Known(q) = Known(profiles)
        BY <1>5 DEF Known
    <2>4. to \in Known(profiles)
        BY <1>2, <2>1
    <2>5. Active(q) = {to}
        BY <2>2, <2>3, <2>4 DEF Active
    <2>6. q[to].config = new
        BY <1>2, <1>5, <2>1, <2>4 DEF Known
    <2>7. Written(config, seen.config, new) = new
        BY <2>1 DEF Written
    <2> QED BY <1>2, <2>5, <2>6, <2>7 DEF Follow
<1>8. SettingsFollowActive' /\ apart' \in BOOLEAN
    <2>1. CASE UNCHANGED <<profiles, config, sync>>
        BY <1>1, <2>1 DEF Over, tables, SettingsFollowActive, Known, Active
    <2>2. CASE /\ profiles' = q /\ config' = Written(config, seen.config, new)
        <3>1. ~Crossed(r) => Follow(profiles', config')
            BY <1>7, <2>2 DEF Follow, Known, Active
        <3> QED BY <1>1, <3>1, OverKeeps
    <2> QED BY <1>4, <2>1, <2>2
<1>9. RestOK'
    BY <1>1, <1>8 DEF RestOK, Over, Sound
<1> QED BY <1>3, <1>6, <1>8, <1>9 DEF Inv, Sound

LEMMA DeleteKeeps ==
    ASSUME Inv, NEW t \in Clerks, Delete(t)
    PROVE  Inv'
<1> DEFINE r == req[t]  to == r.what.to  seen == r.seen
           q == [profiles EXCEPT ![to] = None]
<1>1. /\ Sound /\ SettingsFollowActive /\ TablesOK /\ apart \in BOOLEAN
      /\ r \in Request /\ Fits(r) /\ r.op = "delete" /\ Over(t, FALSE)
    BY UncrossedIs DEF Inv, Sound, RestOK, Delete
<1>2. /\ profiles \in [Labels -> Profile \cup {None}]
      /\ to \in Known(seen.profiles) /\ to \in Labels /\ ~seen.profiles[to].active
    BY <1>1, RequestFields DEF TablesOK, Fits, Known
<1>3. RequestsFit'
    BY <1>1, RequestOver
<1>4. profiles' = q /\ config' = config /\ sync' = sync
    BY DEF Delete
<1>5. /\ q \in [Labels -> Profile \cup {None}] /\ q[to] = None
      /\ \A o \in Labels \ {to} : q[o] = profiles[o]
    BY <1>2
<1>6. ASSUME ~Crossed(r), Follow(profiles, config)
      PROVE  Follow(q, config)
    <2>1. Active(seen.profiles) = Active(profiles)
        BY <1>1, <1>6, UncrossedIs DEF Delete
    <2>2. to \notin Active(profiles)
        BY <1>2, <2>1 DEF Active
    <2>3. Known(q) = Known(profiles) \ {to}
        BY <1>5 DEF Known
    <2>4. Active(q) = Active(profiles)
        <3> HIDE DEF r, to, seen, q
        <3>1. ASSUME NEW l \in Labels \ {to} PROVE l \in Active(q) <=> l \in Active(profiles)
            BY <1>5 DEF Active, Known
        <3>2. to \notin Active(q)
            BY <2>3 DEF Active
        <3>3. Active(q) \subseteq Labels /\ Active(profiles) \subseteq Labels
            BY DEF Active, Known
        <3> QED BY <2>2, <3>1, <3>2, <3>3
    <2>5. ASSUME Known(q) # {} PROVE \E l \in Labels : Active(q) = {l} /\ q[l].config = config
        <3>1. PICK a \in Labels : Active(profiles) = {a} /\ profiles[a].config = config
            BY <1>6, <2>3, <2>5 DEF Follow
        <3>2. a # to
            BY <2>2, <3>1
        <3> QED BY <1>5, <2>4, <3>1, <3>2
    <2> QED BY <2>5 DEF Follow
<1>7. ~Crossed(r) /\ Follow(profiles, config) => Follow(profiles', config')
    BY <1>4, <1>6 DEF Follow, Known, Active
<1>8. SettingsFollowActive' /\ apart' \in BOOLEAN
    BY <1>1, <1>7, OverKeeps
<1>9. TablesOK' /\ RestOK'
    BY <1>1, <1>4, <1>5, <1>8 DEF RestOK, TablesOK, Over, Sound
<1> QED BY <1>3, <1>8, <1>9 DEF Inv, Sound
-----------------------------------------------------------------------------
(* A start, the check of the masters, and the theorems.                    *)

LEMMA BootKeeps ==
    ASSUME Inv, Boot
    PROVE  Inv'
<1>1. /\ Sound /\ profiles \in [Labels -> Profile \cup {None}]
      /\ config \in Configs /\ sync \subseteq Flags
      /\ apart \in BOOLEAN /\ {Default, Legacy} \subseteq Configs
      /\ ~apart => Follow(profiles, config)
    BY ConfigsAssumption, FollowIs DEF Inv, Sound, TablesOK, RestOK
<1>2. RequestsFit'
    BY DEF Boot, RequestsFit
<1>3. config' \in Configs /\ sync' \subseteq Flags
    BY <1>1 DEF Boot
<1>4. Cleared \in [Labels -> Profile \cup {None}]
    BY <1>1 DEF Cleared
<1>5. ~Placeholder => Cleared = profiles /\ config' = config
    BY <1>1 DEF Boot, Cleared
<1>6. \/ profiles' = Cleared
      \/ /\ Known(Cleared) = {}
         /\ \E l \in Labels :
               profiles' = With(Cleared, l, [config |-> config', active |-> TRUE])
      \/ /\ Known(Cleared) # {} /\ Active(Cleared) = {}
         /\ \E l \in Known(Cleared) :
               profiles' = With(Cleared, l, [Cleared[l] EXCEPT !.active = TRUE])
    BY DEF Boot, With
<1>7. profiles' \in [Labels -> Profile \cup {None}]
    <2>1. ASSUME NEW l \in Labels
          PROVE  With(Cleared, l, [config |-> config', active |-> TRUE])
                    \in [Labels -> Profile \cup {None}]
        <3>1. [config |-> config', active |-> TRUE] \in Profile
            BY <1>3 DEF Profile
        <3> QED BY <1>4, <2>1, <3>1, NewProfile
    <2>2. ASSUME NEW l \in Known(Cleared)
          PROVE  With(Cleared, l, [Cleared[l] EXCEPT !.active = TRUE])
                    \in [Labels -> Profile \cup {None}]
        <3>1. l \in Labels /\ Cleared[l] \in Profile
            BY <1>4, ProfileFields
        <3>2. [Cleared[l] EXCEPT !.active = TRUE] \in Profile
            BY <3>1 DEF Profile
        <3> QED BY <1>4, <3>1, <3>2, NewProfile
    <2> QED BY <1>4, <1>6, <2>1, <2>2
<1>8. apart' \in BOOLEAN
    BY <1>1 DEF Boot
<1>9. ASSUME ~apart' PROVE Follow(profiles', config')
    <2>1. ~apart /\ (Known(profiles') = {} \/ ~Placeholder)
        BY <1>1, <1>9 DEF Boot
    <2>2. CASE Known(profiles') = {}
        BY <2>2 DEF Follow
    <2>3. CASE ~Placeholder
        <3>1. Cleared = profiles /\ config' = config /\ Follow(profiles, config)
            BY <1>1, <1>5, <2>1, <2>3
        <3>2. CASE profiles' = Cleared
            BY <3>1, <3>2 DEF Follow, Known, Active
        <3>3. ASSUME Known(Cleared) = {}, NEW l \in Labels,
                     profiles' = With(Cleared, l, [config |-> config', active |-> TRUE])
              PROVE  Follow(profiles', config')
            <4>1. PICK p : p = [config |-> config', active |-> TRUE]
                OBVIOUS
            <4>2. p \in Profile /\ p # None /\ p.config = config' /\ p.active
                <5>1. p \in Profile /\ p.config = config' /\ p.active = TRUE
                    BY <1>3, <4>1 DEF Profile
                <5> QED BY <5>1, NoneAssumption
            <4>3. l \notin Known(Cleared) /\ Active(Cleared) = {}
                BY <3>3 DEF Active
            <4>4. /\ profiles' = With(Cleared, l, p) /\ With(Cleared, l, p)[l] = p
                  /\ Active(With(Cleared, l, p)) = {l}
                BY <1>4, <3>3, <4>1, <4>2, <4>3, NewProfile
            <4>5. Active(profiles') = {l} /\ profiles'[l].config = config'
                BY <4>2, <4>4 DEF Active, Known
            <4> QED BY <4>5 DEF Follow
        <3>4. CASE Known(Cleared) # {} /\ Active(Cleared) = {}
            BY <3>1, <3>4 DEF Follow
        <3> QED BY <1>6, <3>2, <3>3, <3>4
    <2> QED BY <2>1, <2>2, <2>3
<1>10. SettingsFollowActive'
    BY <1>9 DEF SettingsFollowActive, Follow
<1> QED BY <1>2, <1>3, <1>7, <1>8, <1>10 DEF Inv, Sound, TablesOK, RestOK, Boot

LEMMA CheckKeeps ==
    ASSUME Inv, TallyCheck
    PROVE  Inv'
BY DEF Inv, Sound, TablesOK, RestOK, RequestsFit, TallyCheck, tables, SettingsFollowActive,
       Known, Active

LEMMA StutterKeeps ==
    ASSUME Inv, UNCHANGED vars
    PROVE  Inv'
BY DEF Inv, Sound, TablesOK, RestOK, RequestsFit, vars, SettingsFollowActive, Known, Active

LEMMA InitInv == Init => Inv
<1> SUFFICES ASSUME Init PROVE Inv
    OBVIOUS
<1>1. Known(profiles) = {}
    BY DEF Init, Known
<1> QED BY <1>1, ConfigsAssumption DEF Init, Inv, Sound, TablesOK, RestOK, RequestsFit,
                                       SettingsFollowActive

LEMMA InvPreserved == Inv /\ [Next]_vars => Inv'
BY OpenKeeps, SaveKeeps, AddKeeps, UpdateKeeps, ActivateKeeps, DeleteKeeps, BootKeeps,
   CheckKeeps, StutterKeeps DEF Next, Commit

(* Types: a request is about a profile it has seen, or a name it has not.  *)
THEOREM TypeCorrect == Spec => []TypeOK
<1>1. Inv => TypeOK
    BY SoundIsTyped DEF Inv
<1> QED BY <1>1, InitInv, InvPreserved, PTL DEF Spec

(* For any number of companies, configurations and clerks: the settings in *)
(* use are those of the one active company, and an activation nobody       *)
(* disturbs restores that after requests have written over each other.     *)
THEOREM SettingsFollowActiveCorrect == Spec => []SettingsFollowActive
<1>1. Inv => SettingsFollowActive
    BY DEF Inv
<1> QED BY <1>1, InitInv, InvPreserved, PTL DEF Spec

(* No step switches the synchronisation of a kind of batches on while a    *)
(* master of the settings then in use is not confirmed.                    *)
THEOREM SwitchedOnWhenReadyCorrect == Spec => SwitchedOnWhenReady
<1> DEFINE Gate == ~(sync' \subseteq sync) => Ready(config')
<1>1. ASSUME NEW t \in Clerks, Save(t) PROVE Gate
    <2>1. CASE sync' = sync
        BY <2>1
    <2>2. CASE req[t].what.flags = {} /\ sync' = Switched(req[t].what.flags, req[t].seen.sync)
        BY <2>2 DEF Switched
    <2>3. CASE ReadyAfter(Written(config, req[t].seen.config, req[t].what.config))
               /\ config' = Written(config, req[t].seen.config, req[t].what.config)
        BY <2>3 DEF ReadyAfter
    <2> QED BY <1>1, <2>1, <2>2, <2>3 DEF Save, Rollback, tables
<1>2. ASSUME NEW t \in Clerks, Activate(t) PROVE Gate
    BY <1>2 DEF Activate, Rollback, tables, Switched
<1>3. ASSUME NEW t \in Clerks, Add(t) \/ Update(t) \/ Delete(t) PROVE sync' = sync
    BY <1>3 DEF Add, Update, Delete, Rollback, tables
<1>4. ASSUME NEW t \in Clerks, Open(t) PROVE sync' = sync
    BY <1>4 DEF Open, OpenSave, OpenAutosave, OpenAdd, OpenUpdate, OpenActivate, OpenDelete,
                Take, tables
<1>5. ASSUME TallyCheck \/ Boot \/ UNCHANGED vars PROVE sync' = sync
    BY <1>5 DEF TallyCheck, Boot, vars, tables
<1>6. [Next]_vars => [Gate]_vars
    BY <1>1, <1>2, <1>3, <1>4, <1>5 DEF Next, Commit
<1> QED BY <1>6, PTL DEF Spec, SwitchedOnWhenReady
=============================================================================
