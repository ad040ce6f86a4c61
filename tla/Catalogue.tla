----------------------------- MODULE Catalogue ------------------------------
(***************************************************************************)
(* The catalogue of modules, features and actions, which `prisma db seed`  *)
(* brings in line with the definition written in seed.ts: one statement    *)
(* after the other, outside any transaction, run again after a crash and   *)
(* with each release that changes the definition.  Plans, which the seed   *)
(* also writes, are edited by administrators in between.                   *)
(***************************************************************************)
EXTENDS Naturals, Handlers

CONSTANTS
    CatModules, CatFeatures, CatActions,  \* keys, unique in their tables
    Slugs,        \* slugs of the seeded plans
    MaxReleases,  \* bound on the changes of the definition
    MaxEdits      \* bound on the plans saved by administrators

ASSUME CatalogueAssumption ==
    /\ None \notin CatModules /\ MaxReleases \in Nat /\ MaxEdits \in Nat

\* What seed.ts can say: each feature under one module at most, actions only
\* of features that are defined.
Definition ==
    {d \in [modules : SUBSET CatModules,
            home : [CatFeatures -> CatModules \union {None}],
            actions : [CatFeatures -> SUBSET CatActions]] :
        \A f \in CatFeatures :
            /\ d.home[f] \in d.modules \union {None}
            /\ d.home[f] = None => d.actions[f] = {}}

VARIABLES
    release,    \* the definition in the deployed seed.ts
    root,       \* the super admin's row exists
    modules,    \* modules: keys present
    home,       \* features: key -> module of its row
    actions,    \* actions: feature key -> action keys present
    offer,      \* subscription_plans: slug -> row
    planMods,   \* plan_modules: slug -> module keys
    planFeats,  \* plan_features: slug -> feature keys
    seed,       \* the run of the seed
    releases, edits,
    \* History variable.
    synced      \* definition of the last run, when that run finished

catalogueVars == <<release, root, modules, home, actions, offer, planMods, planFeats,
                   seed, releases, edits, synced>>

Resting == [pc |-> "rest"]
Seed ==
    {Resting}
    \union [pc : {"root", "dropModules", "dropFeatures"}, def : Definition]
    \union [pc : {"modules"}, def : Definition, todo : SUBSET CatModules]
    \union [pc : {"features"}, def : Definition, todo : SUBSET CatModules,
            module : CatModules, fs : SUBSET CatFeatures]
    \union [pc : {"strays", "actions"}, def : Definition, todo : SUBSET CatModules,
            module : CatModules, fs : SUBSET CatFeatures,
            feature : CatFeatures, as : SUBSET CatActions]
    \union [pc : {"plans"}, def : Definition, slugs : SUBSET Slugs]

\* The state is well typed, and a plan refers to modules and features that
\* exist, also between two statements of a run.
CatalogueTypeOK ==
    /\ release \in Definition /\ root \in BOOLEAN
    /\ modules \subseteq CatModules
    /\ home \in [CatFeatures -> CatModules \union {None}]
    /\ actions \in [CatFeatures -> SUBSET CatActions]
    /\ offer \in [Slugs -> [active : BOOLEAN, limits : {"seeded", "edited"}] \union {None}]
    /\ planMods \in [Slugs -> SUBSET modules]
    /\ planFeats \in [Slugs -> SUBSET {f \in CatFeatures : home[f] # None}]
    /\ seed \in Seed
    /\ releases \in 0..MaxReleases /\ edits \in 0..MaxEdits
    /\ synced \in Definition \union {None}

\* A migrated and empty database.
CatalogueInit ==
    /\ release \in Definition /\ root = FALSE
    /\ modules = {}
    /\ home = [f \in CatFeatures |-> None]
    /\ actions = [f \in CatFeatures |-> {}]
    /\ offer = [s \in Slugs |-> None]
    /\ planMods = [s \in Slugs |-> {}]
    /\ planFeats = [s \in Slugs |-> {}]
    /\ seed = Resting
    /\ releases = 0 /\ edits = 0
    /\ synced = None

tables == <<modules, home, actions>>
grants == <<planMods, planFeats>>
outside == <<release, releases, edits>>

-----------------------------------------------------------------------------
(* Releases and administrators.                                            *)

Release ==
    /\ releases < MaxReleases
    /\ release' \in Definition \ {release}
    /\ releases' = releases + 1
    /\ UNCHANGED <<root, tables, grants, offer, seed, edits, synced>>

\* What an administrator can make of a plan: its modules and features are
\* foreign keys.
PlanForm ==
    [active : BOOLEAN, modules : SUBSET modules,
     features : SUBSET {f \in CatFeatures : home[f] # None}]

\* PUT admin/subscription-plans/:id: one transaction that replaces the fields,
\* limits, modules and features of a plan.
SavePlan(s) ==
    /\ offer[s] # None /\ edits < MaxEdits
    /\ \E new \in PlanForm :
         /\ offer' = [offer EXCEPT ![s] = [active |-> new.active, limits |-> "edited"]]
         /\ planMods' = [planMods EXCEPT ![s] = new.modules]
         /\ planFeats' = [planFeats EXCEPT ![s] = new.features]
    /\ edits' = edits + 1
    /\ UNCHANGED <<release, releases, root, tables, seed, synced>>

-----------------------------------------------------------------------------
(* The seed, statement by statement.                                       *)

SeedStart ==
    /\ seed = Resting
    /\ seed' = [pc |-> "root", def |-> release]
    /\ synced' = None
    /\ UNCHANGED <<root, tables, grants, offer, outside>>

\* The process stops, or a statement fails.
SeedCrash ==
    /\ seed # Resting
    /\ seed' = Resting
    /\ UNCHANGED <<root, tables, grants, offer, outside, synced>>

SeedRoot ==
    /\ seed.pc = "root"
    /\ root' = TRUE
    /\ seed' = [seed EXCEPT !.pc = "dropModules"]
    /\ UNCHANGED <<tables, grants, offer, outside, synced>>

\* Features go with their module or by name, their actions and the plans'
\* modules and features with them: every foreign key cascades.
Drop(ms, fs) ==
    /\ modules' = modules \ ms
    /\ home' = [f \in CatFeatures |-> IF f \in fs THEN None ELSE home[f]]
    /\ actions' = [f \in CatFeatures |-> IF f \in fs THEN {} ELSE actions[f]]
    /\ planMods' = [s \in Slugs |-> planMods[s] \ ms]
    /\ planFeats' = [s \in Slugs |-> planFeats[s] \ fs]

\* module.deleteMany: a feature that the definition has moved out of a
\* dropped module goes with it and is made again below, without its plans.
SeedDropModules ==
    LET ms == modules \ seed.def.modules IN
    /\ seed.pc = "dropModules"
    /\ Drop(ms, {f \in CatFeatures : home[f] \in ms})
    /\ seed' = [seed EXCEPT !.pc = "dropFeatures"]
    /\ UNCHANGED <<root, offer, outside, synced>>

\* Mutant: features are cleared and made anew with each run.
SeedDropFeaturesAll ==
    /\ seed.pc = "dropFeatures"
    /\ Drop({}, CatFeatures)
    /\ seed' = [pc |-> "modules", def |-> seed.def, todo |-> seed.def.modules]
    /\ UNCHANGED <<root, offer, outside, synced>>

\* feature.deleteMany.
SeedDropFeatures ==
    /\ seed.pc = "dropFeatures"
    /\ Drop({}, {f \in CatFeatures : seed.def.home[f] = None})
    /\ seed' = [pc |-> "modules", def |-> seed.def, todo |-> seed.def.modules]
    /\ UNCHANGED <<root, offer, outside, synced>>

\* module.upsert, for the modules in some order.
SeedModule(m) ==
    /\ seed.pc = "modules" /\ m \in seed.todo
    /\ modules' = modules \union {m}
    /\ seed' = [pc |-> "features", def |-> seed.def, todo |-> seed.todo \ {m}, module |-> m,
                fs |-> {f \in CatFeatures : seed.def.home[f] = m}]
    /\ UNCHANGED <<root, home, actions, grants, offer, outside, synced>>

\* Mutant: a feature that exists keeps its module.
SeedFeatureStays(f) ==
    /\ seed.pc = "features" /\ f \in seed.fs
    /\ home' = [home EXCEPT ![f] = IF @ = None THEN seed.module ELSE @]
    /\ seed' = [pc |-> "strays", def |-> seed.def, todo |-> seed.todo, module |-> seed.module,
                fs |-> seed.fs \ {f}, feature |-> f, as |-> seed.def.actions[f]]
    /\ UNCHANGED <<root, modules, actions, grants, offer, outside, synced>>

\* feature.upsert: a feature that exists is moved to its module.
SeedFeature(f) ==
    /\ seed.pc = "features" /\ f \in seed.fs
    /\ home' = [home EXCEPT ![f] = seed.module]
    /\ seed' = [pc |-> "strays", def |-> seed.def, todo |-> seed.todo, module |-> seed.module,
                fs |-> seed.fs \ {f}, feature |-> f, as |-> seed.def.actions[f]]
    /\ UNCHANGED <<root, modules, actions, grants, offer, outside, synced>>

\* action.deleteMany: actions of the feature that are not in the definition.
SeedStrays ==
    /\ seed.pc = "strays"
    /\ actions' = [actions EXCEPT ![seed.feature] = @ \intersect seed.as]
    /\ seed' = [seed EXCEPT !.pc = "actions"]
    /\ UNCHANGED <<root, modules, home, grants, offer, outside, synced>>

\* action.upsert.
SeedAction(a) ==
    /\ seed.pc = "actions" /\ a \in seed.as
    /\ actions' = [actions EXCEPT ![seed.feature] = @ \union {a}]
    /\ seed' = [seed EXCEPT !.as = @ \ {a}]
    /\ UNCHANGED <<root, modules, home, grants, offer, outside, synced>>

\* The loops move on to the next feature and the next module.
SeedNext ==
    /\ \/ /\ seed.pc = "actions" /\ seed.as = {}
          /\ seed' = [pc |-> "features", def |-> seed.def, todo |-> seed.todo,
                      module |-> seed.module, fs |-> seed.fs]
       \/ /\ seed.pc = "features" /\ seed.fs = {}
          /\ seed' = [pc |-> "modules", def |-> seed.def, todo |-> seed.todo]
    /\ UNCHANGED <<root, tables, grants, offer, outside, synced>>

\* The plans to seed are written in the code, with their limits.
SeedPlans ==
    /\ seed.pc = "modules" /\ seed.todo = {}
    /\ seed' = [pc |-> "plans", def |-> seed.def, slugs |-> Slugs]
    /\ UNCHANGED <<root, tables, grants, offer, outside, synced>>

\* subscriptionPlan.upsert: the plan is on offer again with its seeded limits,
\* whatever an administrator made of it; its modules and features stay.
SeedPlan(s) ==
    /\ seed.pc = "plans" /\ s \in seed.slugs
    /\ offer' = [offer EXCEPT ![s] = [active |-> TRUE, limits |-> "seeded"]]
    /\ seed' = [seed EXCEPT !.slugs = @ \ {s}]
    /\ UNCHANGED <<root, tables, grants, outside, synced>>

SeedDone ==
    /\ seed.pc = "plans" /\ seed.slugs = {}
    /\ seed' = Resting
    /\ synced' = seed.def
    /\ UNCHANGED <<root, tables, grants, offer, outside>>

CatalogueNext ==
    \/ Release \/ SeedStart \/ SeedCrash \/ SeedRoot
    \/ SeedDropModules \/ SeedDropFeatures \/ SeedStrays \/ SeedNext \/ SeedPlans \/ SeedDone
    \/ \E m \in CatModules : SeedModule(m)
    \/ \E f \in CatFeatures : SeedFeature(f)
    \/ \E a \in CatActions : SeedAction(a)
    \/ \E s \in Slugs : SeedPlan(s) \/ SavePlan(s)

CatalogueSpec == CatalogueInit /\ [][CatalogueNext]_catalogueVars

-----------------------------------------------------------------------------
(* Properties.                                                             *)

\* After a run that finished the catalogue is the definition it ran with, no
\* more and no less, whatever crashed runs and releases came before (seed.ts,
\* "upsert defined records, delete anything not in the seed").
SyncedIsDefinition ==
    synced # None =>
        /\ root
        /\ modules = synced.modules /\ home = synced.home /\ actions = synced.actions

\* The seed takes from a plan only modules and features that the definition
\* drops, and features that it moves out of a module it drops.
SeedKeepsGrants ==
    [][seed' # seed =>
        \A s \in Slugs :
            /\ \A m \in planMods[s] \ planMods'[s] : m \notin seed.def.modules
            /\ \A f \in planFeats[s] \ planFeats'[s] :
                  seed.def.home[f] = None \/ home[f] \notin seed.def.modules]_catalogueVars

=============================================================================
