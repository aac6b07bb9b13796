---------------------------- MODULE AttackTemplates ----------------------------
(***************************************************************************)
(* The catalogue of attack templates: the rows of attack_templates and the *)
(* requests that create, change, delete and list them (attack/handlers.go).*)
(*                                                                         *)
(* The catalogue has two sources, the table and the attack modules built   *)
(* into the program; both are addressed by slug.  Every request checks     *)
(* with one statement and writes with another.                             *)
(***************************************************************************)
EXTENDS Naturals, FiniteSets

CONSTANTS
  Tmpls,        (* BOUND: rows the table may hold, as numbers                 *)
  SystemTmpls,  (* those inserted by the seed migration with is_system       *)
  Slugs,        (* slugs in use or asked for                                 *)
  Modules,      (* slugs of the modules in the registry                      *)
  SeedSlug,     (* slug of each system row                                   *)
  MaxExps,      (* BOUND: experiments the tables may hold                    *)
  TmplCreates, TmplUpdates, TmplDeletes,  (* the requests                    *)
  None,         (* no row yet, no slug                                       *)
  Gone          (* a row that was deleted                                    *)

ASSUME TemplatesAssumption ==
  /\ Tmpls \subseteq Nat \ {0}
  /\ IsFiniteSet(Tmpls) /\ IsFiniteSet(Modules)
  /\ SystemTmpls \subseteq Tmpls
  /\ \A t \in SystemTmpls : SeedSlug[t] \in Slugs
  /\ \A t, u \in SystemTmpls : SeedSlug[t] = SeedSlug[u] => t = u
  /\ Modules \subseteq Slugs
  /\ MaxExps \in Nat
  /\ None \notin Slugs \cup Nat
  /\ Gone \notin Slugs \cup {None}
  /\ TmplCreates \cap TmplUpdates = {}
  /\ (TmplCreates \cup TmplUpdates) \cap TmplDeletes = {}

Exps == 1..MaxExps    \* in the order of created_at

VARIABLES
  slug,      (* attack_templates.slug, None or Gone for no row               *)
  active,    (* the rows with is_active                                      *)
  steps,     (* experiment_templates: the templates each experiment uses     *)
  tpc,       (* where each request is                                        *)
  target,    (* the row it is about                                          *)
  newSlug    (* the slug it asks for, None to leave it                       *)

tmplVars == <<slug, active, tpc, target, newSlug>>

TmplRequests == TmplCreates \cup TmplUpdates \cup TmplDeletes

TemplatesTypeOK ==
  /\ slug \in [Tmpls -> Slugs \cup {None, Gone}]
  /\ active \subseteq Tmpls
  /\ steps \in [Exps -> SUBSET Tmpls]
  /\ tpc \in [TmplRequests -> {"idle", "check", "refs", "write", "done"}]
  /\ target \in [TmplRequests -> Tmpls \cup {None}]
  /\ newSlug \in [TmplRequests -> Slugs \cup {None}]

TemplatesInit ==
  /\ slug = [t \in Tmpls |-> IF t \in SystemTmpls THEN SeedSlug[t] ELSE None]
  /\ active = SystemTmpls
  /\ steps = [x \in Exps |-> {}]
  /\ tpc = [p \in TmplRequests |-> "idle"]
  /\ target = [p \in TmplRequests |-> None]
  /\ newSlug = [p \in TmplRequests |-> None]

Stored == {t \in Tmpls : slug[t] \notin {None, Gone}}
FreeTmpls == {t \in Tmpls : slug[t] = None}
SlugTaken(s, except) == \E t \in Stored \ {except} : slug[t] = s
Referenced(t) == \E x \in Exps : t \in steps[x]

TmplGoto(p, from, to) == tpc[p] = from /\ tpc' = [tpc EXCEPT ![p] = to]
TmplReply(p) == tpc' = [tpc EXCEPT ![p] = "done"]

-----------------------------------------------------------------------------
(* CreateTemplateHandler: the slug is looked for in the table and in the   *)
(* registry; the INSERT is a statement of its own.                         *)

CreateTemplateCheck(p) ==
  /\ p \in TmplCreates
  /\ \E s \in Slugs :
       /\ newSlug' = [newSlug EXCEPT ![p] = s]
       /\ TmplGoto(p, "idle", IF SlugTaken(s, None) \/ s \in Modules
                                THEN "done" ELSE "write")
  /\ UNCHANGED <<slug, active, steps, target>>

\* The row that is inserted; the UNIQUE constraint refuses a slug in use.
CreateTemplateInsert(p) ==
  /\ p \in TmplCreates
  /\ TmplGoto(p, "write", "done")
  /\ IF SlugTaken(newSlug[p], None)
       THEN UNCHANGED <<slug, active>>
       ELSE \E t \in FreeTmpls :
              /\ slug' = [slug EXCEPT ![t] = newSlug[p]]
              /\ active' = active \cup {t}
  /\ UNCHANGED <<steps, target, newSlug>>

-----------------------------------------------------------------------------
(* UpdateTemplateHandler and DeleteTemplateHandler.                        *)

\* A row that is missing or belongs to the system ends the request.
LoadTemplate(p) ==
  /\ p \in TmplUpdates \cup TmplDeletes
  /\ \E t \in Tmpls :
       /\ target' = [target EXCEPT ![p] = t]
       /\ TmplGoto(p, "idle", IF t \notin Stored \/ t \in SystemTmpls THEN "done"
                              ELSE IF p \in TmplUpdates THEN "check" ELSE "refs")
  /\ UNCHANGED <<slug, active, steps, newSlug>>

\* Slip: a new slug is compared with the table but not with the registry.
UpdateChecksTableOnly(p) ==
  /\ p \in TmplUpdates
  /\ \E s \in Slugs \cup {None} :
       /\ newSlug' = [newSlug EXCEPT ![p] = s]
       /\ TmplGoto(p, "check", IF s # None /\ SlugTaken(s, target[p])
                                 THEN "done" ELSE "write")
  /\ UNCHANGED <<slug, active, steps, target>>

\* Only a request that changes the slug looks for other users of it.
UpdateTemplateCheck(p) ==
  /\ p \in TmplUpdates
  /\ \E s \in Slugs \cup {None} :
       /\ newSlug' = [newSlug EXCEPT ![p] = s]
       /\ TmplGoto(p, "check",
                   IF s # None /\ (SlugTaken(s, target[p]) \/ s \in Modules)
                     THEN "done" ELSE "write")
  /\ UNCHANGED <<slug, active, steps, target>>

\* WHERE id = $n only; a request may change is_active, the slug or both.
UpdateTemplateWrite(p) ==
  /\ p \in TmplUpdates
  /\ TmplGoto(p, "write", "done")
  /\ LET t == target[p]
         s == IF newSlug[p] = None THEN slug[t] ELSE newSlug[p]
     IN IF t \notin Stored \/ SlugTaken(s, t)
          THEN UNCHANGED <<slug, active>>
          ELSE /\ slug' = [slug EXCEPT ![t] = s]
               /\ active' \in {active, active \cup {t}, active \ {t}}
  /\ UNCHANGED <<steps, target, newSlug>>

DeleteTemplateRefs(p) ==
  /\ p \in TmplDeletes
  /\ TmplGoto(p, "refs", IF Referenced(target[p]) THEN "done" ELSE "write")
  /\ UNCHANGED <<slug, active, steps, target, newSlug>>

\* The foreign key of experiment_templates restricts the DELETE.
DeleteTemplateWrite(p) ==
  /\ p \in TmplDeletes
  /\ TmplGoto(p, "write", "done")
  /\ IF Referenced(target[p])
       THEN UNCHANGED <<slug, active>>
       ELSE /\ slug' = [slug EXCEPT ![target[p]] = Gone]
            /\ active' = active \ {target[p]}
  /\ UNCHANGED <<steps, target, newSlug>>

TemplateStep(p) ==
  \/ CreateTemplateCheck(p)
  \/ CreateTemplateInsert(p)
  \/ LoadTemplate(p)
  \/ UpdateTemplateCheck(p)
  \/ UpdateTemplateWrite(p)
  \/ DeleteTemplateRefs(p)
  \/ DeleteTemplateWrite(p)

-----------------------------------------------------------------------------
(* Lookups and listings.                                                   *)

\* GetTemplateHandler by slug: the table first, then the registry.
Found(s) == SlugTaken(s, None) \/ s \in Modules

\* One answer of ListTemplatesHandler with include_modules: the rows of the
\* page, and the modules whose slug is not the slug of one of these rows.
ModulesBeside(page) == {m \in Modules : \A t \in page : slug[t] # m}

-----------------------------------------------------------------------------
(* Properties.                                                             *)

\* No template written through the handlers has the slug of a built-in module,
\* so a lookup by that slug finds the module or the row the system seeded for
\* it (handlers.go CreateTemplateHandler, UpdateTemplateHandler).
CustomNeverShadowsModule ==
  \A t \in Stored \ SystemTmpls : slug[t] \notin Modules
=============================================================================
