----------------------------- MODULE MCScheduler -----------------------------
(* The instance of Scheduler for TLC: a few sets of requests, each of which *)
(* meets the others of its set in every order.                              *)
EXTENDS Scheduler, TLC

CONSTANTS tc, tu, td, c1, c2, u1, d1, g1, l1, e1, f1, f2, r1, o1, k1, h1, h2,
          custom, other, module, seeded, bare

MCSlugs == {custom, other, module, seeded, bare}
MCSeedSlug == [t \in {1, 2} |-> IF t = 1 THEN seeded ELSE module]

\* Two experiments of one name, a template of the name of another.
MCColumn == [c \in Columns |-> [i \in Exps \cup Tmpls \cup RunIds |->
  CASE c = "created_at"     -> 4 - i
    [] c = "name"           -> 1
    [] c = "updated_at"     -> 1
    [] c = "template name"  -> IF i = 3 THEN 2 ELSE i
    [] c = "run created_at" -> 4 - i]]

MCBodies == {{1, 2}, {3}}

MCTaking == {
  {tc, tu, td},               \* the catalogue alone
  {tc, td, l1},               \* listings, of the catalogue in particular
  {c1, c2, d1, l1},           \* listings of experiments
  {tc, tu, td, c1},           \* steps on templates that come and go
  {c1, d1, g1},               \* an experiment read while it is deleted
  {c1, u1, d1, e1},           \* an execution against a deletion
  {c1, e1, f1, f2, h1},       \* executions of a scheduler beside a user's
  {c1, f1, f2, h1, h2},       \* two schedulers
  {c1, c2, f1, f2, h1},       \* two schedules
  {c1, u1, d1, f1, h1},       \* a schedule that changes in the table
  {c1, r1, k1, f1, h1},       \* a schedule set and cancelled at once
  {c1, o1, d1, f1, h1}        \* a one-time schedule
}

\* An experiment with a schedule and one scheduler.
MCScheduleOnly == {{c1, f1, h1}}
=============================================================================
