----------------------------- MODULE ModuleCache -----------------------------
(***************************************************************************)
(* What importing promises a Silver program, whatever files, packages and  *)
(* operators do underneath: imports nest, a module is never loaded while   *)
(* it is being loaded, it is published at most once in a session and keeps *)
(* its identity, a failed load leaves the module unloaded, and no importer *)
(* is ever handed a module that is not published.                          *)
(***************************************************************************)
EXTENDS Naturals, Sequences, SequencesExt

CONSTANTS
  Modules,   \* module identities
  None       \* the module has not been published

VARIABLES
  published,  \* the module object each identity has been given
  active,     \* the loads in progress, innermost last
  seen        \* the modules some import has answered with

cacheVars == <<published, active, seen>>

CacheInit ==
  /\ published = [m \in Modules |-> None]
  /\ active = <<>>
  /\ seen = {}

Begin(m) ==
  /\ published[m] = None
  /\ m \notin Range(active)
  /\ active' = Append(active, m)
  /\ UNCHANGED <<published, seen>>

Publish ==
  /\ active # <<>>
  /\ LET m == Last(active) IN
       /\ published'[m] \notin {None} \cup {published[n] : n \in Modules}
       /\ published' = [published EXCEPT ![m] = published'[m]]
       /\ seen' = seen \cup {m}
  /\ active' = Front(active)

Abandon ==
  /\ active # <<>>
  /\ active' = Front(active)
  /\ UNCHANGED <<published, seen>>

Answer(m) ==
  /\ published[m] # None
  /\ seen' = seen \cup {m}
  /\ UNCHANGED <<published, active>>

CacheNext ==
  \/ \E m \in Modules : Begin(m) \/ Answer(m)
  \/ Publish
  \/ Abandon

CacheSpec == CacheInit /\ [][CacheNext]_cacheVars
=============================================================================
