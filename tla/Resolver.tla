------------------------------ MODULE Resolver ------------------------------
(***************************************************************************)
(* The resolver of traffic policing (internal/trafpol/resolver.go): one    *)
(* goroutine that runs one update of the allowed names at a time, on       *)
(* request and periodically, and the workers of an update, which look up   *)
(* the names and send changes.  The user takes part in ResolveRequested    *)
(* (Resolve()), UpdateTaken (the updates channel), ResolverStart and       *)
(* CloseResolver (Stop()); TrafPol conjoins them with its own half.        *)
(***************************************************************************)
EXTENDS Naturals, FiniteSets

CONSTANTS
  Names,          \* the allowed DNS names
  IPs,            \* IP addresses
  Answers,        \* sets of addresses a lookup can return
  ResolveTries,   \* lookups of a name in one update
  ResolveTTL,     \* lifetime of a resolved name, in periods of ResolveTimer
  NamesPerWorker  \* an update has one worker more than its names divided by this

ASSUME ResolverAssumption ==
  /\ IsFiniteSet(Names)
  /\ Answers \subseteq SUBSET IPs
  /\ ResolveTries \in Nat \ {0}
  /\ ResolveTTL \in Nat
  /\ NamesPerWorker \in Nat \ {0}

VARIABLES
  rpc,       \* start(): not started, in its select, waiting for the update
             \* after cancel(), returned
  updating,  \* an update is in progress
  upAgain,   \* another one is to follow
  upc,       \* update(): none, waiting for its workers, or in upDone <-
  workers,   \* number of its workers
  job,       \* each name: not in the update, queued, looked up, being sent
  tries,     \* lookups made for it
  ttl,       \* n.TTL in periods of the timer
  ips,       \* n.IPs
  rdone,     \* r.done is closed
  due        \* history: names not looked up since Resolve() was called

resolverVars == <<rpc, updating, upAgain, upc, workers, job, tries, ttl, ips, rdone, due>>

ResolverTypeOK ==
  /\ rpc \in {"nil", "select", "drain", "closed"}
  /\ updating \in BOOLEAN
  /\ upAgain \in BOOLEAN
  /\ upc \in {"none", "running", "done"}
  /\ workers \in Nat
  /\ job \in [Names -> {"none", "queued", "lookup", "offer"}]
  /\ tries \in [Names -> 0 .. ResolveTries]
  /\ ttl \in [Names -> 0 .. ResolveTTL]
  /\ ips \in [Names -> SUBSET IPs]
  /\ rdone \in BOOLEAN
  /\ due \subseteq Names

ResolverInit ==
  /\ rpc = "nil"
  /\ updating = FALSE
  /\ upAgain = FALSE
  /\ upc = "none"
  /\ workers = 0
  /\ job = [n \in Names |-> "none"]
  /\ tries = [n \in Names |-> 0]
  /\ ttl = [n \in Names |-> 0]
  /\ ips = [n \in Names |-> {}]
  /\ rdone = FALSE
  /\ due = {}

ResolverStart ==
  /\ rpc = "nil"
  /\ rpc' = "select"
  /\ UNCHANGED <<updating, upAgain, upc, workers, job, tries, ttl, ips, rdone, due>>

Canceled == rpc \in {"drain", "closed"}

-----------------------------------------------------------------------------
(* go r.update(): with force all names, otherwise those whose lifetime     *)
(* ends within a period of the timer; the lifetime of the others is        *)
(* reduced.                                                                *)
Old(n) == ~(ttl[n] > 1)

Update(force) ==
  LET names == {n \in Names : force \/ Old(n)}
  IN  /\ upc' = "running"
      /\ workers' = (Cardinality(names) \div NamesPerWorker) + 1
      /\ job' = [n \in Names |-> IF n \in names THEN "queued" ELSE "none"]
      /\ ttl' = [n \in Names |-> IF n \in names THEN ttl[n] ELSE ttl[n] - 1]

(* A mutated form: a request that meets an update is dropped. *)
ResolveRequestedOnce ==
  /\ rpc = "select"
  /\ due' = Names
  /\ updating' = TRUE
  /\ IF updating THEN UNCHANGED <<upc, workers, job, ttl>> ELSE Update(TRUE)
  /\ UNCHANGED <<rpc, upAgain, tries, ips, rdone>>

ResolveRequested ==
  /\ rpc = "select"
  /\ due' = Names
  /\ updating' = TRUE
  /\ IF updating
     THEN upAgain' = TRUE /\ UNCHANGED <<upc, workers, job, ttl>>
     ELSE Update(TRUE) /\ UNCHANGED upAgain
  /\ UNCHANGED <<rpc, tries, ips, rdone>>

UpDone ==
  /\ rpc = "select"
  /\ upc = "done"
  /\ upAgain' = FALSE
  /\ updating' = upAgain
  /\ IF upAgain
     THEN Update(TRUE)
     ELSE upc' = "none" /\ workers' = 0 /\ UNCHANGED <<job, ttl>>
  /\ UNCHANGED <<rpc, tries, ips, rdone, due>>

(* The periodic update; the timer is ignored during an update. *)
ResolveTimer ==
  /\ rpc = "select"
  /\ ~updating
  /\ updating' = TRUE
  /\ Update(FALSE)
  /\ UNCHANGED <<rpc, upAgain, tries, ips, rdone, due>>

-----------------------------------------------------------------------------
(* A worker takes a name from the queue and looks it up; a failed lookup   *)
(* is repeated, in the end the old addresses are kept.                     *)
Busy == {n \in Names : job[n] \in {"lookup", "offer"}}

WorkerTakes(n) ==
  /\ upc = "running"
  /\ job[n] = "queued"
  /\ Cardinality(Busy) < workers
  /\ job' = [job EXCEPT ![n] = "lookup"]
  /\ tries' = [tries EXCEPT ![n] = 1]
  /\ due' = due \ {n}
  /\ UNCHANGED <<rpc, updating, upAgain, upc, workers, ttl, ips, rdone>>

LookupFails(n) ==
  /\ job[n] = "lookup"
  /\ IF tries[n] < ResolveTries
     THEN tries' = [tries EXCEPT ![n] = @ + 1] /\ UNCHANGED job
     ELSE job' = [job EXCEPT ![n] = "none"] /\ tries' = [tries EXCEPT ![n] = 0]
  /\ UNCHANGED <<rpc, updating, upAgain, upc, workers, ttl, ips, rdone, due>>

LookupNotFound(n) ==
  /\ job[n] = "lookup"
  /\ job' = [job EXCEPT ![n] = "none"]
  /\ tries' = [tries EXCEPT ![n] = 0]
  /\ ttl' = [ttl EXCEPT ![n] = ResolveTTL]
  /\ UNCHANGED <<rpc, updating, upAgain, upc, workers, ips, rdone, due>>

LookupAnswers(n, a) ==
  /\ job[n] = "lookup"
  /\ ttl' = [ttl EXCEPT ![n] = ResolveTTL]
  /\ ips' = [ips EXCEPT ![n] = a]
  /\ job' = [job EXCEPT ![n] = IF ips[n] = a THEN "none" ELSE "offer"]
  /\ tries' = [tries EXCEPT ![n] = 0]
  /\ UNCHANGED <<rpc, updating, upAgain, upc, workers, rdone, due>>

UpdateTaken(n) ==
  /\ job[n] = "offer"
  /\ job' = [job EXCEPT ![n] = "none"]
  /\ UNCHANGED <<rpc, updating, upAgain, upc, workers, tries, ttl, ips, rdone, due>>

(* A mutated form: a worker that sends does not watch the context. *)
UpdateAbortedNever(n) == FALSE

UpdateAborted(n) == Canceled /\ UpdateTaken(n)

WorkersDone ==
  /\ upc = "running"
  /\ \A n \in Names : job[n] = "none"
  /\ upc' = "done"
  /\ UNCHANGED <<rpc, updating, upAgain, workers, job, tries, ttl, ips, rdone, due>>

-----------------------------------------------------------------------------
(* A mutated form: the resolver does not wait for an update. *)
ResolverDoneAtOnce ==
  /\ rpc = "select"
  /\ rdone
  /\ rpc' = "closed"
  /\ UNCHANGED <<updating, upAgain, upc, workers, job, tries, ttl, ips, rdone, due>>

(* r.done: cancel() and wait for the update in progress. *)
ResolverDone ==
  /\ rpc = "select"
  /\ rdone
  /\ rpc' = IF updating THEN "drain" ELSE "closed"
  /\ UNCHANGED <<updating, upAgain, upc, workers, job, tries, ttl, ips, rdone, due>>

ResolverDrained ==
  /\ rpc = "drain"
  /\ upc = "done"
  /\ upc' = "none"
  /\ rpc' = "closed"
  /\ UNCHANGED <<updating, upAgain, workers, job, tries, ttl, ips, rdone, due>>

CloseResolver ==
  /\ rdone' = TRUE
  /\ UNCHANGED <<rpc, updating, upAgain, upc, workers, job, tries, ttl, ips, due>>

(* A lookup comes to an end, in whatever way. *)
LookupEnds(n) == LookupFails(n) \/ LookupNotFound(n) \/ \E a \in Answers : LookupAnswers(n, a)

ResolverInternal ==
  \/ UpDone \/ ResolveTimer \/ WorkersDone \/ ResolverDone \/ ResolverDrained
  \/ \E n \in Names : WorkerTakes(n) \/ LookupEnds(n) \/ UpdateAborted(n)

=============================================================================
