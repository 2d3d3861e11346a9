------------------------------- MODULE Prober -------------------------------
(***************************************************************************)
(* The cache of upstream probes (bridge/src/probe.rs) when several callers *)
(* use it at once.  A lock guards the cache and the generation, but is not *)
(* held while the two connects are awaited: the world, another caller or   *)
(* an invalidation may come in between.                                    *)
(***************************************************************************)
EXTENDS Routing, Integers

CONSTANTS
  Callers,       \* tasks that may call health() or invalidate()
  Asked,         \* the Upstreams they may ask about
  MaxGeneration  \* bound: the generation wraps after 2^64 invalidations in the
                 \* code, here after MaxGeneration of them

ASSUME AskedAssumption == Asked \subseteq Upstreams
ASSUME GenerationAssumption == MaxGeneration \in Nat \ {0}

Cached == [probed : Asked, health : Health, young : BOOLEAN]

VARIABLES
  alive,       \* the upstreams that answer
  cache,       \* State::cache; `young' is at.elapsed() < ttl
  generation,  \* State::generation
  call,        \* call[c]: the locals of a health() in progress
  steady,      \* history: alive has not changed since the last invalidate
  since        \* history: call[c] began after the last invalidate

proberVars == <<alive, cache, generation, call, steady, since>>

NotCalling == [at |-> "idle"]
Calls ==
  {NotCalling} \cup
  [at : {"probe", "return"}, up : Asked, generation : 0 .. MaxGeneration,
   health : [socks : Reachability \cup {None}, http : Reachability \cup {None}]]

ProberTypeOK ==
  /\ alive \subseteq Addrs
  /\ cache \in Cached \cup {None}
  /\ generation \in 0 .. MaxGeneration
  /\ call \in [Callers -> Calls]
  /\ steady \in BOOLEAN /\ since \in [Callers -> BOOLEAN]

Probe(addr) ==
  IF addr = None THEN "unknown" ELSE IF addr \in alive THEN "up" ELSE "down"

Truth(up) == [socks |-> Probe(up.socks), http |-> Probe(up.http)]

\* The cache answers for the addresses it was asked about, while it is young.
Hit(up) == cache # None /\ cache.young /\ cache.probed = up

\* health(), under the lock: answer from the cache, or note the generation.
Begin(c, up) ==
  /\ call[c] = NotCalling
  /\ call' = [call EXCEPT ![c] =
       IF Hit(up)
       THEN [at |-> "return", up |-> up, generation |-> generation,
             health |-> cache.health]
       ELSE [at |-> "probe", up |-> up, generation |-> generation,
             health |-> [socks |-> None, http |-> None]]]
  /\ since' = [since EXCEPT ![c] = TRUE]
  /\ UNCHANGED <<alive, cache, generation, steady>>

\* One of the two concurrent connects ends.
ProbeOne(c, which) ==
  /\ call[c].at = "probe" /\ call[c].health[which] = None
  /\ call' = [call EXCEPT ![c].health[which] = Probe(call[c].up[which])]
  /\ UNCHANGED <<alive, cache, generation, steady, since>>

\* What if a late result were written back whatever happened meanwhile?
MayRemember_Always(c) == TRUE

\* A result that was under way when the cache was invalidated stays out of it.
MayRemember(c) == call[c].generation = generation

\* What if the first answer were enough?
BothAnswered_First(c) == \E which \in {"socks", "http"} : call[c].health[which] # None

BothAnswered(c) == \A which \in {"socks", "http"} : call[c].health[which] # None

\* Both connects are over; under the lock again.
Settle(c) ==
  /\ call[c].at = "probe" /\ BothAnswered(c)
  /\ cache' = IF MayRemember(c)
              THEN [probed |-> call[c].up, health |-> call[c].health, young |-> TRUE]
              ELSE cache
  /\ call' = [call EXCEPT ![c].at = "return"]
  /\ UNCHANGED <<alive, generation, steady, since>>

\* The caller has its answer; a call dropped at the await leaves no trace either.
Return(c) ==
  /\ call[c].at \in {"probe", "return"}
  /\ call' = [call EXCEPT ![c] = NotCalling]
  /\ UNCHANGED <<alive, cache, generation, steady, since>>

Invalidate ==
  /\ generation < MaxGeneration
  /\ cache' = None
  /\ generation' = generation + 1
  /\ steady' = TRUE
  /\ since' = [c \in Callers |-> FALSE]
  /\ UNCHANGED <<alive, call>>

\* The time to live passes.
Age ==
  /\ cache # None /\ cache.young
  /\ cache' = [cache EXCEPT !.young = FALSE]
  /\ UNCHANGED <<alive, generation, call, steady, since>>

\* An upstream comes or goes.
World ==
  /\ alive' \in SUBSET Addrs /\ alive' # alive
  /\ steady' = FALSE
  /\ UNCHANGED <<cache, generation, call, since>>

ProberInit ==
  /\ alive \in SUBSET Addrs
  /\ cache = None
  /\ generation = 0
  /\ call = [c \in Callers |-> NotCalling]
  /\ steady = TRUE
  /\ since = [c \in Callers |-> TRUE]

ProberNext ==
  \/ \E c \in Callers :
       \/ \E up \in Asked : Begin(c, up)
       \/ \E which \in {"socks", "http"} : ProbeOne(c, which)
       \/ Settle(c) \/ Return(c)
  \/ Invalidate \/ Age \/ World

ProberSpec == ProberInit /\ [][ProberNext]_proberVars

-----------------------------------------------------------------------------
(* Properties.                                                             *)

\* After an invalidation nothing older answers: a call that began after it, in a
\* world that has not changed since, returns what is true of its own addresses,
\* whatever calls were under way before.
FreshAfterInvalidate ==
  \A c \in Callers :
    call[c].at = "return" /\ since[c] /\ steady => call[c].health = Truth(call[c].up)
=============================================================================
