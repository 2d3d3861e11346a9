------------------------------- MODULE Bridge -------------------------------
(***************************************************************************)
(* The bridge as its clients and the supervisor see it                     *)
(* (bridge/src/serve.rs): the accept loop, the limit on connections, the   *)
(* one look a connection takes at the published route, and the answers.    *)
(* The bytes that flow through one connection are in Relay.                *)
(*                                                                         *)
(* The router and the semaphore are shared by all connections and are each *)
(* used in one atomic step; everything else belongs to one connection.     *)
(***************************************************************************)
EXTENDS Routing, Integers, Sequences, FiniteSets

CONSTANTS
  Clients,          \* connections that may come, each again after it is over
  Hosts, Bypass,    \* destinations, and those the bypass list matches
  MaxConnections,   \* Limits::max_connections
  MaxAcceptErrors,  \* MAX_CONSECUTIVE_ACCEPT_ERRORS, 640 in the code
  PauseAfter,       \* TRANSIENT_ERROR_SLEEP_THRESHOLD, 64 in the code
  Published,        \* the routes the supervisor publishes
  MaxSeen           \* bound: publications while one connection waits for its head

ASSUME LimitsAssumption ==
  /\ MaxConnections \in Nat \ {0}
  /\ MaxAcceptErrors \in Nat \ {0}
  /\ PauseAfter \in Nat \ {0}
ASSUME SetsAssumption == IsFiniteSet(Clients) /\ Bypass \subseteq Hosts /\ Published \subseteq Routes

VARIABLES
  loop,       \* serve(): "accepting", "pausing" for 50 ms, or "stopped"
  errors,     \* consecutive_errors
  transient,  \* consecutive_transient_errors, PauseAfter standing for any more
  outcomes,   \* history: the last MaxAcceptErrors of the accepted and the hard errors
  router,     \* the published route
  permits,    \* the semaphore
  at,         \* at[c]: where the connection is
  request,    \* request[c]: what its head asked for, or None
  via,        \* via[c]: the route picked for it, or None
  status,     \* status[c]: the status it was answered with, 0 for no answer
  seen        \* history: the routes published from its accept until its pick

loopVars == <<loop, errors, transient, outcomes>>
connVars == <<at, request, via, status, seen>>
vars == <<loop, errors, transient, outcomes, router, permits, at, request, via, status, seen>>

Requests == [kind : {"connect", "plain"}, host : Hosts]
Stages == {"away", "knocking", "accepted", "head", "dial", "opening", "relaying",
           "replying", "refusing"}

TypeOK ==
  /\ loop \in {"accepting", "pausing", "stopped"}
  /\ errors \in 0 .. MaxAcceptErrors /\ transient \in 0 .. PauseAfter
  /\ outcomes \in Seq({"ok", "hard"})
  /\ router \in Published
  /\ permits \in 0 .. MaxConnections
  /\ at \in [Clients -> Stages]
  /\ request \in [Clients -> Requests \cup {None}]
  /\ via \in [Clients -> Routes \cup {None}]
  /\ status \in [Clients -> {0, 200, 400, 408, 502, 503}]
  /\ seen \in [Clients -> Seq(Published)]

Remember(outcome) ==
  LET all == Append(outcomes, outcome)
  IN  outcomes' = IF Len(all) > MaxAcceptErrors THEN Tail(all) ELSE all

Move(c, to) == at' = [at EXCEPT ![c] = to]
Answer(c, code) == status' = [status EXCEPT ![c] = code]

-----------------------------------------------------------------------------
(* The accept loop.                                                        *)

\* What if a success did not clear the count of errors?
AcceptedOk_Grudging == errors' = errors /\ transient' = 0 /\ Remember("ok")

AcceptedOk == errors' = 0 /\ transient' = 0 /\ Remember("ok")

\* accept() returns a connection; a task of its own takes it from here.
Accept(c) ==
  /\ loop = "accepting" /\ at[c] = "knocking"
  /\ AcceptedOk
  /\ Move(c, "accepted")
  /\ seen' = [seen EXCEPT ![c] = <<router>>]
  /\ UNCHANGED <<loop, router, permits, request, via, status>>

\* An error that concerns one connection only: never counted, never a reason to
\* stop, but after many in a row the loop breathes before it goes on.
TransientError ==
  /\ loop = "accepting"
  /\ transient' = IF transient < PauseAfter THEN transient + 1 ELSE transient
  /\ loop' = IF transient' >= PauseAfter THEN "pausing" ELSE loop
  /\ UNCHANGED <<errors, outcomes, router, permits, connVars>>

\* Any other error: out of descriptors, or the listener itself is broken.
HardError ==
  /\ loop = "accepting"
  /\ errors' = errors + 1
  /\ Remember("hard")
  /\ loop' = IF errors' >= MaxAcceptErrors THEN "stopped" ELSE "pausing"
  /\ UNCHANGED <<transient, router, permits, connVars>>

Resume ==
  /\ loop = "pausing" /\ loop' = "accepting"
  /\ UNCHANGED <<errors, transient, outcomes, router, permits, connVars>>

-----------------------------------------------------------------------------
(* A connection.                                                           *)

Knock(c) ==
  /\ at[c] = "away" /\ Move(c, "knocking")
  /\ UNCHANGED <<loopVars, router, permits, request, via, status, seen>>

\* What if the permit were dropped as soon as it is acquired (`Ok(_)')?
Admit_Dropped(c) ==
  /\ at[c] = "accepted"
  /\ \/ permits > 0 /\ Move(c, "head") /\ UNCHANGED status
     \/ permits = 0 /\ Move(c, "refusing") /\ Answer(c, 503)
  /\ UNCHANGED <<loopVars, router, permits, request, via, seen>>

\* try_acquire_owned: past the limit the client is told so at once.
Admit(c) ==
  /\ at[c] = "accepted"
  /\ \/ /\ permits > 0 /\ permits' = permits - 1
        /\ Move(c, "head") /\ UNCHANGED status
     \/ /\ permits = 0 /\ UNCHANGED permits
        /\ Move(c, "refusing") /\ Answer(c, 503)
  /\ UNCHANGED <<loopVars, router, request, via, seen>>

PickRoute(host) == IF host \in Bypass THEN DirectRoute ELSE router

\* The head is complete and makes sense: the route is picked there and then.
ReadHead(c, req) ==
  /\ at[c] = "head" /\ Move(c, "dial")
  /\ request' = [request EXCEPT ![c] = req]
  /\ via' = [via EXCEPT ![c] = PickRoute(req.host)]
  /\ UNCHANGED <<loopVars, router, permits, status, seen>>

\* Too large, cut short, unreadable, a response line, a target that is no target.
BadHead(c) ==
  /\ at[c] = "head" /\ Move(c, "replying") /\ Answer(c, 400)
  /\ UNCHANGED <<loopVars, router, permits, request, via, seen>>

\* What if nothing limited the wait for the head?
HeadTimeout_Never(c) == FALSE /\ UNCHANGED vars

HeadTimeout(c) ==
  /\ at[c] = "head" /\ Move(c, "replying") /\ Answer(c, 408)
  /\ UNCHANGED <<loopVars, router, permits, request, via, seen>>

Dialed(c) ==
  /\ at[c] = "dial" /\ Move(c, "opening")
  /\ UNCHANGED <<loopVars, router, permits, request, via, status, seen>>

\* What if a dead upstream were quietly passed by?
DialFailed_Fallback(c) ==
  /\ at[c] = "dial" /\ Move(c, "opening")
  /\ via' = [via EXCEPT ![c] = DirectRoute]
  /\ UNCHANGED <<loopVars, router, permits, request, status, seen>>

\* Refused, answered with another status or with nonsense, or the dial timeout:
\* the client gets an error, and no other way is tried.
DialFailed(c) ==
  /\ at[c] = "dial" /\ Move(c, "replying") /\ Answer(c, 502)
  /\ UNCHANGED <<loopVars, router, permits, request, via, seen>>

\* CONNECT is answered with 200, a plain request is sent on; then bytes flow.
Open(c) ==
  /\ at[c] = "opening" /\ Move(c, "relaying")
  /\ IF request[c].kind = "connect" THEN Answer(c, 200) ELSE UNCHANGED status
  /\ UNCHANGED <<loopVars, router, permits, request, via, seen>>

Forget(c) ==
  /\ request' = [request EXCEPT ![c] = None]
  /\ via' = [via EXCEPT ![c] = None]
  /\ status' = [status EXCEPT ![c] = 0]
  /\ seen' = [seen EXCEPT ![c] = <<>>]

\* The write that opens the relay fails: a CONNECT ends without a word, for a
\* plain request it is the upstream's failure and is reported.
OpenFailed(c) ==
  /\ at[c] = "opening"
  /\ \/ /\ request[c].kind = "connect"
        /\ Move(c, "away") /\ permits' = permits + 1 /\ Forget(c)
     \/ /\ request[c].kind = "plain"
        /\ Move(c, "replying") /\ Answer(c, 502)
        /\ UNCHANGED <<permits, request, via, seen>>
  /\ UNCHANGED <<loopVars, router>>

\* Either side is done or gone, while relaying or while being answered: handle()
\* returns and the permit is dropped.  The relay itself has no idle timeout.
End(c) ==
  /\ at[c] \in {"relaying", "replying"}
  /\ Move(c, "away") /\ permits' = permits + 1 /\ Forget(c)
  /\ UNCHANGED <<loopVars, router>>

\* What if a refused connection gave a permit back as well?
RefusalSent_Returns(c) ==
  /\ at[c] = "refusing"
  /\ Move(c, "away") /\ permits' = permits + 1 /\ Forget(c)
  /\ UNCHANGED <<loopVars, router>>

\* The 503 is out and drained; this task never had a permit.
RefusalSent(c) ==
  /\ at[c] = "refusing"
  /\ Move(c, "away") /\ Forget(c)
  /\ UNCHANGED <<loopVars, router, permits>>

\* The supervisor publishes another route (Router::set_if_changed).
Publish(route) ==
  LET waiting == {c \in Clients : at[c] \in {"accepted", "head"}}
  IN  /\ route # router /\ \A c \in waiting : Len(seen[c]) < MaxSeen
      /\ router' = route
      /\ seen' = [c \in Clients |-> IF c \in waiting THEN Append(seen[c], route) ELSE seen[c]]
      /\ UNCHANGED <<loopVars, permits, at, request, via, status>>

-----------------------------------------------------------------------------
Init ==
  /\ loop = "accepting" /\ errors = 0 /\ transient = 0 /\ outcomes = <<>>
  /\ router \in Published
  /\ permits = MaxConnections
  /\ at = [c \in Clients |-> "away"]
  /\ request = [c \in Clients |-> None]
  /\ via = [c \in Clients |-> None]
  /\ status = [c \in Clients |-> 0]
  /\ seen = [c \in Clients |-> <<>>]

Next ==
  \/ TransientError \/ HardError \/ Resume
  \/ \E route \in Published : Publish(route)
  \/ \E c \in Clients :
       \/ Knock(c) \/ Accept(c) \/ Admit(c)
       \/ \E req \in Requests : ReadHead(c, req)
       \/ BadHead(c) \/ HeadTimeout(c)
       \/ Dialed(c) \/ DialFailed(c) \/ Open(c) \/ OpenFailed(c)
       \/ End(c) \/ RefusalSent(c)

Spec == Init /\ [][Next]_vars

\* What the runtime and its timers give: a task that can run does, timeouts fire,
\* a response is written or fails and is drained within its budget.  Nothing makes
\* a client send its head, an upstream answer, or a relay end; and a listener that
\* keeps being asked eventually returns the connection that waits.
Fairness ==
  /\ WF_vars(Resume)
  /\ \A c \in Clients :
       /\ SF_vars(Accept(c)) /\ WF_vars(Admit(c))
       /\ WF_vars(HeadTimeout(c)) /\ WF_vars(DialFailed(c))
       /\ WF_vars(Open(c) \/ OpenFailed(c))
       /\ WF_vars(at[c] = "replying" /\ End(c)) /\ WF_vars(RefusalSent(c))

FairSpec == Spec /\ Fairness

-----------------------------------------------------------------------------
(* Properties.                                                             *)

\* The connections that hold a permit: from the admission to the end of handle().
Holders == {c \in Clients : at[c] \in {"head", "dial", "opening", "relaying", "replying"}}

\* Every way out of a connection gives its permit back, and none gives it back
\* twice: a leak would end in 503 for everyone, the opposite in no limit at all.
PermitsAreReturned == permits + Cardinality(Holders) = MaxConnections

\* A connection runs through one route to its end: the direct one for a host on the
\* bypass list, otherwise one that was published while the connection waited, and
\* never past a dead upstream (no silent fallback).
RouteIsHonest ==
  \A c \in Clients : at[c] \in {"opening", "relaying"} =>
    IF request[c].host \in Bypass
    THEN via[c] = DirectRoute
    ELSE \E i \in 1 .. Len(seen[c]) : via[c] = seen[c][i]

\* The loop gives up exactly when MaxAcceptErrors hard errors came with no accepted
\* connection between them; errors of single connections are not among them.
StopsOnlyWhenBroken ==
  loop = "stopped" <=>
    Len(outcomes) = MaxAcceptErrors /\ \A i \in 1 .. MaxAcceptErrors : outcomes[i] = "hard"

\* Nobody hangs: who knocks is taken in unless the bridge gives up, and whoever is
\* taken in is soon relayed or rid of, however silent the client and the upstream.
NobodyHangs ==
  \A c \in Clients :
    /\ at[c] = "knocking" ~> at[c] # "knocking" \/ loop = "stopped"
    /\ at[c] \in {"accepted", "head", "dial", "opening"} ~>
         at[c] \in {"relaying", "replying", "refusing", "away"}
=============================================================================
