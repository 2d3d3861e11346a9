--------------------------- MODULE SettingsServer ---------------------------
(***************************************************************************)
(* The server of the settings page, app/src/websrv.rs: a listener on       *)
(* loopback that lives for one visit.  Its accept loop waits for the first *)
(* of three things, the owner's stop, the idle deadline and a connection,  *)
(* and every connection is served by a task of its own with a permit and a *)
(* time limit.  The owner is the main thread (Shell).                      *)
(*                                                                         *)
(* Time is kept as three facts: whether the idle time has passed since the *)
(* last request with the right token, whether the deadline that the loop   *)
(* computed from last_seen has passed, and whether last_seen has moved on  *)
(* since then.                                                             *)
(***************************************************************************)
EXTENDS Integers, FiniteSets

CONSTANTS
  Conns,           \* sockets of clients
  MaxConnections,  \* MAX_CONNECTIONS, 32
  MaxErrors        \* MAX_CONSECUTIVE_ACCEPT_ERRORS, 64

ASSUME ServerAssumption ==
  IsFiniteSet(Conns) /\ MaxConnections \in Nat \ {0} /\ MaxErrors \in Nat \ {0}

VARIABLES
  door,    \* the accept loop runs and its listener is bound
  stop,    \* the stop channel was used, or its sender is gone
  idle,    \* last_seen is IDLE_TIMEOUT ago
  stale,   \* last_seen has moved since the loop computed its deadline
  due,     \* that deadline has passed
  pause,   \* the loop sleeps for 50 ms after a failed accept
  errors,  \* consecutive_errors
  conn     \* the sockets

timing == <<idle, stale, due>>
serverVars == <<door, stop, timing, pause, errors, conn>>

\* Who is at the other end: the page that was given the address, somebody
\* without the token, or a socket opened in advance that stays silent.
Clients == {"page", "stranger", "silent"}

\* Not connected; in the backlog; served: until the head is read, and then as
\* long as the form is worked on.  `mine' tells the present server's sockets
\* from those its predecessor is still serving.
Free == [at |-> "none", who |-> "silent", mine |-> TRUE]
Sockets == [at : {"none", "queued", "head", "form"}, who : Clients, mine : BOOLEAN]

ServerTypeOK ==
  /\ door \in BOOLEAN /\ stop \in BOOLEAN /\ pause \in BOOLEAN
  /\ idle \in BOOLEAN /\ stale \in BOOLEAN /\ due \in BOOLEAN
  /\ (idle => due) /\ (due /\ ~stale => idle)
  /\ errors \in 0 .. MaxErrors
  /\ conn \in [Conns -> Sockets]
  /\ Cardinality({c \in Conns : conn[c].mine /\ conn[c].at \in {"head", "form"}})
       <= MaxConnections

ServerInit ==
  /\ door = FALSE /\ stop = FALSE /\ pause = FALSE
  /\ idle = FALSE /\ stale = FALSE /\ due = FALSE
  /\ errors = 0
  /\ conn = [c \in Conns |-> Free]

-----------------------------------------------------------------------------
(* The owner.                                                              *)

\* Server::start: a new listener, token, last_seen and semaphore.  Sockets of
\* the predecessor are served to their end.
Start ==
  /\ door' = TRUE /\ stop' = FALSE /\ idle' = FALSE /\ stale' = FALSE
  /\ due' = FALSE /\ pause' = FALSE /\ errors' = 0
  /\ conn' = [c \in Conns |-> IF conn[c] = Free THEN Free
                                 ELSE [conn[c] EXCEPT !.mine = FALSE]]

\* Server::is_running.
IsRunning == door

\* Server::stop, by Drop.
StopServer == stop' = TRUE

-----------------------------------------------------------------------------
(* The accept loop.                                                        *)

\* The loop returns: its listener goes, and with it whoever was in the backlog.
Return ==
  /\ door' = FALSE
  /\ conn' = [c \in Conns |-> IF conn[c].at = "queued" THEN Free ELSE conn[c]]
  /\ UNCHANGED <<stop, timing, pause>>

\* Back to the top: the deadline is computed anew.
Again == due' = idle /\ stale' = FALSE

Stopped ==
  /\ door /\ ~pause /\ stop
  /\ Return /\ UNCHANGED errors

\* What if the loop believed the deadline it slept until?
Expired_Blind ==
  /\ door /\ ~pause /\ due
  /\ Return /\ UNCHANGED errors

\* The deadline: only if nobody has come with the token in the meantime.
Expired ==
  /\ door /\ ~pause /\ due
  /\ IF idle THEN Return /\ UNCHANGED errors
             ELSE Again /\ UNCHANGED <<door, stop, idle, pause, errors, conn>>

Serving == {c \in Conns : conn[c].mine /\ conn[c].at \in {"head", "form"}}

HasPermit == Cardinality(Serving) < MaxConnections

\* A connection: a task of its own, or beyond the limit a silently closed socket.
Accept(c) ==
  /\ door /\ ~pause
  /\ conn[c].at = "queued"
  /\ conn' = [conn EXCEPT ![c] = IF HasPermit THEN [@ EXCEPT !.at = "head"] ELSE Free]
  /\ errors' = 0
  /\ Again
  /\ UNCHANGED <<door, stop, idle, pause>>

\* A failed accept: a pause, and after too many in a row the end.
AcceptFails ==
  /\ door /\ ~pause
  /\ errors' = errors + 1
  /\ IF errors' >= MaxErrors THEN Return
     ELSE pause' = TRUE /\ UNCHANGED <<door, stop, timing, conn>>

Resume ==
  /\ door /\ pause
  /\ pause' = FALSE /\ Again
  /\ UNCHANGED <<door, stop, idle, errors, conn>>

AcceptLoop == Stopped \/ Expired \/ (\E c \in Conns : Accept(c)) \/ AcceptFails \/ Resume

-----------------------------------------------------------------------------
(* A connection, and the time.                                             *)

\* Inner::touch: only the present server's last_seen matters to its loop.
Touch(c) == IF conn[c].mine THEN idle' = FALSE /\ stale' = TRUE
                            ELSE UNCHANGED <<idle, stale>>

\* What the head is checked for before anything else: it parses, its Host is ours,
\* and its path is the token and no more, compared in constant time.
HasToken(c) == conn[c].who = "page"

\* reply: whatever the answer, the connection is closed behind it.
Reply(c) == conn' = [conn EXCEPT ![c] = Free]

\* A form whose Origin is ours and whose body has been read.
TakeForm(c) == conn' = [conn EXCEPT ![c].at = "form"]

\* What if every request counted as a visit?
ServeOne_TouchFirst(c) ==
  /\ conn[c].at = "head" /\ conn[c].who # "silent"
  /\ Touch(c)
  /\ Reply(c) \/ (HasToken(c) /\ TakeForm(c))
  /\ UNCHANGED <<door, stop, due, pause, errors>>

\* serve_one: whoever has not shown the token gets a 400 or a 404 and leaves no
\* trace; the token is a visit.  Then the page, a 400, 403 or 405, or, for a
\* form, the wait for what handle_post has to do.
ServeOne(c) ==
  /\ conn[c].at = "head"
  /\ \/ /\ conn[c].who = "stranger"
        /\ Reply(c) /\ UNCHANGED <<idle, stale>>
     \/ /\ HasToken(c) /\ Touch(c)
        /\ Reply(c) \/ TakeForm(c)
  /\ UNCHANGED <<door, stop, due, pause, errors>>

\* handle_post has done what the form asks for and rendered the page.
HandlePost(c) ==
  /\ conn[c].at = "form" /\ Reply(c)
  /\ UNCHANGED <<door, stop, timing, pause, errors>>

\* The client goes away, or REQUEST_TIMEOUT cuts the task off wherever it is.
\* Either way the permit goes with the task.
CutOff(c) ==
  /\ conn[c].at \in {"head", "form"}
  /\ conn' = [conn EXCEPT ![c] = Free]
  /\ UNCHANGED <<door, stop, timing, pause, errors>>

\* A client connects.
Connect(c) ==
  /\ door /\ conn[c] = Free
  /\ \E who \in Clients : conn' = [conn EXCEPT ![c] = [Free EXCEPT !.at = "queued", !.who = who]]
  /\ UNCHANGED <<door, stop, timing, pause, errors>>

\* Time passes.  A deadline computed from an older last_seen comes first.
TimePasses ==
  /\ door /\ ~idle
  /\ due' = TRUE
  /\ idle' = (due \/ ~stale)
  /\ UNCHANGED <<door, stop, stale, pause, errors, conn>>

Server ==
  \/ AcceptLoop
  \/ \E c \in Conns : ServeOne(c) \/ HandlePost(c) \/ CutOff(c) \/ Connect(c)
  \/ TimePasses
=============================================================================
