---------------------------- MODULE BridgeProofs ----------------------------
(***************************************************************************)
(* What TLAPS proves about Bridge: for any finite set of connections, any  *)
(* limits, any bypass list and any routes the supervisor publishes; and    *)
(* about Relay, the bytes of one of these connections: for any scripts,    *)
(* any payload, any size of a read and any limit on a head.                *)
(***************************************************************************)
EXTENDS Bridge, Relay, Prober, FiniteSetTheorems, SequenceTheorems, WellFoundedInduction, TLAPS

-----------------------------------------------------------------------------
(* The accept loop.                                                        *)

\* `errors' counts the hard errors at the end of the history: the loop stops
\* when nothing else is left in it.
Counted ==
  /\ loop \in {"accepting", "pausing", "stopped"}
  /\ errors \in 0 .. MaxAcceptErrors /\ transient \in 0 .. PauseAfter
  /\ outcomes \in Seq({"ok", "hard"})
  /\ errors <= Len(outcomes) /\ Len(outcomes) <= MaxAcceptErrors
  /\ \A k \in 0 .. errors - 1 : outcomes[Len(outcomes) - k] = "hard"
  /\ errors < Len(outcomes) => outcomes[Len(outcomes) - errors] = "ok"
  /\ loop = "stopped" <=> errors = MaxAcceptErrors

\* The history read from its end: the new outcome, then the older ones.
LEMMA RememberShifts ==
  ASSUME outcomes \in Seq({"ok", "hard"}), Len(outcomes) <= MaxAcceptErrors,
         NEW o \in {"ok", "hard"}, Remember(o)
  PROVE  /\ outcomes' \in Seq({"ok", "hard"})
         /\ Len(outcomes') = IF Len(outcomes) = MaxAcceptErrors
                             THEN MaxAcceptErrors ELSE Len(outcomes) + 1
         /\ outcomes'[Len(outcomes')] = o
         /\ \A k \in 1 .. Len(outcomes') - 1 :
              outcomes'[Len(outcomes') - k] = outcomes[Len(outcomes) + 1 - k]
<1> DEFINE all == Append(outcomes, o)
<1>1. /\ all \in Seq({"ok", "hard"}) /\ Len(all) = Len(outcomes) + 1 /\ all # <<>>
      /\ \A i \in 1 .. Len(outcomes) : all[i] = outcomes[i]
      /\ all[Len(outcomes) + 1] = o /\ Len(outcomes) \in Nat /\ MaxAcceptErrors \in Nat \ {0}
  BY AppendProperties, LimitsAssumption
<1>2. outcomes' = IF Len(all) > MaxAcceptErrors THEN Tail(all) ELSE all
  BY DEF Remember
<1>3. CASE Len(outcomes) = MaxAcceptErrors
  <2>1. /\ outcomes' = Tail(all) /\ Tail(all) \in Seq({"ok", "hard"})
        /\ Len(Tail(all)) = Len(outcomes)
        /\ \A i \in 1 .. Len(Tail(all)) : Tail(all)[i] = all[i + 1]
    BY <1>1, <1>2, <1>3, HeadTailProperties
  <2> HIDE DEF all
  <2> QED BY <1>1, <1>3, <2>1
<1>4. CASE Len(outcomes) # MaxAcceptErrors
  <2>1. outcomes' = all
    BY <1>1, <1>2, <1>4
  <2> HIDE DEF all
  <2> QED BY <1>1, <1>4, <2>1
<1> QED BY <1>3, <1>4

LEMMA InitCounted == Init => Counted
  BY LimitsAssumption, EmptySeq DEF Init, Counted

LEMMA AcceptedCounted ==
  ASSUME Counted, AcceptedOk, loop = "accepting", UNCHANGED loop
  PROVE  Counted'
<1>1. Remember("ok") /\ errors' = 0 /\ transient' = 0
  BY DEF AcceptedOk
<1>2. /\ outcomes' \in Seq({"ok", "hard"}) /\ outcomes'[Len(outcomes')] = "ok"
      /\ Len(outcomes') \in 1 .. MaxAcceptErrors
  BY <1>1, RememberShifts, LimitsAssumption DEF Counted
<1> QED BY <1>1, <1>2, LimitsAssumption DEF Counted

LEMMA HardErrorCounted == ASSUME Counted, HardError PROVE Counted'
<1> DEFINE L == Len(outcomes)
           L1 == Len(outcomes')
<1>1. /\ loop = "accepting" /\ errors' = errors + 1 /\ Remember("hard") /\ transient' = transient
      /\ loop' = IF errors' >= MaxAcceptErrors THEN "stopped" ELSE "pausing"
  BY DEF HardError
<1>2. /\ errors \in 0 .. MaxAcceptErrors - 1 /\ L \in errors .. MaxAcceptErrors
      /\ MaxAcceptErrors \in Nat \ {0}
  BY <1>1, LimitsAssumption DEF Counted
<1>3. /\ outcomes' \in Seq({"ok", "hard"})
      /\ L1 = IF L = MaxAcceptErrors THEN MaxAcceptErrors ELSE L + 1
      /\ outcomes'[L1] = "hard"
      /\ \A k \in 1 .. L1 - 1 : outcomes'[L1 - k] = outcomes[L + 1 - k]
  BY <1>1, RememberShifts DEF Counted
<1>4. ASSUME NEW k \in 0 .. errors' - 1 PROVE outcomes'[L1 - k] = "hard"
  <2>1. CASE k = 0
    BY <1>2, <1>3, <2>1
  <2>2. CASE k # 0
    <3>1. k \in 1 .. L1 - 1 /\ k - 1 \in 0 .. errors - 1 /\ L + 1 - k = L - (k - 1)
      BY <1>1, <1>2, <1>3, <2>2
    <3> QED BY <1>3, <3>1 DEF Counted
  <2> QED BY <2>1, <2>2
<1>5. ASSUME errors' < L1 PROVE outcomes'[L1 - errors'] = "ok"
  <2>1. errors' \in 1 .. L1 - 1 /\ errors < L /\ L + 1 - errors' = L - errors
    BY <1>1, <1>2, <1>3, <1>5
  <2> QED BY <1>3, <2>1 DEF Counted
<1>6. /\ errors' \in 0 .. MaxAcceptErrors /\ errors' <= L1 /\ L1 <= MaxAcceptErrors
      /\ loop' \in {"pausing", "stopped"} /\ (loop' = "stopped" <=> errors' = MaxAcceptErrors)
  BY <1>1, <1>2, <1>3
<1> QED BY <1>1, <1>3, <1>4, <1>5, <1>6 DEF Counted

LEMMA CountedIsInductive == Counted /\ [Next]_vars => Counted'
<1> SUFFICES ASSUME Counted, [Next]_vars PROVE Counted'
  OBVIOUS
<1>1. CASE TransientError
  <2>1. UNCHANGED <<errors, outcomes>> /\ transient' \in 0 .. PauseAfter
    BY <1>1, LimitsAssumption DEF TransientError, Counted
  <2>2. loop = "accepting" /\ loop' \in {"accepting", "pausing"}
    BY <1>1 DEF TransientError
  <2> QED BY <2>1, <2>2 DEF Counted
<1>2. CASE HardError
  BY <1>2, HardErrorCounted
<1>3. CASE Resume
  BY <1>3 DEF Resume, Counted
<1>4. ASSUME NEW c \in Clients, Accept(c) PROVE Counted'
  BY <1>4, AcceptedCounted DEF Accept
<1>5. ASSUME UNCHANGED loopVars PROVE Counted'
  BY <1>5 DEF loopVars, Counted
<1>6. ASSUME NEW route \in Published, Publish(route) PROVE UNCHANGED loopVars
  BY <1>6 DEF Publish
<1>7. ASSUME NEW c \in Clients,
             \/ Knock(c) \/ Admit(c) \/ BadHead(c) \/ HeadTimeout(c) \/ Dialed(c) \/ DialFailed(c)
             \/ Open(c) \/ OpenFailed(c) \/ End(c) \/ RefusalSent(c)
             \/ \E req \in Requests : ReadHead(c, req)
      PROVE  UNCHANGED loopVars
  BY <1>7 DEF Knock, Admit, BadHead, HeadTimeout, Dialed, DialFailed, Open, OpenFailed, End,
              RefusalSent, ReadHead
<1>8. CASE UNCHANGED vars
  BY <1>8, <1>5 DEF vars, loopVars
<1> QED BY <1>1, <1>2, <1>3, <1>4, <1>5, <1>6, <1>7, <1>8 DEF Next

\* The bridge gives up its listener exactly when MAX_CONSECUTIVE_ACCEPT_ERRORS
\* hard errors have come in a row: errors that concern one connection use nothing
\* of that budget, and one accepted connection restores all of it.
THEOREM LoopStopsOnlyWhenBroken == Spec => []StopsOnlyWhenBroken
<1>1. ASSUME Counted PROVE StopsOnlyWhenBroken
  <2>1. /\ errors \in 0 .. MaxAcceptErrors /\ Len(outcomes) \in errors .. MaxAcceptErrors
        /\ MaxAcceptErrors \in Nat \ {0}
    BY <1>1, LimitsAssumption DEF Counted
  <2>2. ASSUME loop = "stopped", NEW i \in 1 .. MaxAcceptErrors PROVE outcomes[i] = "hard"
    <3>1. errors = MaxAcceptErrors /\ Len(outcomes) = MaxAcceptErrors
      BY <1>1, <2>1, <2>2 DEF Counted
    <3>2. MaxAcceptErrors - i \in 0 .. errors - 1 /\ Len(outcomes) - (MaxAcceptErrors - i) = i
      BY <2>1, <3>1
    <3> QED BY <1>1, <3>2 DEF Counted
  <2>3. ASSUME Len(outcomes) = MaxAcceptErrors,
               \A i \in 1 .. MaxAcceptErrors : outcomes[i] = "hard"
        PROVE  loop = "stopped"
    <3>1. SUFFICES ASSUME errors < MaxAcceptErrors PROVE FALSE
      BY <1>1, <2>1 DEF Counted
    <3>2. Len(outcomes) - errors \in 1 .. MaxAcceptErrors
      BY <2>1, <2>3, <3>1
    <3>3. outcomes[Len(outcomes) - errors] = "ok"
      BY <1>1, <2>3, <3>1 DEF Counted
    <3> QED BY <2>3, <3>2, <3>3
  <2>4. loop = "stopped" => Len(outcomes) = MaxAcceptErrors
    BY <1>1, <2>1 DEF Counted
  <2> QED BY <2>2, <2>3, <2>4 DEF StopsOnlyWhenBroken
<1> QED BY <1>1, InitCounted, CountedIsInductive, PTL DEF Spec

-----------------------------------------------------------------------------
(* The permits.                                                            *)

Held == {"head", "dial", "opening", "relaying", "replying"}

Balanced ==
  /\ at \in [Clients -> Stages]
  /\ permits \in Nat
  /\ PermitsAreReturned

LEMMA HoldersAreFinite == IsFiniteSet(Holders) /\ Cardinality(Holders) \in Nat
  BY SetsAssumption, FS_Subset, FS_CardinalityType DEF Holders

\* One step of one connection: it may take a permit, give its own back, or leave
\* the matter as it is.
LEMMA MoveBalances ==
  ASSUME Balanced, NEW c \in Clients, NEW to \in Stages, Move(c, to),
         permits' = permits + (IF at[c] \in Held THEN 1 ELSE 0) - (IF to \in Held THEN 1 ELSE 0),
         at[c] \notin Held /\ to \in Held => permits > 0
  PROVE  Balanced'
<1>1. /\ at' \in [Clients -> Stages] /\ at' = [at EXCEPT ![c] = to]
      /\ permits \in Nat /\ permits + Cardinality(Holders) = MaxConnections
  BY DEF Balanced, Move, PermitsAreReturned
<1>2. Holders = {d \in Clients : at[d] \in Held} /\ Holders' = {d \in Clients : at'[d] \in Held}
  BY DEF Holders, Held
<1>3. Holders' = IF to \in Held THEN Holders \cup {c} ELSE Holders \ {c}
  BY <1>1, <1>2 DEF Balanced
<1>4. Cardinality(Holders') = Cardinality(Holders) - (IF at[c] \in Held THEN 1 ELSE 0)
                              + (IF to \in Held THEN 1 ELSE 0)
  <2>1. c \in Holders <=> at[c] \in Held
    BY <1>2
  <2>2. /\ Cardinality(Holders \cup {c}) = IF c \in Holders THEN Cardinality(Holders)
                                           ELSE Cardinality(Holders) + 1
        /\ Cardinality(Holders \ {c}) = IF c \in Holders THEN Cardinality(Holders) - 1
                                        ELSE Cardinality(Holders)
    BY HoldersAreFinite, FS_AddElement, FS_RemoveElement
  <2> QED BY <1>3, <2>1, <2>2, HoldersAreFinite
<1>5. permits' \in Nat
  BY <1>1
<1> QED BY <1>1, <1>4, <1>5, HoldersAreFinite DEF Balanced, PermitsAreReturned

LEMMA InitBalanced == Init => Balanced
<1> SUFFICES ASSUME Init PROVE Balanced
  OBVIOUS
<1>1. Holders = {}
  BY DEF Init, Holders
<1>2. at \in [Clients -> Stages] /\ permits = MaxConnections /\ MaxConnections \in Nat
  BY LimitsAssumption DEF Init, Stages
<1> QED BY <1>1, <1>2, FS_EmptySet DEF Balanced, PermitsAreReturned

LEMMA BalancedIsInductive == Balanced /\ [Next]_vars => Balanced'
<1> SUFFICES ASSUME Balanced, [Next]_vars PROVE Balanced'
  OBVIOUS
<1>0. permits \in Nat
  BY DEF Balanced
<1>1. ASSUME UNCHANGED <<at, permits>> PROVE Balanced'
  BY <1>1 DEF Balanced, PermitsAreReturned, Holders
<1>2. CASE TransientError \/ HardError \/ Resume \/ (\E route \in Published : Publish(route))
           \/ UNCHANGED vars
  BY <1>1, <1>2 DEF TransientError, HardError, Resume, Publish, vars, connVars
<1>3. ASSUME NEW c \in Clients, Knock(c) \/ Accept(c) \/ RefusalSent(c) PROVE Balanced'
  <2>1. PICK to \in {"knocking", "accepted", "away"} : Move(c, to) /\ permits' = permits
    BY <1>3 DEF Knock, Accept, RefusalSent
  <2>2. at[c] \notin Held
    BY <1>3 DEF Knock, Accept, RefusalSent, Held
  <2> QED BY <1>0, <2>1, <2>2, MoveBalances DEF Held, Stages
<1>4. ASSUME NEW c \in Clients, Admit(c) PROVE Balanced'
  <2>1. CASE permits > 0
    BY <1>0, <1>4, <2>1, MoveBalances DEF Admit, Held, Stages
  <2>2. CASE permits = 0
    BY <1>0, <1>4, <2>2, MoveBalances DEF Admit, Held, Stages
  <2> QED BY <1>0, <2>1, <2>2
<1>5. ASSUME NEW c \in Clients,
             \/ BadHead(c) \/ HeadTimeout(c) \/ Dialed(c) \/ DialFailed(c) \/ Open(c)
             \/ \E req \in Requests : ReadHead(c, req)
      PROVE  Balanced'
  <2>1. PICK to \in {"dial", "replying", "opening", "relaying"} :
          Move(c, to) /\ permits' = permits
    BY <1>5 DEF BadHead, HeadTimeout, Dialed, DialFailed, Open, ReadHead
  <2>2. at[c] \in Held
    BY <1>5 DEF BadHead, HeadTimeout, Dialed, DialFailed, Open, ReadHead, Held
  <2> QED BY <1>0, <2>1, <2>2, MoveBalances DEF Held, Stages
<1>6. ASSUME NEW c \in Clients, OpenFailed(c) \/ End(c) PROVE Balanced'
  <2>1. at[c] \in Held
    BY <1>6 DEF OpenFailed, End, Held
  <2>2. \/ Move(c, "away") /\ permits' = permits + 1
        \/ Move(c, "replying") /\ permits' = permits
    BY <1>6 DEF OpenFailed, End
  <2>3. CASE Move(c, "away") /\ permits' = permits + 1
    BY <1>0, <2>1, <2>3, MoveBalances DEF Held, Stages
  <2>4. CASE Move(c, "replying") /\ permits' = permits
    BY <1>0, <2>1, <2>4, MoveBalances DEF Held, Stages
  <2> QED BY <2>2, <2>3, <2>4
<1> QED BY <1>2, <1>3, <1>4, <1>5, <1>6 DEF Next

\* Every permit is with exactly one connection or in the semaphore, whatever way
\* each connection ends.
THEOREM EveryPermitComesBack == Spec => []PermitsAreReturned
<1>1. Balanced => PermitsAreReturned
  BY DEF Balanced
<1> QED BY <1>1, InitBalanced, BalancedIsInductive, PTL DEF Spec

-----------------------------------------------------------------------------
(* The route of a connection.                                              *)

\* What was published while the connection waits ends with what is published
\* now; once the route is picked it is one of these, or the direct one.
Honest(c) == IF request[c].host \in Bypass THEN via[c] = DirectRoute
             ELSE \E i \in 1 .. Len(seen[c]) : via[c] = seen[c][i]

Routed ==
  /\ router \in Published
  /\ at \in [Clients -> Stages]
  /\ request \in [Clients -> Requests \cup {None}]
  /\ via \in [Clients -> Routes \cup {None}]
  /\ status \in [Clients -> {0, 200, 400, 408, 502, 503}]
  /\ seen \in [Clients -> Seq(Published)]
  /\ \A c \in Clients :
       /\ at[c] \in {"accepted", "head"} => seen[c] # <<>> /\ seen[c][Len(seen[c])] = router
       /\ at[c] \in {"dial", "opening", "relaying"} => Honest(c)

LEMMA InitRouted == Init => Routed
  BY EmptySeq DEF Init, Routed, Stages

\* A step of one connection that leaves its choice and everybody else alone.
LEMMA KeepsRouted ==
  ASSUME Routed, NEW c \in Clients, NEW to \in Stages, Move(c, to),
         UNCHANGED <<router, request, via, seen>>,
         status' \in [Clients -> {0, 200, 400, 408, 502, 503}],
         to \in {"accepted", "head"} => at[c] \in {"accepted", "head"},
         to \in {"dial", "opening", "relaying"} => at[c] \in {"dial", "opening", "relaying"}
  PROVE  Routed'
<1>1. \A d \in Clients : at'[d] = IF d = c THEN to ELSE at[d]
  BY DEF Routed, Move
<1>2. at' \in [Clients -> Stages]
  BY DEF Routed, Move
<1> QED BY <1>1, <1>2 DEF Routed, Honest

\* The end of a connection forgets it.
LEMMA ForgetRouted ==
  ASSUME Routed, NEW c \in Clients, Move(c, "away"), Forget(c), UNCHANGED router
  PROVE  Routed'
<1>1. /\ at' \in [Clients -> Stages] /\ request' \in [Clients -> Requests \cup {None}]
      /\ via' \in [Clients -> Routes \cup {None}] /\ seen' \in [Clients -> Seq(Published)]
      /\ status' \in [Clients -> {0, 200, 400, 408, 502, 503}]
  BY EmptySeq DEF Routed, Move, Forget, Stages
<1>2. at'[c] = "away"
  BY DEF Routed, Move
<1>3. \A d \in Clients \ {c} : /\ at'[d] = at[d] /\ request'[d] = request[d]
                               /\ via'[d] = via[d] /\ seen'[d] = seen[d]
  BY DEF Routed, Move, Forget
<1>4. ASSUME NEW d \in Clients
      PROVE  /\ at'[d] \in {"accepted", "head"} => seen'[d] # <<>> /\ seen'[d][Len(seen'[d])] = router'
             /\ at'[d] \in {"dial", "opening", "relaying"} => Honest(d)'
  <2>1. CASE d = c
    BY <1>2, <2>1
  <2>2. CASE d # c
    BY <1>3, <2>2 DEF Routed, Honest
  <2> QED BY <2>1, <2>2
<1>5. router' \in Published
  BY DEF Routed
<1> QED BY <1>1, <1>4, <1>5 DEF Routed

\* Whoever still waits has one more route to be picked for it.
LEMMA PublishRouted ==
  ASSUME Routed, NEW route \in Published, Publish(route)
  PROVE  Routed'
<1> DEFINE waiting == {c \in Clients : at[c] \in {"accepted", "head"}}
<1>1. /\ router' = route /\ UNCHANGED <<at, request, via, status>>
      /\ seen' = [c \in Clients |-> IF c \in waiting THEN Append(seen[c], route) ELSE seen[c]]
  BY DEF Publish
<1>2. ASSUME NEW c \in waiting
      PROVE  /\ seen'[c] \in Seq(Published) /\ seen'[c] # <<>>
             /\ seen'[c][Len(seen'[c])] = route
  <2>1. seen'[c] = Append(seen[c], route) /\ seen[c] \in Seq(Published)
    BY <1>1, <1>2 DEF Routed
  <2> QED BY <2>1, AppendProperties
<1>3. seen' \in [Clients -> Seq(Published)]
  BY <1>1, <1>2 DEF Routed
<1>4. \A c \in Clients : at[c] \in {"dial", "opening", "relaying"} => seen'[c] = seen[c]
  BY <1>1
<1>5. ASSUME NEW c \in Clients
      PROVE  /\ at'[c] \in {"accepted", "head"} =>
                  seen'[c] # <<>> /\ seen'[c][Len(seen'[c])] = router'
             /\ at'[c] \in {"dial", "opening", "relaying"} => Honest(c)'
  <2>1. CASE c \in waiting
    BY <1>1, <1>2, <2>1
  <2>2. CASE c \notin waiting
    BY <1>1, <1>4, <2>2 DEF Routed, Honest
  <2> QED BY <2>1, <2>2
<1> QED BY <1>1, <1>3, <1>5 DEF Routed

\* The choice: the route in force, which is the last one seen.
LEMMA ReadHeadRouted ==
  ASSUME Routed, NEW c \in Clients, NEW req \in Requests, ReadHead(c, req)
  PROVE  Routed'
<1>1. /\ at[c] = "head" /\ Move(c, "dial") /\ UNCHANGED <<router, status, seen>>
      /\ request' = [request EXCEPT ![c] = req]
      /\ via' = [via EXCEPT ![c] = PickRoute(req.host)]
  BY DEF ReadHead
<1>2. seen[c] \in Seq(Published) /\ seen[c] # <<>> /\ seen[c][Len(seen[c])] = router
  BY <1>1 DEF Routed
<1>3. Len(seen[c]) \in 1 .. Len(seen[c])
  BY <1>2, EmptySeq
<1>4. /\ at' \in [Clients -> Stages] /\ request' \in [Clients -> Requests \cup {None}]
      /\ via' \in [Clients -> Routes \cup {None}]
  BY <1>1, SetsAssumption DEF Routed, Move, Stages, PickRoute, Routes
<1>5. at'[c] = "dial" /\ Honest(c)'
  BY <1>1, <1>2, <1>3 DEF Routed, Move, Honest, PickRoute
<1>6. \A d \in Clients \ {c} : /\ at'[d] = at[d] /\ request'[d] = request[d]
                               /\ via'[d] = via[d]
  BY <1>1 DEF Routed, Move
<1> QED BY <1>1, <1>4, <1>5, <1>6 DEF Routed, Honest

LEMMA AcceptRouted == ASSUME Routed, NEW c \in Clients, Accept(c) PROVE Routed'
<1>1. /\ Move(c, "accepted") /\ seen' = [seen EXCEPT ![c] = <<router>>]
      /\ UNCHANGED <<router, request, via, status>>
  BY DEF Accept
<1>2. <<router>> \in Seq(Published) /\ <<router>> # <<>> /\ <<router>>[Len(<<router>>)] = router
  BY DEF Routed
<1>3. at' \in [Clients -> Stages] /\ seen' \in [Clients -> Seq(Published)]
  BY <1>1, <1>2 DEF Routed, Move, Stages
<1>4. at'[c] = "accepted" /\ seen'[c] = <<router>>
  BY <1>1 DEF Routed, Move
<1>5. \A d \in Clients \ {c} : at'[d] = at[d] /\ seen'[d] = seen[d]
  BY <1>1 DEF Routed, Move
<1> QED BY <1>1, <1>2, <1>3, <1>4, <1>5 DEF Routed, Honest

LEMMA RoutedIsInductive == Routed /\ [Next]_vars => Routed'
<1> SUFFICES ASSUME Routed, [Next]_vars PROVE Routed'
  OBVIOUS
<1>1. ASSUME UNCHANGED <<router, connVars>> PROVE Routed'
  BY <1>1 DEF connVars, Routed, Honest
<1>2. CASE TransientError \/ HardError \/ Resume \/ UNCHANGED vars
  BY <1>1, <1>2 DEF TransientError, HardError, Resume, vars, connVars
<1>3. ASSUME NEW route \in Published, Publish(route) PROVE Routed'
  BY <1>3, PublishRouted
<1>4. ASSUME NEW c \in Clients, Accept(c) PROVE Routed'
  BY <1>4, AcceptRouted
<1>5. ASSUME NEW c \in Clients, NEW req \in Requests, ReadHead(c, req) PROVE Routed'
  BY <1>5, ReadHeadRouted
<1>6. ASSUME NEW c \in Clients,
             \/ Knock(c) \/ Admit(c) \/ BadHead(c) \/ HeadTimeout(c)
             \/ Dialed(c) \/ DialFailed(c) \/ Open(c)
      PROVE  Routed'
  <2>1. \/ at[c] = "away" /\ Move(c, "knocking")
        \/ at[c] = "accepted" /\ (Move(c, "head") \/ Move(c, "refusing"))
        \/ at[c] \in {"head", "dial"} /\ Move(c, "replying")
        \/ at[c] = "dial" /\ Move(c, "opening")
        \/ at[c] = "opening" /\ Move(c, "relaying")
    BY <1>6 DEF Knock, Admit, BadHead, HeadTimeout, Dialed, DialFailed, Open
  <2>2. /\ UNCHANGED <<router, request, via, seen>>
        /\ status' \in [Clients -> {0, 200, 400, 408, 502, 503}]
    BY <1>6 DEF Routed, Knock, Admit, BadHead, HeadTimeout, Dialed, DialFailed, Open, Answer
  <2> QED BY <2>1, <2>2, KeepsRouted DEF Stages
<1>7. ASSUME NEW c \in Clients, OpenFailed(c) \/ End(c) \/ RefusalSent(c) PROVE Routed'
  <2>1. CASE Move(c, "away") /\ Forget(c) /\ UNCHANGED router
    BY <2>1, ForgetRouted
  <2>2. CASE Move(c, "replying") /\ Answer(c, 502) /\ UNCHANGED <<router, request, via, seen>>
    <3>1. status' \in [Clients -> {0, 200, 400, 408, 502, 503}]
      BY <2>2 DEF Routed, Answer
    <3> QED BY <2>2, <3>1, KeepsRouted DEF Stages
  <2> QED BY <1>7, <2>1, <2>2 DEF OpenFailed, End, RefusalSent
<1> QED BY <1>2, <1>3, <1>4, <1>5, <1>6, <1>7 DEF Next

\* A connection runs through one route to its end, the direct one for a host on
\* the bypass list and otherwise one that was published while it waited; a dead
\* upstream never turns it into a direct connection.
THEOREM RoutesAreHonest == Spec => []RouteIsHonest
<1>1. Routed => RouteIsHonest
  BY DEF Routed, RouteIsHonest, Honest
<1> QED BY <1>1, InitRouted, RoutedIsInductive, PTL DEF Spec

\* Every reachable state is well typed; that the permits never exceed their limit
\* follows from their balance.
THEOREM TypeCorrect == Spec => []TypeOK
<1>1. ASSUME Counted, Balanced, Routed PROVE TypeOK
  <2>1. permits \in 0 .. MaxConnections
    BY <1>1, HoldersAreFinite, LimitsAssumption DEF Balanced, PermitsAreReturned
  <2> QED BY <1>1, <2>1 DEF TypeOK, Counted, Routed
<1> QED
  BY <1>1, InitCounted, CountedIsInductive, InitBalanced, BalancedIsInductive,
     InitRouted, RoutedIsInductive, PTL DEF Spec

-----------------------------------------------------------------------------
(* Parts of a stream.                                                      *)

Part(s, a, b) == SubSeq(s, a + 1, b)

LEMMA PartIsSeq ==
  ASSUME NEW S, NEW s \in Seq(S), NEW b \in 0 .. Len(s), NEW a \in 0 .. b
  PROVE  /\ Part(s, a, b) \in Seq(S) /\ Len(Part(s, a, b)) = b - a
         /\ \A i \in 1 .. b - a : Part(s, a, b)[i] = s[a + i]
<1>1. \A i \in a + 1 .. b : s[i] \in S
  BY ElementOfSeq
<1>2. a + 1 \in Int /\ b \in Int
  OBVIOUS
<1> QED BY <1>1, <1>2, SubSeqProperties DEF Part

LEMMA NoPart ==
  ASSUME NEW S, NEW s \in Seq(S), NEW a \in 0 .. Len(s)
  PROVE  Part(s, a, a) = <<>>
BY SubSeqEmpty DEF Part

LEMMA PartsJoin ==
  ASSUME NEW S, NEW s \in Seq(S), NEW c \in 0 .. Len(s), NEW b \in 0 .. c, NEW a \in 0 .. b
  PROVE  Part(s, a, b) \o Part(s, b, c) = Part(s, a, c)
<1>1. a + 1 \in 1 .. Len(s) + 1 /\ b \in (a + 1) - 1 .. Len(s) /\ c \in b .. Len(s)
  OBVIOUS
<1> QED BY <1>1, ConcatAdjacentSubSeq DEF Part

\* A read takes the front of a queue and leaves the rest.
LEMMA PartIsRead ==
  ASSUME NEW S, NEW s \in Seq(S), NEW c \in 0 .. Len(s), NEW b \in 0 .. c, NEW a \in 0 .. b
  PROVE  /\ First(Part(s, a, c), b - a) = Part(s, a, b)
         /\ After(Part(s, a, c), b - a) = Part(s, b, c)
<1> DEFINE p == Part(s, a, c)
<1>0. a \in 0 .. c /\ b \in 0 .. Len(s)
  BY LenProperties
<1>1. p \in Seq(S) /\ Len(p) = c - a /\ \A i \in 1 .. c - a : p[i] = s[a + i]
  BY <1>0, PartIsSeq
<1>2. \A i \in 1 .. c - a : p[i] \in S
  BY <1>1, ElementOfSeq
<1> HIDE DEF p
<1>3. First(p, b - a) = Part(s, a, b)
  <2>1. /\ First(p, b - a) \in Seq(S) /\ Len(First(p, b - a)) = b - a
        /\ \A i \in 1 .. b - a : First(p, b - a)[i] = p[i]
    <3>1. \A i \in 1 .. b - a : p[i] \in S
      BY <1>2
    <3>2. b - a \in Int /\ b - a >= 0
      OBVIOUS
    <3>3. /\ SubSeq(p, 1, b - a) \in Seq(S)
          /\ Len(SubSeq(p, 1, b - a)) = IF 1 <= b - a THEN (b - a) - 1 + 1 ELSE 0
          /\ \A i \in 1 .. (b - a) - 1 + 1 : SubSeq(p, 1, b - a)[i] = p[1 + i - 1]
      BY <3>1, <3>2, SubSeqProperties
    <3> QED BY <3>2, <3>3 DEF First
  <2>2. /\ Part(s, a, b) \in Seq(S) /\ Len(Part(s, a, b)) = b - a
        /\ \A i \in 1 .. b - a : Part(s, a, b)[i] = s[a + i]
    BY <1>0, PartIsSeq
  <2>3. \A i \in 1 .. b - a : p[i] = s[a + i]
    BY <1>1
  <2> QED BY <2>1, <2>2, <2>3, SeqEqual
<1>4. After(p, b - a) = Part(s, b, c)
  <2>1. /\ After(p, b - a) \in Seq(S) /\ Len(After(p, b - a)) = c - b
        /\ \A i \in 1 .. c - b : After(p, b - a)[i] = p[(b - a) + i]
    <3>1. \A i \in (b - a) + 1 .. c - a : p[i] \in S
      BY <1>2
    <3>2. (b - a) + 1 \in Int /\ c - a \in Int
      OBVIOUS
    <3>3. /\ SubSeq(p, (b - a) + 1, c - a) \in Seq(S)
          /\ Len(SubSeq(p, (b - a) + 1, c - a))
               = IF (b - a) + 1 <= c - a THEN (c - a) - ((b - a) + 1) + 1 ELSE 0
          /\ \A i \in 1 .. (c - a) - ((b - a) + 1) + 1 :
               SubSeq(p, (b - a) + 1, c - a)[i] = p[((b - a) + 1) + i - 1]
      BY <3>1, <3>2, SubSeqProperties
    <3>4. /\ (c - a) - ((b - a) + 1) + 1 = c - b
          /\ (IF (b - a) + 1 <= c - a THEN (c - a) - ((b - a) + 1) + 1 ELSE 0) = c - b
          /\ \A i \in 1 .. c - b : ((b - a) + 1) + i - 1 = (b - a) + i
      OBVIOUS
    <3>5. After(p, b - a) = SubSeq(p, (b - a) + 1, c - a)
      BY <1>1 DEF After
    <3>6. /\ Len(After(p, b - a)) = c - b
          /\ \A i \in 1 .. c - b : After(p, b - a)[i] = p[((b - a) + 1) + i - 1]
      BY <3>3, <3>4, <3>5
    <3> QED BY <3>3, <3>4, <3>5, <3>6
  <2>2. /\ Part(s, b, c) \in Seq(S) /\ Len(Part(s, b, c)) = c - b
        /\ \A i \in 1 .. c - b : Part(s, b, c)[i] = s[b + i]
    BY PartIsSeq
  <2>3. \A i \in 1 .. c - b : p[(b - a) + i] = s[b + i]
    BY <1>1
  <2> QED BY <2>1, <2>2, <2>3, SeqEqual
<1> QED BY <1>3, <1>4 DEF p

LEMMA PartGrows ==
  ASSUME NEW S, NEW s \in Seq(S), NEW b \in 0 .. Len(s), b < Len(s), NEW a \in 0 .. b
  PROVE  Append(Part(s, a, b), s[b + 1]) = Part(s, a, b + 1)
<1>1. s[b + 1] \in S
  BY ElementOfSeq
<1>2. Part(s, b, b + 1) = <<s[b + 1]>>
  <2>1. /\ Part(s, b, b + 1) \in Seq(S) /\ Len(Part(s, b, b + 1)) = 1
        /\ Part(s, b, b + 1)[1] = s[b + 1]
    <3>1. b + 1 \in 0 .. Len(s) /\ b \in 0 .. b + 1 /\ (b + 1) - b = 1 /\ 1 \in 1 .. (b + 1) - b
      OBVIOUS
    <3> QED BY <3>1, PartIsSeq
  <2> QED BY <1>1, <2>1
<1>3. Append(Part(s, a, b), s[b + 1]) = Part(s, a, b) \o <<s[b + 1]>>
  <2>1. Part(s, a, b) \in Seq(S)
    BY PartIsSeq
  <2> QED BY <1>1, <2>1, AppendIsConcat
<1>4. b + 1 \in 0 .. Len(s) /\ b \in 0 .. b + 1 /\ a \in 0 .. b
  OBVIOUS
<1>5. Part(s, a, b) \o Part(s, b, b + 1) = Part(s, a, b + 1)
  BY <1>4, PartsJoin
<1> QED BY <1>2, <1>3, <1>5

LEMMA PartBegins ==
  ASSUME NEW S, NEW s \in Seq(S), NEW b \in 0 .. Len(s), NEW a \in 0 .. b
  PROVE  /\ Part(s, a, b) # <<>> <=> a < b
         /\ a < b => Head(Part(s, a, b)) = s[a + 1] /\ Tail(Part(s, a, b)) = Part(s, a + 1, b)
<1>1. Part(s, a, b) \in Seq(S) /\ Len(Part(s, a, b)) = b - a
  BY PartIsSeq
<1>2. a < b => Head(Part(s, a, b)) = s[a + 1] /\ Tail(Part(s, a, b)) = Part(s, a + 1, b)
  BY HeadTailOfSubSeq DEF Part
<1>3. Part(s, a, b) # <<>> <=> a < b
  BY <1>1, EmptySeq
<1> QED BY <1>2, <1>3

LEMMA AfterFirst ==
  ASSUME NEW S, NEW p \in Seq(S), NEW q \in Seq(S)
  PROVE  After(p \o q, Len(p)) = q
<1> DEFINE r == p \o q
<1>1. r \in Seq(S) /\ Len(r) = Len(p) + Len(q)
  BY ConcatProperties
<1>2. \A i \in 1 .. Len(q) : r[Len(p) + i] = q[i]
  BY ConcatProperties
<1>3. \A i \in Len(p) + 1 .. Len(r) : r[i] \in S
  BY <1>1, ElementOfSeq
<1> HIDE DEF r
<1>4. /\ After(r, Len(p)) \in Seq(S) /\ Len(After(r, Len(p))) = Len(q)
      /\ \A i \in 1 .. Len(q) : After(r, Len(p))[i] = r[Len(p) + i]
  <2>1. Len(p) + 1 \in Int /\ Len(r) \in Int /\ Len(q) \in Nat /\ Len(p) \in Nat
    BY <1>1
  <2>2. /\ SubSeq(r, Len(p) + 1, Len(r)) \in Seq(S)
        /\ Len(SubSeq(r, Len(p) + 1, Len(r)))
             = IF Len(p) + 1 <= Len(r) THEN Len(r) - (Len(p) + 1) + 1 ELSE 0
        /\ \A i \in 1 .. Len(r) - (Len(p) + 1) + 1 :
             SubSeq(r, Len(p) + 1, Len(r))[i] = r[(Len(p) + 1) + i - 1]
    BY <1>3, <2>1, SubSeqProperties
  <2> QED BY <1>1, <2>1, <2>2 DEF After
<1>5. After(r, Len(p)) = q
  BY <1>2, <1>4, SeqEqual
<1> QED BY <1>5 DEF r

-----------------------------------------------------------------------------
(* The end of a head.                                                      *)

LEMMA LeastNatural ==
  ASSUME NEW T \in SUBSET Nat, T # {}
  PROVE  \E x \in T : \A y \in T : x <= y
<1> DEFINE R == OpToRel(<, Nat)
<1>1. IsWellFoundedOn(R, Nat)
  BY NatLessThanWellFounded
<1>2. \A x, y \in Nat : y < x => <<y, x>> \in R
  BY DEF OpToRel
<1> HIDE DEF R
<1>3. PICK x \in T : \A y \in T : ~ (<<y, x>> \in R)
  BY <1>1, WFMin
<1>4. ASSUME NEW y \in T PROVE x <= y
  <2>1. x \in Nat /\ y \in Nat
    OBVIOUS
  <2>2. ~(y < x)
    BY <1>2, <1>3, <2>1
  <2> QED BY <2>1, <2>2
<1> QED BY <1>4

Ends(s, n) == n \in 1 .. Len(s) /\ s[n] = "end" /\ \A j \in 1 .. n - 1 : s[j] # "end"

LEMMA HeadEndIs ==
  ASSUME NEW S, NEW s \in Seq(S)
  PROVE  /\ HeadEnd(s) \in 0 .. Len(s)
         /\ HeadEnd(s) # 0 => Ends(s, HeadEnd(s))
         /\ HeadEnd(s) = 0 => \A i \in 1 .. Len(s) : s[i] # "end"
<1>0. Len(s) \in Nat
  BY LenProperties
<1>1. CASE \E i \in 1 .. Len(s) : s[i] = "end"
  <2> DEFINE T == {i \in 1 .. Len(s) : s[i] = "end"}
  <2>1. PICK n \in T : \A y \in T : n <= y
    <3>1. T \in SUBSET Nat /\ T # {}
      BY <1>0, <1>1
    <3> QED BY <3>1, LeastNatural
  <2>2. n \in 1 .. Len(s) /\ s[n] = "end" /\ \A j \in 1 .. n - 1 : s[j] # "end"
    BY <1>0, <2>1
  <2>3. HeadEnd(s) = CHOOSE i \in 1 .. Len(s) : s[i] = "end" /\ \A j \in 1 .. i - 1 : s[j] # "end"
    BY <1>1 DEF HeadEnd
  <2> HIDE DEF T
  <2>4. Ends(s, HeadEnd(s))
    BY <2>2, <2>3 DEF Ends
  <2> QED BY <1>0, <2>4 DEF Ends
<1>2. CASE ~\E i \in 1 .. Len(s) : s[i] = "end"
  BY <1>0, <1>2 DEF HeadEnd
<1> QED BY <1>1, <1>2

LEMMA OneEnd ==
  ASSUME NEW S, NEW s \in Seq(S), NEW n, Ends(s, n)
  PROVE  HeadEnd(s) = n
<1>0. Len(s) \in Nat
  BY LenProperties
<1>1. HeadEnd(s) # 0 /\ Ends(s, HeadEnd(s)) /\ HeadEnd(s) \in 1 .. Len(s)
  BY <1>0, HeadEndIs DEF Ends
<1> QED BY <1>0, <1>1 DEF Ends

\* The part that was read so far has the same head, or none yet.
LEMMA HeadEndOfPart ==
  ASSUME NEW S, NEW s \in Seq(S), NEW n \in 0 .. Len(s)
  PROVE  /\ HeadEnd(Part(s, 0, n)) # 0 => HeadEnd(Part(s, 0, n)) = HeadEnd(s) /\ HeadEnd(s) \in 1 .. n
         /\ HeadEnd(Part(s, 0, n)) = 0 => HeadEnd(s) \notin 1 .. n
<1> DEFINE p == Part(s, 0, n)
<1>0. Len(s) \in Nat /\ 0 \in 0 .. n
  BY LenProperties
<1>1. p \in Seq(S) /\ Len(p) = n /\ \A i \in 1 .. n : p[i] = s[i]
  <2>1. Part(s, 0, n) \in Seq(S) /\ Len(Part(s, 0, n)) = n - 0
        /\ \A i \in 1 .. n - 0 : Part(s, 0, n)[i] = s[0 + i]
    BY <1>0, PartIsSeq
  <2> QED BY <2>1
<1> HIDE DEF p
<1>2. CASE HeadEnd(p) # 0
  <2>1. Ends(p, HeadEnd(p)) /\ HeadEnd(p) \in 1 .. n
    BY <1>1, <1>2, HeadEndIs DEF Ends
  <2>2. Ends(s, HeadEnd(p))
    BY <1>0, <1>1, <2>1 DEF Ends
  <2>3. HeadEnd(s) = HeadEnd(p)
    BY <2>2, OneEnd
  <2> QED BY <1>2, <2>1, <2>3 DEF p
<1>3. CASE HeadEnd(p) = 0
  <2>1. \A i \in 1 .. n : s[i] # "end"
    BY <1>1, <1>3, HeadEndIs
  <2>2. HeadEnd(s) # 0 => s[HeadEnd(s)] = "end"
    BY HeadEndIs DEF Ends
  <2> QED BY <1>3, <2>1, <2>2 DEF p
<1> QED BY <1>2, <1>3

\* One read of what waits in a queue.
LEMMA ReadOfPart ==
  ASSUME NEW S, NEW s \in Seq(S), NEW c \in 0 .. Len(s), NEW a \in 0 .. c, NEW e \in 0 .. a,
         NEW n \in Reads(Part(s, a, c))
  PROVE  /\ a + n \in a + 1 .. c
         /\ First(Part(s, a, c), n) = Part(s, a, a + n)
         /\ After(Part(s, a, c), n) = Part(s, a + n, c)
         /\ Part(s, e, a) \o First(Part(s, a, c), n) = Part(s, e, a + n)
<1>0. Len(s) \in Nat
  BY LenProperties
<1>1. Len(Part(s, a, c)) = c - a
  BY PartIsSeq
<1>2. n \in 1 .. c - a
  BY <1>1, SizesAssumption DEF Reads, AtMost
<1>3. a + n \in 0 .. c /\ a \in 0 .. a + n /\ (a + n) - a = n /\ a + n \in 0 .. Len(s)
  BY <1>0, <1>2
<1>4. /\ First(Part(s, a, c), (a + n) - a) = Part(s, a, a + n)
      /\ After(Part(s, a, c), (a + n) - a) = Part(s, a + n, c)
  BY <1>3, PartIsRead
<1>5. Part(s, e, a) \o Part(s, a, a + n) = Part(s, e, a + n)
  BY <1>3, PartsJoin
<1>6. a + n \in a + 1 .. c
  BY <1>0, <1>2
<1> HIDE DEF Part, First, After, Reads
<1> QED BY <1>3, <1>4, <1>5, <1>6

LEMMA ReadIsSeq ==
  ASSUME NEW S, NEW s \in Seq(S), NEW n \in Reads(s)
  PROVE  n \in 1 .. Len(s) /\ First(s, n) \in Seq(S) /\ After(s, n) \in Seq(S)
<1>0. Len(s) \in Nat
  BY LenProperties
<1>1. n \in 1 .. Len(s)
  BY <1>0, SizesAssumption DEF Reads, AtMost
<1>2. n \in 0 .. Len(s) /\ 0 \in 0 .. n /\ Len(s) \in 0 .. Len(s)
  BY <1>0, <1>1
<1>3. Part(s, 0, n) \in Seq(S) /\ Part(s, n, Len(s)) \in Seq(S)
  BY <1>2, PartIsSeq
<1>4. First(s, n) = Part(s, 0, n) /\ After(s, n) = Part(s, n, Len(s))
  BY DEF First, After, Part
<1> QED BY <1>1, <1>3, <1>4

\* What read_head keeps behind a head.
LEMMA BehindHeadIsSeq ==
  ASSUME NEW S, NEW s \in Seq(S)
  PROVE  After(s, HeadEnd(s)) \in Seq(S)
<1>1. Len(s) \in Nat /\ HeadEnd(s) \in 0 .. Len(s) /\ Len(s) \in 0 .. Len(s)
  BY HeadEndIs
<1>2. Part(s, HeadEnd(s), Len(s)) \in Seq(S)
  BY <1>1, PartIsSeq
<1> QED BY <1>2 DEF After, Part

-----------------------------------------------------------------------------
(* The streams of one connection.                                          *)

LEMMA StreamsAreWords ==
  ASSUME kind \in {"connect", "plain"}, way \in {"direct", "socks", "http"}, script \in Scripts
  PROVE  /\ script \in Seq(Words)
         /\ UpReply \in Seq(Words) /\ UpScript \in Seq(Words)
         /\ Len(UpReply) \in 0 .. Len(UpScript)
         /\ Handshake \in Seq(Words) /\ RequestLine \in Seq(Words) /\ Opening \in Seq(Words)
         /\ \A i \in Len(UpReply) + 1 .. Len(UpScript) : UpScript[i] \in Pieces
<1>1. Pieces \subseteq Words /\ script \in Seq(Pieces) /\ Payload \in Seq(Pieces)
  BY PiecesAssumption DEF Words
<1>2. script \in Seq(Words) /\ Payload \in Seq(Words)
  BY <1>1
<1>3. {"line", "end", "greeting", "target", "CONNECT", "absolute-form", "origin-form", "method",
       "verdict", "bound", "status"} \subseteq Words
  BY DEF Words, Pieces
<1>4. UpReply \in Seq(Words)
  BY <1>3 DEF UpReply
<1>5. Handshake \in Seq(Words) /\ RequestLine \in Seq(Words)
  BY <1>3 DEF Handshake, RequestLine
<1>6. Opening \in Seq(Words)
  BY <1>5, ConcatProperties DEF Opening
<1>7. /\ UpScript \in Seq(Words) /\ Len(UpScript) = Len(UpReply) + Len(Payload)
      /\ \A i \in Len(UpReply) + 1 .. Len(UpReply) + Len(Payload) :
           UpScript[i] = Payload[i - Len(UpReply)]
  BY <1>2, <1>4, ConcatProperties DEF UpScript
<1>8. Len(UpReply) \in Nat /\ Len(Payload) \in Nat
  BY <1>2, <1>4, LenProperties
<1>9. \A i \in 1 .. Len(Payload) : Payload[i] \in Pieces
  BY <1>1, ElementOfSeq
<1>10. ASSUME NEW i \in Len(UpReply) + 1 .. Len(UpScript) PROVE UpScript[i] \in Pieces
  <2>1. i - Len(UpReply) \in 1 .. Len(Payload) /\ i \in Len(UpReply) + 1 .. Len(UpReply) + Len(Payload)
    BY <1>7, <1>8
  <2> QED BY <1>7, <1>9, <2>1
<1>11. Len(UpReply) \in 0 .. Len(UpScript)
  BY <1>7, <1>8
<1> QED BY <1>2, <1>4, <1>5, <1>6, <1>7, <1>10, <1>11

\* The route, the request and the client stay what they are.
LEMMA Steady ==
  ASSUME [RelayNext]_relayVars
  PROVE  /\ kind' = kind /\ way' = way /\ script' = script
         /\ UpReply' = UpReply /\ UpScript' = UpScript
         /\ Handshake' = Handshake /\ RequestLine' = RequestLine /\ Opening' = Opening
<1>1. kind' = kind /\ way' = way /\ script' = script
  BY DEF RelayNext, relayVars, fixed, peers, Handler, ClientSends, ClientShuts, UpSends, UpShuts,
     Refuse, HeadStep, HeadFails, HeadTooLate, Dial, SocksStep, ReplyStep, DialFails, Greet,
     RequestFails, WriteLeftover, WritePending, CopyUp, CopyDown, Finish, Break
<1>2. UpReply' = UpReply /\ Handshake' = Handshake /\ RequestLine' = RequestLine
  BY <1>1 DEF UpReply, Handshake, RequestLine
<1> QED BY <1>1, <1>2 DEF UpScript, Opening

LEMMA SocksReply ==
  ASSUME way = "socks"
  PROVE  /\ UpScript[1] = "method" /\ UpScript[2] = "verdict" /\ UpScript[3] = "bound"
         /\ Len(UpReply) = 3
<1>1. UpReply = <<"method", "verdict", "bound">>
  BY DEF UpReply
<1> DEFINE T == Pieces \cup {"method", "verdict", "bound"}
<1>2. UpReply \in Seq(T) /\ Payload \in Seq(T) /\ Len(UpReply) = 3
  BY <1>1, PiecesAssumption
<1> HIDE DEF T
<1>3. \A i \in 1 .. 3 : UpScript[i] = UpReply[i]
  BY <1>2, ConcatProperties DEF UpScript
<1> QED BY <1>1, <1>2, <1>3

LEMMA ProxyReply ==
  ASSUME way = "http", kind = "connect"
  PROVE  HeadEnd(UpScript) = 2 /\ Len(UpReply) = 2
<1>1. UpReply = <<"status", "end">>
  BY DEF UpReply
<1> DEFINE T == Pieces \cup {"status"}
<1>2. UpReply \in Seq(T) /\ Payload \in Seq(T) /\ Len(UpReply) = 2
  <2>1. Payload \in Seq(Pieces)
    BY PiecesAssumption
  <2>2. "end" \in T /\ "status" \in T
    BY DEF Pieces
  <2> QED BY <1>1, <2>1, <2>2
<1> HIDE DEF T
<1>3. /\ UpScript \in Seq(T) /\ Len(UpScript) = 2 + Len(Payload) /\ Len(Payload) \in Nat
      /\ UpScript[1] = "status" /\ UpScript[2] = "end"
  BY <1>1, <1>2, ConcatProperties, LenProperties DEF UpScript
<1>4. Ends(UpScript, 2)
  BY <1>3 DEF Ends
<1> QED BY <1>2, <1>3, <1>4, OneEnd

-----------------------------------------------------------------------------
(* Every variable stays within its type, and the buffer within its limit.  *)

LEMMA InitTyped == RelayInit => RelayTypeOK
<1> SUFFICES ASSUME RelayInit PROVE RelayTypeOK
  OBVIOUS
<1>1. script \in Seq(Words) /\ UpScript \in Seq(Words)
  BY StreamsAreWords DEF RelayInit
<1>2. Len(script) \in Nat /\ Len(UpScript) \in Nat /\ <<>> \in Seq(Words) /\ Len(<<>>) = 0
  BY <1>1, LenProperties, EmptySeq
<1>3. 0 \in 0 .. Len(script) /\ 0 \in 0 .. Len(UpScript) /\ 0 < MaxHead
  BY <1>2, SizesAssumption
<1> QED BY <1>2, <1>3 DEF RelayInit, RelayTypeOK, RelayStages

LEMMA RefuseTyped ==
  ASSUME RelayTypeOK, [RelayNext]_relayVars, NEW code \in Statuses, Refuse(code)
  PROVE  RelayTypeOK'
<1>1. Append(clientGot, code) \in Seq(Words)
  BY AppendProperties DEF RelayTypeOK, Words
<1> HIDE DEF Words
<1> QED BY <1>1, Steady DEF RelayTypeOK, Refuse, RelayStages, fixed, peers

\* What read_head makes of one read from a queue.
LEMMA HeadReadTyped ==
  ASSUME buf \in Seq(Words), NEW queue \in Seq(Words), NEW n \in Reads(queue), NEW all,
         all = buf \o First(queue, n), MayGoOn(all)
  PROVE  /\ After(queue, n) \in Seq(Words) /\ all \in Seq(Words)
         /\ After(all, HeadEnd(all)) \in Seq(Words)
         /\ HeadEnd(all) = 0 => Len(all) < MaxHead
<1>1. First(queue, n) \in Seq(Words) /\ After(queue, n) \in Seq(Words)
  BY ReadIsSeq
<1>2. all \in Seq(Words)
  BY <1>1, ConcatProperties
<1> HIDE DEF HeadEnd, After, First
<1> QED BY <1>1, <1>2, BehindHeadIsSeq DEF MayGoOn

LEMMA TypedIsInductive == RelayTypeOK /\ [RelayNext]_relayVars => RelayTypeOK'
<1> SUFFICES ASSUME RelayTypeOK, [RelayNext]_relayVars PROVE RelayTypeOK'
  OBVIOUS
<1> USE Steady
<1>0. /\ script \in Seq(Words) /\ UpScript \in Seq(Words) /\ RequestLine \in Seq(Words)
      /\ <<>> \in Seq(Words) /\ Len(<<>>) = 0 /\ 0 < MaxHead
      /\ \A x \in {"200", "greeting", "target", "CONNECT"} : <<x>> \in Seq(Words) /\ x \in Words
  BY StreamsAreWords, SizesAssumption, EmptySeq DEF RelayTypeOK, Words, Statuses
<1>1. CASE ClientSends
  <2>1. nSent + 1 \in 1 .. Len(script)
    BY <1>0, <1>1, LenProperties DEF RelayTypeOK, ClientSends
  <2>2. script[nSent + 1] \in Words
    BY <1>0, <2>1, ElementOfSeq
  <2>3. fromClient' \in Seq(Words)
    BY <1>1, <2>2, AppendProperties DEF RelayTypeOK, ClientSends
  <2> QED BY <1>1, <2>1, <2>3 DEF RelayTypeOK, ClientSends, fixed
<1>2. CASE ClientShuts
  BY <1>2 DEF RelayTypeOK, ClientShuts, fixed
<1>3. CASE UpSends
  <2>1. upSent + 1 \in 1 .. Len(UpScript)
    BY <1>0, <1>3, LenProperties DEF RelayTypeOK, UpSends
  <2>2. UpScript[upSent + 1] \in Words
    BY <1>0, <2>1, ElementOfSeq
  <2>3. fromUp' \in Seq(Words)
    BY <1>3, <2>2, AppendProperties DEF RelayTypeOK, UpSends
  <2> QED BY <1>3, <2>1, <2>3 DEF RelayTypeOK, UpSends, fixed
<1>4. CASE UpShuts
  BY <1>4 DEF RelayTypeOK, UpShuts, fixed
<1>5. CASE HeadStep
  <2>1. PICK n \in Reads(fromClient) : LET all == buf \o First(fromClient, n)
          IN  /\ MayGoOn(all)
              /\ fromClient' = After(fromClient, n)
              /\ IF HeadEnd(all) = 0
                 THEN buf' = all /\ UNCHANGED <<stage, leftover>>
                 ELSE buf' = <<>> /\ leftover' = Leftover(all) /\ stage' = "dial"
    BY <1>5 DEF HeadStep
  <2> DEFINE all == buf \o First(fromClient, n)
  <2>2. /\ After(fromClient, n) \in Seq(Words) /\ all \in Seq(Words)
        /\ After(all, HeadEnd(all)) \in Seq(Words)
        /\ HeadEnd(all) = 0 => Len(all) < MaxHead
    BY <2>1, HeadReadTyped DEF RelayTypeOK
  <2> HIDE DEF all
  <2>3. /\ fromClient' \in Seq(Words) /\ buf' \in Seq(Words) /\ leftover' \in Seq(Words)
        /\ Len(buf') < MaxHead /\ stage' \in RelayStages
    BY <1>0, <2>1, <2>2 DEF RelayTypeOK, RelayStages, Leftover, all
  <2> QED BY <1>5, <2>3 DEF RelayTypeOK, HeadStep, fixed, peers
<1>6. CASE HeadFails \/ HeadTooLate \/ DialFails \/ RequestFails
  BY <1>6, RefuseTyped DEF HeadFails, HeadTooLate, DialFails, RequestFails, Statuses
<1>7. CASE Dial
  <2>1. Handshake # <<>> => Handshake[1] \in {"greeting", "CONNECT"}
    BY DEF Handshake
  <2>2. upGot' \in Seq(Words)
    BY <1>0, <1>7, <2>1 DEF Dial
  <2> QED BY <1>7, <2>2 DEF RelayTypeOK, RelayStages, Dial, fixed, peers
<1>8. CASE SocksStep
  <2>1. Tail(fromUp) \in Seq(Words) /\ Append(upGot, "target") \in Seq(Words)
    BY <1>0, <1>8, HeadTailProperties, AppendProperties DEF RelayTypeOK, SocksStep
  <2> QED BY <1>8, <2>1 DEF RelayTypeOK, RelayStages, SocksStep, fixed, peers
<1>9. CASE ReplyStep
  <2>1. PICK n \in Reads(fromUp) : LET all == buf \o First(fromUp, n)
          IN  /\ MayGoOn(all)
              /\ fromUp' = After(fromUp, n)
              /\ IF HeadEnd(all) = 0
                 THEN buf' = all /\ UNCHANGED <<stage, pending>>
                 ELSE buf' = <<>> /\ pending' = Pending(all) /\ stage' = "open"
    BY <1>9 DEF ReplyStep
  <2> DEFINE all == buf \o First(fromUp, n)
  <2>2. /\ After(fromUp, n) \in Seq(Words) /\ all \in Seq(Words)
        /\ After(all, HeadEnd(all)) \in Seq(Words)
        /\ HeadEnd(all) = 0 => Len(all) < MaxHead
    BY <2>1, HeadReadTyped DEF RelayTypeOK
  <2> HIDE DEF all
  <2>3. /\ fromUp' \in Seq(Words) /\ buf' \in Seq(Words) /\ pending' \in Seq(Words)
        /\ Len(buf') < MaxHead /\ stage' \in RelayStages
    BY <1>0, <2>1, <2>2 DEF RelayTypeOK, RelayStages, Pending, all
  <2> QED BY <1>9, <2>3 DEF RelayTypeOK, ReplyStep, fixed, peers
<1>10. CASE Greet
  <2>1. upGot \o RequestLine \in Seq(Words)
    BY <1>0, ConcatProperties DEF RelayTypeOK
  <2> QED BY <1>0, <1>10, <2>1 DEF RelayTypeOK, RelayStages, Greet, fixed, peers
<1>11. CASE WriteLeftover
  <2>1. upGot \o leftover \in Seq(Words)
    BY ConcatProperties DEF RelayTypeOK
  <2> QED BY <1>0, <1>11, <2>1 DEF RelayTypeOK, RelayStages, WriteLeftover, fixed, peers
<1>12. CASE WritePending
  <2>1. clientGot \o pending \in Seq(Words)
    BY ConcatProperties DEF RelayTypeOK
  <2> QED BY <1>0, <1>12, <2>1 DEF RelayTypeOK, RelayStages, WritePending, fixed, peers
<1>13. CASE CopyUp
  <2>1. PICK n \in Reads(fromClient) : /\ fromClient' = After(fromClient, n)
                                       /\ upGot' = upGot \o First(fromClient, n)
    BY <1>13 DEF CopyUp
  <2>2. First(fromClient, n) \in Seq(Words) /\ After(fromClient, n) \in Seq(Words)
    BY ReadIsSeq DEF RelayTypeOK
  <2>3. fromClient' \in Seq(Words) /\ upGot' \in Seq(Words)
    BY <2>1, <2>2, ConcatProperties DEF RelayTypeOK
  <2> QED BY <1>13, <2>3 DEF RelayTypeOK, CopyUp, fixed, peers
<1>14. CASE CopyDown
  <2>1. PICK n \in Reads(fromUp) : /\ fromUp' = After(fromUp, n)
                                   /\ clientGot' = clientGot \o First(fromUp, n)
    BY <1>14 DEF CopyDown
  <2>2. First(fromUp, n) \in Seq(Words) /\ After(fromUp, n) \in Seq(Words)
    BY ReadIsSeq DEF RelayTypeOK
  <2>3. fromUp' \in Seq(Words) /\ clientGot' \in Seq(Words)
    BY <2>1, <2>2, ConcatProperties DEF RelayTypeOK
  <2> QED BY <1>14, <2>3 DEF RelayTypeOK, CopyDown, fixed, peers
<1>15. CASE Finish \/ Break
  BY <1>15 DEF RelayTypeOK, RelayStages, Finish, Break, fixed, peers
<1>16. CASE UNCHANGED relayVars
  BY <1>16 DEF RelayTypeOK, relayVars
<1> QED BY <1>1, <1>2, <1>3, <1>4, <1>5, <1>6, <1>7, <1>8, <1>9, <1>10, <1>11, <1>12, <1>13, <1>14,
     <1>15, <1>16 DEF RelayNext, Handler

-----------------------------------------------------------------------------
(* Where the bytes are.  The handler has read the first r pieces of what   *)
(* the client sends and the first q of what the upstream sends; the rest   *)
(* waits in the queues, and each piece that was read is in one place.      *)

\* What the bridge itself says to the client.
Answered == IF kind = "connect" THEN <<"200">> ELSE <<>>

UpAt(r) ==
  /\ fromClient = Part(script, r, nSent)
  /\ stage = "head" => buf = Part(script, 0, r) /\ HeadEnd(buf) = 0 /\ upGot = <<>>
  /\ stage \in {"dial", "handshake", "open", "leftover"} =>
       HeadEnd(script) \in 1 .. r /\ leftover = Part(script, HeadEnd(script), r)
  /\ stage = "dial" => upGot = <<>> /\ buf = <<>>
  /\ stage = "open" => upGot = Handshake
  /\ stage = "leftover" => upGot = Opening
  /\ stage \in {"pending", "copy", "done"} =>
       HeadEnd(script) \in 1 .. r /\ upGot = Opening \o Part(script, HeadEnd(script), r)

Upwards == \E r \in 0 .. nSent : UpAt(r)

\* What a SOCKS5 server has heard when q of its words were read.
Greeted(q) == IF q = 0 THEN <<"greeting">> ELSE <<"greeting", "target">>

DownAt(q) ==
  /\ fromUp = Part(UpScript, q, upSent)
  /\ stage \in {"head", "dial"} => upSent = 0
  /\ stage \in {"head", "dial", "handshake"} => pending = <<>>
  /\ stage = "handshake" =>
       \/ way = "socks" /\ q \in 0 .. 2 /\ upGot = Greeted(q)
       \/ /\ way = "http" /\ kind = "connect" /\ upGot = <<"CONNECT">>
          /\ buf = Part(UpScript, 0, q) /\ HeadEnd(buf) = 0
  /\ stage \in {"open", "leftover", "pending"} =>
       q \in Len(UpReply) .. upSent /\ pending = Part(UpScript, Len(UpReply), q)
  /\ stage \in {"head", "dial", "handshake", "open"} => clientGot = <<>>
  /\ stage \in {"leftover", "pending"} => clientGot = Answered
  /\ stage \in {"copy", "done"} =>
       q \in Len(UpReply) .. upSent /\ clientGot = Answered \o Part(UpScript, Len(UpReply), q)

Downwards == \E q \in 0 .. upSent : DownAt(q)

\* What a client may have heard when it is turned away or cut off.
Ended ==
  /\ stage = "refused" => clientGot = <<>> \/ \E code \in Statuses : clientGot = <<code>>
  /\ stage = "broken" =>
       \/ clientGot = <<>>
       \/ \E q \in Len(UpReply) .. upSent : clientGot = Answered \o Part(UpScript, Len(UpReply), q)

\* What the invariant needs of the steps that move no byte.
LEMMA UpStays ==
  ASSUME NEW r, UpAt(r), [RelayNext]_relayVars, UNCHANGED <<fromClient, nSent, buf, leftover, upGot>>,
         \/ UNCHANGED stage
         \/ stage' \in {"refused", "broken"}
         \/ stage = "pending" /\ stage' = "copy"
         \/ stage = "copy" /\ stage' = "done"
  PROVE  UpAt(r)'
<1> USE Steady
<1>1. CASE UNCHANGED stage
  BY <1>1 DEF UpAt
<1>2. CASE stage' \in {"refused", "broken"}
  BY <1>2 DEF UpAt
<1>3. CASE stage = "pending" /\ stage' = "copy"
  BY <1>3 DEF UpAt
<1>4. CASE stage = "copy" /\ stage' = "done"
  BY <1>4 DEF UpAt
<1> QED BY <1>1, <1>2, <1>3, <1>4

LEMMA UpwardsIsInductive ==
  RelayTypeOK /\ Upwards /\ Downwards /\ [RelayNext]_relayVars => Upwards'
<1> SUFFICES ASSUME RelayTypeOK, Upwards, Downwards, [RelayNext]_relayVars PROVE Upwards'
  OBVIOUS
<1>a. PICK r \in 0 .. nSent : UpAt(r)
  BY DEF Upwards
<1>b. PICK q \in 0 .. upSent : DownAt(q)
  BY DEF Downwards
<1>c. script \in Seq(Words) /\ Handshake \in Seq(Words) /\ Opening \in Seq(Words)
  BY StreamsAreWords DEF RelayTypeOK
<1>d. nSent \in 0 .. Len(script) /\ Len(script) \in Nat
  BY <1>c, LenProperties DEF RelayTypeOK
<1> USE Steady
<1>1. CASE ClientSends
  <2>1. /\ nSent' = nSent + 1 /\ nSent < Len(script)
        /\ fromClient' = Append(fromClient, script[nSent + 1])
        /\ UNCHANGED <<stage, buf, leftover, upGot>>
    BY <1>1 DEF ClientSends
  <2>2. fromClient' = Part(script, r, nSent + 1)
    BY <1>a, <1>c, <1>d, <2>1, PartGrows DEF UpAt
  <2>3. UpAt(r)'
    BY <1>a, <2>1, <2>2 DEF UpAt
  <2>4. r \in 0 .. nSent'
    BY <1>d, <2>1
  <2> QED BY <2>3, <2>4 DEF Upwards
<1>2. CASE \/ ClientShuts \/ UpSends \/ UpShuts \/ HeadFails \/ HeadTooLate \/ DialFails
           \/ RequestFails \/ WritePending \/ CopyDown \/ Finish \/ Break
           \/ UNCHANGED relayVars
  <2>1. /\ UNCHANGED <<fromClient, nSent, buf, leftover, upGot>>
        /\ \/ UNCHANGED stage
           \/ stage' \in {"refused", "broken"}
           \/ stage = "pending" /\ stage' = "copy"
           \/ stage = "copy" /\ stage' = "done"
    BY <1>2 DEF ClientShuts, UpSends, UpShuts, HeadFails, HeadTooLate, DialFails, RequestFails,
       Refuse, WritePending, CopyDown, Finish, Break, relayVars, peers
  <2>2. UpAt(r)'
    BY <1>a, <2>1, UpStays
  <2> QED BY <2>1, <2>2 DEF Upwards
<1>3. CASE HeadStep
  <2>1. PICK n \in Reads(fromClient) : LET all == buf \o First(fromClient, n)
          IN  /\ MayGoOn(all)
              /\ fromClient' = After(fromClient, n)
              /\ IF HeadEnd(all) = 0
                 THEN buf' = all /\ UNCHANGED <<stage, leftover>>
                 ELSE buf' = <<>> /\ leftover' = Leftover(all) /\ stage' = "dial"
    BY <1>3 DEF HeadStep
  <2> DEFINE all == Part(script, 0, r + n)
  <2>2. /\ stage = "head" /\ UNCHANGED <<nSent, upGot>> /\ upGot = <<>>
        /\ fromClient = Part(script, r, nSent) /\ buf = Part(script, 0, r)
    BY <1>3, <1>a DEF HeadStep, UpAt, peers
  <2>3. /\ r + n \in r + 1 .. nSent
        /\ fromClient' = Part(script, r + n, nSent)
        /\ buf \o First(fromClient, n) = all
    <3>1. /\ script \in Seq(Words) /\ nSent \in 0 .. Len(script) /\ r \in 0 .. nSent
          /\ 0 \in 0 .. r /\ n \in Reads(Part(script, r, nSent))
      BY <1>c, <1>d, <2>2
    <3>2. /\ r + n \in r + 1 .. nSent
          /\ After(Part(script, r, nSent), n) = Part(script, r + n, nSent)
          /\ Part(script, 0, r) \o First(Part(script, r, nSent), n) = Part(script, 0, r + n)
      BY ONLY <3>1, ReadOfPart
    <3> QED BY <2>1, <2>2, <3>2
  <2>4. r + n \in 0 .. nSent /\ r + n \in 0 .. Len(script) /\ 0 \in 0 .. r + n
    BY <1>d, <2>3
  <2>5. CASE HeadEnd(all) = 0
    <3>1. buf' = all /\ stage' = "head"
      BY <2>1, <2>2, <2>3, <2>5
    <3>2. UpAt(r + n)'
      BY <2>2, <2>3, <2>5, <3>1 DEF UpAt
    <3> QED BY <2>2, <2>4, <3>2 DEF Upwards
  <2>6. CASE HeadEnd(all) # 0
    <3>1. buf' = <<>> /\ leftover' = After(all, HeadEnd(all)) /\ stage' = "dial"
      BY <2>1, <2>3, <2>6 DEF Leftover
    <3>2. HeadEnd(all) = HeadEnd(script) /\ HeadEnd(script) \in 1 .. r + n
      BY <1>c, <2>4, <2>6, HeadEndOfPart
    <3>3. leftover' = Part(script, HeadEnd(script), r + n)
      <4>1. /\ HeadEnd(script) \in 0 .. r + n
            /\ HeadEnd(script) - 0 = HeadEnd(script) /\ 0 \in 0 .. HeadEnd(script)
        BY <3>2, <2>4
      <4>2. After(all, HeadEnd(script) - 0) = Part(script, HeadEnd(script), r + n)
        BY <1>c, <2>4, <4>1, PartIsRead
      <4> QED BY <3>1, <3>2, <4>1, <4>2
    <3>4. UpAt(r + n)'
      BY <2>2, <2>3, <3>1, <3>2, <3>3 DEF UpAt
    <3> QED BY <2>2, <2>4, <3>4 DEF Upwards
  <2> QED BY <2>5, <2>6
<1>4. CASE Dial
  <2>1. /\ stage = "dial" /\ UNCHANGED <<nSent, fromClient, leftover>>
        /\ IF Handshake = <<>> THEN stage' = "open" /\ upGot' = Handshake ELSE stage' = "handshake"
    BY <1>4 DEF Dial, peers
  <2>2. UpAt(r)'
    BY <1>a, <2>1 DEF UpAt
  <2> QED BY <2>1, <2>2 DEF Upwards
<1>5. CASE SocksStep
  <2>1. /\ stage = "handshake" /\ way = "socks" /\ fromUp # <<>>
        /\ UNCHANGED <<nSent, fromClient, leftover>>
        /\ stage' = IF Head(fromUp) = "bound" THEN "open" ELSE stage
        /\ upGot' = IF Head(fromUp) = "method" THEN Append(upGot, "target") ELSE upGot
    BY <1>5 DEF SocksStep, peers
  <2>2. q \in 0 .. 2 /\ upGot = Greeted(q)
    BY <1>b, <2>1 DEF DownAt
  <2>3. Head(fromUp) = UpScript[q + 1]
    <3>1. UpScript \in Seq(Words) /\ upSent \in 0 .. Len(UpScript)
      BY StreamsAreWords DEF RelayTypeOK
    <3> QED BY <1>b, <2>1, <3>1, PartBegins DEF DownAt
  <2>4. UpScript[1] = "method" /\ UpScript[2] = "verdict" /\ UpScript[3] = "bound"
    BY <2>1, SocksReply
  <2>5. stage' = "open" => upGot' = Handshake
    <3>1. ASSUME stage' = "open" PROVE q = 2
      BY <2>1, <2>2, <2>3, <2>4, <3>1
    <3> QED BY <2>1, <2>2, <2>3, <2>4, <3>1 DEF Greeted, Handshake
  <2>6. stage' \in {"handshake", "open"}
    BY <2>1
  <2>7. UpAt(r)'
    BY <1>a, <2>1, <2>5, <2>6 DEF UpAt
  <2> QED BY <2>1, <2>7 DEF Upwards
<1>6. CASE ReplyStep
  <2>1. /\ stage = "handshake" /\ UNCHANGED <<nSent, fromClient, leftover, upGot>>
        /\ stage' \in {"handshake", "open"} /\ way = "http"
    BY <1>6 DEF ReplyStep, peers
  <2>2. upGot = Handshake
    BY <1>b, <2>1 DEF DownAt, Handshake
  <2>3. UpAt(r)'
    BY <1>a, <2>1, <2>2 DEF UpAt
  <2> QED BY <2>1, <2>3 DEF Upwards
<1>7. CASE Greet
  <2>1. /\ stage = "open" /\ stage' = "leftover" /\ UNCHANGED <<nSent, fromClient, leftover>>
        /\ upGot' = IF kind = "connect" THEN upGot ELSE upGot \o RequestLine
    BY <1>7 DEF Greet, peers
  <2>2. upGot' = Opening
    BY <1>a, <2>1 DEF UpAt, Opening, RelayTypeOK
  <2>3. UpAt(r)'
    BY <1>a, <2>1, <2>2 DEF UpAt
  <2> QED BY <2>1, <2>3 DEF Upwards
<1>8. CASE WriteLeftover
  <2>1. /\ stage = "leftover" /\ stage' = "pending" /\ UNCHANGED <<nSent, fromClient>>
        /\ upGot' = upGot \o leftover
    BY <1>8 DEF WriteLeftover, peers
  <2>2. UpAt(r)'
    BY <1>a, <2>1 DEF UpAt
  <2> QED BY <2>1, <2>2 DEF Upwards
<1>9. CASE CopyUp
  <2>1. PICK n \in Reads(fromClient) : /\ fromClient' = After(fromClient, n)
                                       /\ upGot' = upGot \o First(fromClient, n)
    BY <1>9 DEF CopyUp
  <2> DEFINE h == HeadEnd(script)
  <2>2. /\ stage = "copy" /\ stage' = "copy" /\ UNCHANGED nSent
        /\ fromClient = Part(script, r, nSent)
        /\ h \in 1 .. r /\ upGot = Opening \o Part(script, h, r)
    BY <1>9, <1>a DEF CopyUp, UpAt, peers
  <2> HIDE DEF h
  <2>3. h \in 0 .. r /\ r \in 0 .. nSent /\ r \in 0 .. Len(script)
    BY <1>d, <2>2
  <2>4. /\ r + n \in r + 1 .. nSent
        /\ fromClient' = Part(script, r + n, nSent)
        /\ Part(script, h, r) \o First(fromClient, n) = Part(script, h, r + n)
    <3>1. /\ script \in Seq(Words) /\ nSent \in 0 .. Len(script) /\ r \in 0 .. nSent
          /\ h \in 0 .. r /\ n \in Reads(Part(script, r, nSent))
      BY <1>c, <1>d, <2>2, <2>3
    <3>2. /\ r + n \in r + 1 .. nSent
          /\ After(Part(script, r, nSent), n) = Part(script, r + n, nSent)
          /\ Part(script, h, r) \o First(Part(script, r, nSent), n) = Part(script, h, r + n)
      BY ONLY <3>1, ReadOfPart
    <3> QED BY <2>1, <2>2, <3>2
  <2>5. upGot' = Opening \o Part(script, h, r + n)
    <3>1. Part(script, h, r) \in Seq(Words)
      BY <1>c, <2>3, PartIsSeq
    <3>2. First(fromClient, n) \in Seq(Words)
      BY <2>1, ReadIsSeq DEF RelayTypeOK
    <3>3. (Opening \o Part(script, h, r)) \o First(fromClient, n)
            = Opening \o (Part(script, h, r) \o First(fromClient, n))
      BY <1>c, <3>1, <3>2, ConcatAssociative
    <3> QED BY <2>1, <2>2, <2>4, <3>3
  <2>6. h \in 1 .. r + n /\ r + n \in 0 .. nSent
    BY <1>d, <2>2, <2>4
  <2>7. UpAt(r + n)'
    BY <2>2, <2>4, <2>5, <2>6 DEF UpAt, h
  <2> QED BY <2>2, <2>6, <2>7 DEF Upwards
<1> QED BY <1>1, <1>2, <1>3, <1>4, <1>5, <1>6, <1>7, <1>8, <1>9 DEF RelayNext, Handler

LEMMA DownStays ==
  ASSUME NEW q, DownAt(q), [RelayNext]_relayVars, UNCHANGED <<fromUp, upSent>>,
         \/ UNCHANGED <<stage, buf, pending, upGot, clientGot>>
         \/ stage' \in {"refused", "broken"}
         \/ stage = "copy" /\ stage' \in {"copy", "done"} /\ UNCHANGED clientGot
         \/ stage = "leftover" /\ stage' = "pending" /\ UNCHANGED <<pending, clientGot>>
         \/ stage = "head" /\ stage' \in {"head", "dial"} /\ UNCHANGED <<pending, clientGot>>
  PROVE  DownAt(q)'
<1> USE Steady
<1>1. CASE UNCHANGED <<stage, buf, pending, upGot, clientGot>>
  BY <1>1 DEF DownAt, Answered
<1>2. CASE stage' \in {"refused", "broken"}
  BY <1>2 DEF DownAt
<1>3. CASE stage = "copy" /\ stage' \in {"copy", "done"} /\ UNCHANGED clientGot
  BY <1>3 DEF DownAt, Answered
<1>4. CASE stage = "leftover" /\ stage' = "pending" /\ UNCHANGED <<pending, clientGot>>
  BY <1>4 DEF DownAt, Answered
<1>5. CASE stage = "head" /\ stage' \in {"head", "dial"} /\ UNCHANGED <<pending, clientGot>>
  BY <1>5 DEF DownAt
<1> QED BY <1>1, <1>2, <1>3, <1>4, <1>5

LEMMA DownwardsIsInductive ==
  RelayTypeOK /\ Upwards /\ Downwards /\ [RelayNext]_relayVars => Downwards'
<1> SUFFICES ASSUME RelayTypeOK, Upwards, Downwards, [RelayNext]_relayVars PROVE Downwards'
  OBVIOUS
<1>a. PICK q \in 0 .. upSent : DownAt(q)
  BY DEF Downwards
<1>b. /\ UpScript \in Seq(Words) /\ upSent \in 0 .. Len(UpScript) /\ Len(UpScript) \in Nat
      /\ Len(UpReply) \in Nat
  BY StreamsAreWords, LenProperties DEF RelayTypeOK
<1>c. Answered \in Seq(Words) /\ Answered' = Answered
  <2>1. "200" \in Words
    BY DEF Words, Statuses
  <2> QED BY <2>1, Steady DEF Answered
<1> USE Steady
<1>1. CASE UpSends
  <2>1. /\ stage \in Connected /\ upSent' = upSent + 1 /\ upSent < Len(UpScript)
        /\ fromUp' = Append(fromUp, UpScript[upSent + 1])
        /\ UNCHANGED <<stage, buf, pending, upGot, clientGot>>
    BY <1>1 DEF UpSends
  <2>2. fromUp' = Part(UpScript, q, upSent + 1)
    BY <1>a, <1>b, <2>1, PartGrows DEF DownAt
  <2>3. q \in 0 .. upSent' /\ (q \in Len(UpReply) .. upSent => q \in Len(UpReply) .. upSent')
    BY <1>b, <2>1
  <2>4. DownAt(q)'
    BY <1>a, <1>c, <2>1, <2>2, <2>3 DEF DownAt, Connected
  <2> QED BY <2>3, <2>4 DEF Downwards
<1>2. CASE \/ ClientSends \/ ClientShuts \/ UpShuts \/ HeadStep \/ HeadFails \/ HeadTooLate
           \/ DialFails \/ RequestFails \/ WriteLeftover \/ CopyUp \/ Finish \/ Break
           \/ UNCHANGED relayVars
  <2>1. /\ UNCHANGED <<fromUp, upSent>>
        /\ \/ UNCHANGED <<stage, buf, pending, upGot, clientGot>>
           \/ stage' \in {"refused", "broken"}
           \/ stage = "copy" /\ stage' \in {"copy", "done"} /\ UNCHANGED clientGot
           \/ stage = "leftover" /\ stage' = "pending" /\ UNCHANGED <<pending, clientGot>>
           \/ stage = "head" /\ stage' \in {"head", "dial"} /\ UNCHANGED <<pending, clientGot>>
    BY <1>2 DEF ClientSends, ClientShuts, UpShuts, HeadStep, HeadFails, HeadTooLate, DialFails,
       RequestFails, Refuse, WriteLeftover, CopyUp, Finish, Break, relayVars, peers
  <2>2. DownAt(q)'
    BY <1>a, <2>1, DownStays
  <2> QED BY <2>1, <2>2 DEF Downwards
<1>3. CASE Dial
  <2>1. /\ stage = "dial" /\ UNCHANGED <<fromUp, upSent, buf, pending, clientGot>>
        /\ stage' = IF Handshake = <<>> THEN "open" ELSE "handshake"
        /\ upGot' = IF Handshake = <<>> THEN <<>> ELSE <<Handshake[1]>>
    BY <1>3 DEF Dial, peers
  <2>2. upSent = 0 /\ q = 0 /\ clientGot = <<>> /\ pending = <<>> /\ fromUp = Part(UpScript, 0, 0)
    BY <1>a, <2>1 DEF DownAt
  <2>3. Part(UpScript, 0, 0) = <<>>
    BY <1>b, NoPart
  <2>4. CASE Handshake = <<>>
    <3>1. UpReply = <<>> /\ Len(UpReply) = 0
      BY <2>4 DEF Handshake, UpReply, RelayTypeOK
    <3>2. DownAt(0)'
      BY <2>1, <2>2, <2>3, <2>4, <3>1 DEF DownAt
    <3> QED BY <2>1, <2>2, <3>2 DEF Downwards
  <2>5. CASE Handshake # <<>> /\ way = "socks"
    <3>1. upGot' = Greeted(0) /\ stage' = "handshake"
      BY <2>1, <2>5 DEF Handshake, Greeted
    <3>2. DownAt(0)'
      BY <2>1, <2>2, <2>5, <3>1 DEF DownAt
    <3> QED BY <2>1, <2>2, <3>2 DEF Downwards
  <2>6. CASE Handshake # <<>> /\ way # "socks"
    <3>1. way = "http" /\ kind = "connect" /\ upGot' = <<"CONNECT">> /\ stage' = "handshake"
      BY <2>1, <2>6 DEF Handshake
    <3>2. buf = <<>> /\ HeadEnd(<<>>) = 0
      <4>1. buf = <<>>
        BY <2>1 DEF Upwards, UpAt
      <4>2. HeadEnd(<<>>) = 0
        BY EmptySeq DEF HeadEnd
      <4> QED BY <4>1, <4>2
    <3>3. DownAt(0)'
      BY <2>1, <2>2, <2>3, <3>1, <3>2 DEF DownAt
    <3> QED BY <2>1, <2>2, <3>3 DEF Downwards
  <2> QED BY <2>4, <2>5, <2>6
<1>4. CASE SocksStep
  <2>1. /\ stage = "handshake" /\ way = "socks" /\ fromUp # <<>>
        /\ UNCHANGED <<upSent, pending, clientGot>>
        /\ fromUp' = Tail(fromUp)
        /\ stage' = IF Head(fromUp) = "bound" THEN "open" ELSE stage
        /\ upGot' = IF Head(fromUp) = "method" THEN Append(upGot, "target") ELSE upGot
    BY <1>4 DEF SocksStep, peers
  <2>2. q \in 0 .. 2 /\ upGot = Greeted(q) /\ pending = <<>> /\ clientGot = <<>>
    BY <1>a, <2>1 DEF DownAt
  <2>3. q < upSent /\ Head(fromUp) = UpScript[q + 1] /\ fromUp' = Part(UpScript, q + 1, upSent)
    BY <1>a, <1>b, <2>1, PartBegins DEF DownAt
  <2>4. /\ UpScript[1] = "method" /\ UpScript[2] = "verdict" /\ UpScript[3] = "bound"
        /\ Len(UpReply) = 3
    BY <2>1, SocksReply
  <2>5. q + 1 \in 0 .. upSent
    BY <1>b, <2>3
  <2>6. CASE q = 2
    <3>1. stage' = "open" /\ 3 \in Len(UpReply) .. upSent
      BY <1>b, <2>1, <2>3, <2>4, <2>6
    <3>2. Part(UpScript, 3, 3) = <<>>
      BY <1>b, <2>5, <2>6, NoPart
    <3>3. fromUp' = Part(UpScript, 3, upSent)
      BY <2>3, <2>6
    <3>4. DownAt(3)'
      BY <2>1, <2>2, <2>4, <3>1, <3>2, <3>3 DEF DownAt
    <3> QED BY <2>1, <2>5, <2>6, <3>4 DEF Downwards
  <2>7. CASE q # 2
    <3>1. stage' = "handshake" /\ q + 1 \in 0 .. 2
      BY <2>1, <2>2, <2>3, <2>4, <2>7
    <3>2. upGot' = Greeted(q + 1)
      <4>1. CASE q = 0
        <5>1. upGot' = Append(<<"greeting">>, "target")
          BY <2>1, <2>2, <2>3, <2>4, <4>1 DEF Greeted
        <5>2. Append(<<"greeting">>, "target") = <<"greeting", "target">>
          <6> DEFINE T == {"greeting", "target"}
          <6>1. <<"greeting">> \in Seq(T) /\ Len(<<"greeting">>) = 1 /\ "target" \in T
            OBVIOUS
          <6>2. /\ Append(<<"greeting">>, "target") \in Seq(T)
                /\ Len(Append(<<"greeting">>, "target")) = 2
                /\ Append(<<"greeting">>, "target")[1] = "greeting"
                /\ Append(<<"greeting">>, "target")[2] = "target"
            BY <6>1, AppendProperties
          <6> DEFINE g == <<"greeting", "target">>
          <6>3. g \in Seq(T) /\ Len(g) = 2 /\ g[1] = "greeting" /\ g[2] = "target"
            OBVIOUS
          <6> HIDE DEF g, T
          <6>4. \A i \in 1 .. 2 : Append(<<"greeting">>, "target")[i] = g[i]
            BY <6>2, <6>3
          <6>5. Append(<<"greeting">>, "target") = g
            BY <6>2, <6>3, <6>4, SeqEqual
          <6> QED BY <6>5 DEF g
        <5>3. Greeted(q + 1) = <<"greeting", "target">>
          BY <4>1 DEF Greeted
        <5> QED BY <5>1, <5>2, <5>3
      <4>2. CASE q = 1
        BY <2>1, <2>2, <2>3, <2>4, <4>2 DEF Greeted
      <4> QED BY <2>2, <2>7, <4>1, <4>2
    <3>3. DownAt(q + 1)'
      BY <2>1, <2>2, <2>3, <3>1, <3>2 DEF DownAt
    <3> QED BY <2>1, <2>5, <3>3 DEF Downwards
  <2> QED BY <2>6, <2>7
<1>5. CASE ReplyStep
  <2>1. PICK n \in Reads(fromUp) : LET all == buf \o First(fromUp, n)
          IN  /\ MayGoOn(all)
              /\ fromUp' = After(fromUp, n)
              /\ IF HeadEnd(all) = 0
                 THEN buf' = all /\ UNCHANGED <<stage, pending>>
                 ELSE buf' = <<>> /\ pending' = Pending(all) /\ stage' = "open"
    BY <1>5 DEF ReplyStep
  <2> DEFINE all == Part(UpScript, 0, q + n)
  <2>2. /\ stage = "handshake" /\ way = "http" /\ UNCHANGED <<upSent, upGot, clientGot>>
        /\ kind = "connect" /\ upGot = <<"CONNECT">> /\ pending = <<>> /\ clientGot = <<>>
        /\ fromUp = Part(UpScript, q, upSent) /\ buf = Part(UpScript, 0, q)
    BY <1>5, <1>a DEF ReplyStep, DownAt, peers
  <2>3. /\ q + n \in q + 1 .. upSent
        /\ fromUp' = Part(UpScript, q + n, upSent)
        /\ buf \o First(fromUp, n) = all
    <3>1. /\ UpScript \in Seq(Words) /\ upSent \in 0 .. Len(UpScript) /\ q \in 0 .. upSent
          /\ 0 \in 0 .. q /\ n \in Reads(Part(UpScript, q, upSent))
      BY <1>b, <2>2
    <3>2. /\ q + n \in q + 1 .. upSent
          /\ After(Part(UpScript, q, upSent), n) = Part(UpScript, q + n, upSent)
          /\ Part(UpScript, 0, q) \o First(Part(UpScript, q, upSent), n) = Part(UpScript, 0, q + n)
      BY ONLY <3>1, ReadOfPart
    <3> QED BY <2>1, <2>2, <3>2
  <2>4. q + n \in 0 .. upSent /\ q + n \in 0 .. Len(UpScript) /\ 0 \in 0 .. q + n
    BY <1>b, <2>3
  <2>5. CASE HeadEnd(all) = 0
    <3>1. buf' = all /\ stage' = "handshake" /\ pending' = <<>>
      BY <2>1, <2>2, <2>3, <2>5
    <3>2. DownAt(q + n)'
      BY <2>2, <2>3, <2>5, <3>1 DEF DownAt
    <3> QED BY <2>2, <2>4, <3>2 DEF Downwards
  <2>6. CASE HeadEnd(all) # 0
    <3>1. pending' = After(all, HeadEnd(all)) /\ stage' = "open"
      BY <2>1, <2>3, <2>6 DEF Pending
    <3>2. HeadEnd(all) = 2 /\ 2 \in 1 .. q + n /\ Len(UpReply) = 2
      <4>1. HeadEnd(all) = HeadEnd(UpScript) /\ HeadEnd(UpScript) \in 1 .. q + n
        BY <1>b, <2>4, <2>6, HeadEndOfPart
      <4>2. HeadEnd(UpScript) = 2 /\ Len(UpReply) = 2
        BY <2>2, ProxyReply
      <4> QED BY <4>1, <4>2
    <3>3. pending' = Part(UpScript, 2, q + n)
      <4>1. 2 \in 0 .. q + n /\ 2 - 0 = 2 /\ 0 \in 0 .. 2
        BY <3>2, <2>4
      <4>2. After(all, 2 - 0) = Part(UpScript, 2, q + n)
        BY <1>b, <2>4, <4>1, PartIsRead
      <4> QED BY <3>1, <3>2, <4>2
    <3>4. q + n \in Len(UpReply) .. upSent
      BY <1>b, <2>4, <3>2
    <3>5. DownAt(q + n)'
      BY <2>2, <2>3, <3>1, <3>2, <3>3, <3>4 DEF DownAt
    <3> QED BY <2>2, <2>4, <3>5 DEF Downwards
  <2> QED BY <2>5, <2>6
<1>6. CASE Greet
  <2>1. /\ stage = "open" /\ stage' = "leftover" /\ UNCHANGED <<upSent, fromUp, pending>>
        /\ clientGot' = IF kind = "connect" THEN <<"200">> ELSE clientGot
    BY <1>6 DEF Greet, peers
  <2>2. clientGot' = Answered
    BY <1>a, <2>1 DEF DownAt, Answered
  <2>3. DownAt(q)'
    BY <1>a, <1>c, <2>1, <2>2 DEF DownAt
  <2> QED BY <2>1, <2>3 DEF Downwards
<1>7. CASE WritePending
  <2>1. /\ stage = "pending" /\ stage' = "copy" /\ UNCHANGED <<upSent, fromUp>>
        /\ clientGot' = clientGot \o pending
    BY <1>7 DEF WritePending, peers
  <2>2. DownAt(q)'
    BY <1>a, <1>c, <2>1 DEF DownAt
  <2> QED BY <2>1, <2>2 DEF Downwards
<1>8. CASE CopyDown
  <2>1. PICK n \in Reads(fromUp) : /\ fromUp' = After(fromUp, n)
                                   /\ clientGot' = clientGot \o First(fromUp, n)
    BY <1>8 DEF CopyDown
  <2> DEFINE k == Len(UpReply)
  <2>2. /\ stage = "copy" /\ stage' = "copy" /\ UNCHANGED upSent
        /\ fromUp = Part(UpScript, q, upSent)
        /\ k \in 0 .. q /\ clientGot = Answered \o Part(UpScript, k, q)
    BY <1>8, <1>a, <1>b DEF CopyDown, DownAt, peers
  <2> HIDE DEF k
  <2>3. /\ q + n \in q + 1 .. upSent
        /\ fromUp' = Part(UpScript, q + n, upSent)
        /\ Part(UpScript, k, q) \o First(fromUp, n) = Part(UpScript, k, q + n)
    <3>1. /\ UpScript \in Seq(Words) /\ upSent \in 0 .. Len(UpScript) /\ q \in 0 .. upSent
          /\ k \in 0 .. q /\ n \in Reads(Part(UpScript, q, upSent))
      BY <1>b, <2>2
    <3>2. /\ q + n \in q + 1 .. upSent
          /\ After(Part(UpScript, q, upSent), n) = Part(UpScript, q + n, upSent)
          /\ Part(UpScript, k, q) \o First(Part(UpScript, q, upSent), n) = Part(UpScript, k, q + n)
      BY ONLY <3>1, ReadOfPart
    <3> QED BY <2>1, <2>2, <3>2
  <2>4. clientGot' = Answered \o Part(UpScript, k, q + n)
    <3>1. Part(UpScript, k, q) \in Seq(Words)
      <4>1. q \in 0 .. Len(UpScript)
        BY <1>b
      <4> QED BY <1>b, <2>2, <4>1, PartIsSeq
    <3>2. First(fromUp, n) \in Seq(Words)
      BY <2>1, ReadIsSeq DEF RelayTypeOK
    <3>3. (Answered \o Part(UpScript, k, q)) \o First(fromUp, n)
            = Answered \o (Part(UpScript, k, q) \o First(fromUp, n))
      BY <1>c, <3>1, <3>2, ConcatAssociative
    <3> QED BY <2>1, <2>2, <2>3, <3>3
  <2>5. q + n \in k .. upSent /\ q + n \in 0 .. upSent
    BY <1>b, <2>2, <2>3
  <2>6. DownAt(q + n)'
    BY <1>c, <2>2, <2>3, <2>4, <2>5 DEF DownAt, k
  <2> QED BY <2>2, <2>5, <2>6 DEF Downwards
<1> QED BY <1>1, <1>2, <1>3, <1>4, <1>5, <1>6, <1>7, <1>8 DEF RelayNext, Handler

LEMMA EndedIsInductive ==
  RelayTypeOK /\ Downwards /\ Ended /\ [RelayNext]_relayVars => Ended'
<1> SUFFICES ASSUME RelayTypeOK, Downwards, Ended, [RelayNext]_relayVars PROVE Ended'
  OBVIOUS
<1>a. PICK q \in 0 .. upSent : DownAt(q)
  BY DEF Downwards
<1>b. /\ UpScript \in Seq(Words) /\ upSent \in 0 .. Len(UpScript) /\ Len(UpScript) \in Nat
      /\ Len(UpReply) \in 0 .. Len(UpScript)
  BY StreamsAreWords, LenProperties DEF RelayTypeOK
<1>c. Answered \in Seq(Words) /\ Answered' = Answered
  <2>1. "200" \in Words
    BY DEF Words, Statuses
  <2> QED BY <2>1, Steady DEF Answered
<1> USE Steady
<1>1. CASE HeadFails \/ HeadTooLate \/ DialFails \/ RequestFails
  <2>1. PICK code \in Statuses : Refuse(code)
    BY <1>1 DEF HeadFails, HeadTooLate, DialFails, RequestFails, Statuses
  <2>2. clientGot = <<>>
    BY <1>1, <1>a DEF HeadFails, HeadTooLate, DialFails, RequestFails, DownAt
  <2>3. /\ stage' = "refused"
        /\ clientGot' = Append(<<>>, code) \/ clientGot' = <<>>
    BY <2>1, <2>2 DEF Refuse
  <2>4. clientGot' = <<code>> \/ clientGot' = <<>>
    BY <2>3
  <2> QED BY <2>3, <2>4 DEF Ended
<1>2. CASE Break
  <2>1. /\ stage \in {"open", "leftover", "pending", "copy"} /\ stage' = "broken"
        /\ UNCHANGED <<upSent, clientGot>>
    BY <1>2 DEF Break, peers
  <2>2. CASE stage = "open"
    BY <1>a, <2>1, <2>2 DEF DownAt, Ended
  <2>3. CASE stage \in {"leftover", "pending"}
    <3>1. clientGot = Answered /\ q \in Len(UpReply) .. upSent
      BY <1>a, <2>3 DEF DownAt
    <3>2. Answered = Answered \o Part(UpScript, Len(UpReply), Len(UpReply))
      BY <1>b, <1>c, NoPart, ConcatEmptySeq
    <3>3. Len(UpReply) \in Len(UpReply) .. upSent
      BY <1>b, <3>1
    <3> QED BY <1>c, <2>1, <3>1, <3>2, <3>3 DEF Ended
  <2>4. CASE stage = "copy"
    BY <1>a, <1>c, <2>1, <2>4 DEF DownAt, Ended
  <2> QED BY <2>1, <2>2, <2>3, <2>4
<1>3. CASE UNCHANGED <<stage, upSent, clientGot>>
  BY <1>3, <1>c DEF Ended
<1>4. CASE stage' \notin {"refused", "broken"}
  BY <1>4 DEF Ended
<1>5. \/ HeadFails \/ HeadTooLate \/ DialFails \/ RequestFails \/ Break
      \/ UNCHANGED <<stage, upSent, clientGot>>
      \/ stage' \notin {"refused", "broken"}
  BY DEF RelayNext, Handler, relayVars, peers, ClientSends, ClientShuts, UpSends, UpShuts, Connected,
     HeadStep, Dial, SocksStep, ReplyStep, Greet, WriteLeftover, WritePending, CopyUp, CopyDown, Finish
<1> QED BY <1>1, <1>2, <1>3, <1>4, <1>5

-----------------------------------------------------------------------------
LEMMA InitPlaced == RelayInit => Upwards /\ Downwards /\ Ended
<1> SUFFICES ASSUME RelayInit PROVE Upwards /\ Downwards /\ Ended
  OBVIOUS
<1>1. script \in Seq(Words) /\ UpScript \in Seq(Words)
  BY StreamsAreWords DEF RelayInit
<1>2. Part(script, 0, 0) = <<>> /\ Part(UpScript, 0, 0) = <<>> /\ HeadEnd(<<>>) = 0
  <2>1. 0 \in 0 .. Len(script) /\ 0 \in 0 .. Len(UpScript)
    BY <1>1, LenProperties
  <2>2. HeadEnd(<<>>) = 0
    BY EmptySeq DEF HeadEnd
  <2> QED BY <1>1, <2>1, <2>2, NoPart
<1>3. UpAt(0) /\ nSent = 0
  BY <1>2 DEF RelayInit, UpAt
<1>4. DownAt(0) /\ upSent = 0
  BY <1>2 DEF RelayInit, DownAt
<1> QED BY <1>3, <1>4 DEF RelayInit, Upwards, Downwards, Ended

Placed == RelayTypeOK /\ Upwards /\ Downwards /\ Ended

THEOREM BytesArePlaced == RelaySpec => []Placed
<1>1. RelayInit => Placed
  BY InitTyped, InitPlaced DEF Placed
<1>2. Placed /\ [RelayNext]_relayVars => Placed'
  BY TypedIsInductive, UpwardsIsInductive, DownwardsIsInductive, EndedIsInductive DEF Placed
<1> QED BY <1>1, <1>2, PTL DEF RelaySpec

\* In every stage the client has heard nothing, one error status, or the bridge's
\* answer and then the origin's payload from its beginning.
LEMMA ClientHeard ==
  ASSUME Placed
  PROVE  \/ clientGot = <<>>
         \/ stage = "refused" /\ \E code \in Statuses : clientGot = <<code>>
         \/ \E q \in Len(UpReply) .. upSent :
              clientGot = Answered \o Part(UpScript, Len(UpReply), q)
<1>a. PICK q \in 0 .. upSent : DownAt(q)
  BY DEF Placed, Downwards
<1>b. /\ UpScript \in Seq(Words) /\ upSent \in 0 .. Len(UpScript) /\ Len(UpScript) \in Nat
      /\ Len(UpReply) \in 0 .. Len(UpScript)
  BY StreamsAreWords, LenProperties DEF Placed, RelayTypeOK
<1>c. Answered \in Seq(Words)
  <2>1. "200" \in Words
    BY DEF Words, Statuses
  <2> QED BY <2>1 DEF Answered
<1>1. CASE stage \in {"head", "dial", "handshake", "open"}
  BY <1>a, <1>1 DEF DownAt
<1>2. CASE stage \in {"leftover", "pending"}
  <2>1. clientGot = Answered /\ q \in Len(UpReply) .. upSent
    BY <1>a, <1>2 DEF DownAt
  <2>2. Answered = Answered \o Part(UpScript, Len(UpReply), Len(UpReply))
    BY <1>b, <1>c, NoPart, ConcatEmptySeq
  <2>3. Len(UpReply) \in Len(UpReply) .. upSent
    BY <1>b, <2>1
  <2> QED BY <2>1, <2>2, <2>3
<1>3. CASE stage \in {"copy", "done"}
  BY <1>a, <1>3 DEF DownAt
<1>4. CASE stage \in {"refused", "broken"}
  BY <1>4 DEF Placed, Ended
<1> QED BY <1>1, <1>2, <1>3, <1>4 DEF Placed, RelayTypeOK, RelayStages

\* The verdict comes first and once, and no status falls into a stream: the
\* theorem states the run's StatusComesFirst for every script, payload and size.
THEOREM VerdictComesFirst == RelaySpec => []StatusComesFirst
<1>1. Placed => StatusComesFirst
  <2> SUFFICES ASSUME Placed PROVE StatusComesFirst
    OBVIOUS
  <2>b. /\ UpScript \in Seq(Words) /\ upSent \in 0 .. Len(UpScript) /\ Len(UpScript) \in Nat
        /\ Len(UpReply) \in 0 .. Len(UpScript)
        /\ \A i \in Len(UpReply) + 1 .. Len(UpScript) : UpScript[i] \in Pieces
    BY StreamsAreWords, LenProperties DEF Placed, RelayTypeOK
  <2>1. CASE clientGot = <<>>
    BY <2>1, EmptySeq DEF StatusComesFirst, Placed
  <2>2. CASE stage = "refused" /\ \E code \in Statuses : clientGot = <<code>>
    <3>1. PICK code \in Statuses : clientGot = <<code>>
      BY <2>2
    <3>2. clientGot[1] \in Statuses /\ Len(clientGot) = 1
      BY <3>1
    <3> QED BY <2>2, <3>2 DEF StatusComesFirst, Placed
  <2>3. CASE \E q \in Len(UpReply) .. upSent :
               clientGot = Answered \o Part(UpScript, Len(UpReply), q)
    <3> DEFINE k == Len(UpReply)
    <3>1. PICK q \in k .. upSent : clientGot = Answered \o Part(UpScript, k, q)
      BY <2>3
    <3> DEFINE p == Part(UpScript, k, q)
    <3>2. q \in 0 .. Len(UpScript) /\ k \in 0 .. q
      BY <2>b, <3>1
    <3>3. p \in Seq(Words) /\ Len(p) = q - k /\ \A i \in 1 .. q - k : p[i] = UpScript[k + i]
      BY <2>b, <3>2, PartIsSeq
    <3>4. ASSUME NEW i \in 1 .. q - k PROVE p[i] \notin Statuses
      <4>1. k + i \in k + 1 .. Len(UpScript)
        BY <2>b, <3>2
      <4> QED BY <2>b, <3>3, <4>1, PiecesAssumption
    <3> HIDE DEF p, k
    <3>5. CASE kind = "connect"
      <4>1. Answered = <<"200">> /\ "200" \in Statuses /\ "200" \in Words
        BY <3>5 DEF Answered, Statuses, Words
      <4>2. /\ Len(clientGot) = 1 + (q - k)
            /\ clientGot[1] = "200"
            /\ \A i \in 2 .. 1 + (q - k) : clientGot[i] = p[i - 1]
        <5>1. <<"200">> \in Seq(Words) /\ Len(<<"200">>) = 1
          BY <4>1
        <5>2. clientGot = <<"200">> \o p
          BY <3>1, <4>1 DEF p
        <5> DEFINE v == <<"200">>
        <5>3. v \in Seq(Words) /\ Len(v) = 1 /\ v[1] = "200" /\ clientGot = v \o p
          BY <5>1, <5>2
        <5> HIDE DEF v
        <5>4. /\ Len(v \o p) = Len(v) + Len(p)
              /\ \A i \in 1 .. Len(v) + Len(p) : (v \o p)[i] = IF i <= Len(v) THEN v[i] ELSE p[i - Len(v)]
          BY ONLY <3>3, <5>3, ConcatProperties
        <5> QED BY <2>b, <3>2, <3>3, <5>3, <5>4
      <4>3. ASSUME NEW i \in 2 .. Len(clientGot) PROVE clientGot[i] \notin Statuses
        <5>1. i \in 2 .. 1 + (q - k) /\ i - 1 \in 1 .. q - k
          BY <3>2, <4>2
        <5> QED BY <3>4, <4>2, <5>1
      <4> QED BY <3>5, <4>1, <4>2, <4>3 DEF StatusComesFirst, Placed
    <3>6. CASE kind # "connect"
      <4>1. clientGot = p
        <5>1. Answered = <<>>
          BY <3>6 DEF Answered
        <5> QED BY <3>1, <3>3, <5>1, ConcatEmptySeq DEF p
      <4>2. \A i \in 1 .. Len(clientGot) : clientGot[i] \notin Statuses
        BY <3>3, <3>4, <4>1
      <4>3. clientGot # <<>> => 1 \in 1 .. Len(clientGot)
        BY <3>3, <4>1, EmptySeq
      <4>4. \A i \in 2 .. Len(clientGot) : i \in 1 .. Len(clientGot)
        BY <3>2, <3>3, <4>1
      <4> QED BY <3>6, <4>2, <4>3, <4>4 DEF StatusComesFirst, Placed
    <3> QED BY <3>5, <3>6
  <2> QED BY <2>1, <2>2, <2>3, ClientHeard
<1> QED BY <1>1, BytesArePlaced, PTL

-----------------------------------------------------------------------------
(* Each direction implements a channel.                                    *)

\* Prefixes of one stream, of which the second is no shorter: nothing arrived,
\* or a channel delivered something.
LEMMA PrefixGrows ==
  ASSUME NEW S, NEW s \in Seq(S), NEW c \in 0 .. Len(s), NEW e \in 0 .. c,
         NEW a \in e .. c, NEW b \in e .. c, Len(Part(s, e, a)) <= Len(Part(s, e, b))
  PROVE  \/ Part(s, e, b) = Part(s, e, a)
         \/ /\ b - e \in Len(Part(s, e, a)) + 1 .. Len(Part(s, e, c))
            /\ Part(s, e, b) = SubSeq(Part(s, e, c), 1, b - e)
<1>0. Len(s) \in Nat
  BY LenProperties
<1>1. /\ a \in 0 .. Len(s) /\ b \in 0 .. Len(s) /\ e \in 0 .. a /\ e \in 0 .. b
      /\ b \in 0 .. c /\ c \in e .. c /\ e \in 0 .. c
  BY <1>0
<1>2. Len(Part(s, e, a)) = a - e /\ Len(Part(s, e, b)) = b - e /\ Len(Part(s, e, c)) = c - e
  BY <1>1, PartIsSeq
<1>3. CASE a = b
  BY <1>3
<1>4. CASE a # b
  <2>1. b - e \in Len(Part(s, e, a)) + 1 .. Len(Part(s, e, c))
    BY <1>0, <1>2, <1>4
  <2>2. First(Part(s, e, c), b - e) = Part(s, e, b)
    BY <1>1, PartIsRead
  <2> QED BY <2>1, <2>2 DEF First
<1> QED BY <1>3, <1>4

\* One more piece was sent; it counts from position e on.
LEMMA StreamGrows ==
  ASSUME NEW S, NEW s \in Seq(S), NEW b \in 0 .. Len(s), b < Len(s), NEW e \in 0 .. Len(s)
  PROVE  \/ Part(s, e, b + 1) = Part(s, e, b)
         \/ Part(s, e, b + 1) = Append(Part(s, e, b), s[b + 1]) /\ s[b + 1] \in S
<1>0. Len(s) \in Nat /\ s[b + 1] \in S
  BY LenProperties, ElementOfSeq
<1>1. CASE e <= b
  <2>1. e \in 0 .. b
    BY <1>0, <1>1
  <2> QED BY <1>0, <2>1, PartGrows
<1>2. CASE e > b
  <2>1. e + 1 > b + 1 /\ e + 1 > b /\ e + 1 \in Int /\ b + 1 \in Int /\ b \in Int
    BY <1>0, <1>2
  <2>2. Part(s, e, b + 1) = <<>> /\ Part(s, e, b) = <<>>
    BY <2>1, SubSeqEmpty DEF Part
  <2> QED BY <2>2
<1> QED BY <1>0, <1>1, <1>2

\* What a step may do to the words already written.
LEMMA StepsWrite ==
  ASSUME Placed, [RelayNext]_relayVars
  PROVE  /\ Len(upGot) <= Len(upGot') \/ stage = "dial"
         /\ Len(clientGot) <= Len(clientGot')
         /\ Failed => UNCHANGED <<stage, upSent, upGot, clientGot>>
         /\ Failed' /\ ~Failed =>
              /\ UNCHANGED <<nSent, upSent, upGot>>
              /\ stage' = "broken" => UNCHANGED clientGot
              /\ stage' = "refused" => stage \in {"head", "dial", "handshake", "open"}
<1> USE DEF Failed
<1>0. RelayTypeOK /\ Len(upGot) \in Nat /\ Len(clientGot) \in Nat
  BY LenProperties DEF Placed, RelayTypeOK
<1>1. CASE Failed
  <2>1. UNCHANGED <<stage, upSent, upGot, clientGot>>
    BY <1>1 DEF RelayNext, Handler, relayVars, peers, ClientSends, ClientShuts, UpSends, UpShuts,
       Connected, HeadStep, HeadFails, HeadTooLate, Dial, SocksStep, ReplyStep, DialFails, Greet,
       RequestFails, WriteLeftover, WritePending, CopyUp, CopyDown, Finish, Break
  <2> QED BY <1>0, <1>1, <2>1
<1>2. CASE ~Failed /\ (HeadFails \/ HeadTooLate \/ DialFails \/ RequestFails)
  <2>1. PICK code \in Statuses : Refuse(code)
    BY <1>2 DEF HeadFails, HeadTooLate, DialFails, RequestFails, Statuses
  <2>2. Len(clientGot) <= Len(clientGot')
    <3>1. code \in Words
      BY DEF Words
    <3>2. Len(Append(clientGot, code)) = Len(clientGot) + 1
      BY <1>0, <3>1, AppendProperties DEF RelayTypeOK
    <3> QED BY <1>0, <2>1, <3>2 DEF Refuse
  <2>3. stage' = "refused" /\ UNCHANGED <<nSent, upSent, upGot>>
    BY <2>1 DEF Refuse, peers
  <2>4. stage \in {"head", "dial", "handshake", "open"}
    BY <1>2 DEF HeadFails, HeadTooLate, DialFails, RequestFails
  <2> QED BY <1>0, <1>2, <2>2, <2>3, <2>4
<1>3. CASE ~Failed /\ Break
  BY <1>0, <1>3 DEF Break, peers
<1>4. CASE ~Failed /\ (Dial \/ SocksStep)
  <2>1. stage' \notin {"refused", "broken"} /\ UNCHANGED clientGot
    BY <1>4 DEF Dial, SocksStep
  <2>2. CASE Dial
    BY <1>0, <2>1, <2>2 DEF Dial
  <2>3. CASE SocksStep
    <3>1. "target" \in Words
      BY DEF Words
    <3>2. Len(Append(upGot, "target")) = Len(upGot) + 1
      BY <1>0, <3>1, AppendProperties DEF RelayTypeOK
    <3> QED BY <1>0, <2>1, <2>3, <3>2 DEF SocksStep
  <2> QED BY <1>4, <2>2, <2>3
<1>5. CASE ~Failed /\ Greet
  <2>1. stage' = "leftover" /\ stage = "open"
    BY <1>5 DEF Greet
  <2>2. Len(upGot) <= Len(upGot')
    <3>1. RequestLine \in Seq(Words)
      BY <1>0, StreamsAreWords DEF RelayTypeOK
    <3>2. Len(upGot \o RequestLine) = Len(upGot) + Len(RequestLine) /\ Len(RequestLine) \in Nat
      BY <1>0, <3>1, ConcatProperties, LenProperties DEF RelayTypeOK
    <3> QED BY <1>0, <1>5, <3>2 DEF Greet
  <2>3. Len(clientGot) <= Len(clientGot')
    <3>1. clientGot = <<>>
      BY <2>1 DEF Placed, Downwards, DownAt
    <3>2. clientGot' = <<"200">> \/ clientGot' = clientGot
      BY <1>5 DEF Greet
    <3> QED BY <1>0, <3>1, <3>2
  <2> QED BY <1>5, <2>1, <2>2, <2>3
<1>6. CASE ~Failed /\ (WriteLeftover \/ CopyUp)
  <2>1. PICK x \in Seq(Words) : upGot' = upGot \o x
    <3>1. CASE WriteLeftover
      BY <1>0, <3>1 DEF WriteLeftover, RelayTypeOK
    <3>2. CASE CopyUp
      BY <1>0, <3>2, ReadIsSeq DEF CopyUp, RelayTypeOK
    <3> QED BY <1>6, <3>1, <3>2
  <2>2. Len(upGot \o x) = Len(upGot) + Len(x) /\ Len(x) \in Nat
    BY <1>0, ConcatProperties, LenProperties DEF RelayTypeOK
  <2>3. UNCHANGED clientGot /\ stage' \notin {"refused", "broken"}
    BY <1>6 DEF WriteLeftover, CopyUp
  <2> QED BY <1>0, <1>6, <2>1, <2>2, <2>3
<1>7. CASE ~Failed /\ (WritePending \/ CopyDown)
  <2>1. PICK x \in Seq(Words) : clientGot' = clientGot \o x
    <3>1. CASE WritePending
      BY <1>0, <3>1 DEF WritePending, RelayTypeOK
    <3>2. CASE CopyDown
      BY <1>0, <3>2, ReadIsSeq DEF CopyDown, RelayTypeOK
    <3> QED BY <1>7, <3>1, <3>2
  <2>2. Len(clientGot \o x) = Len(clientGot) + Len(x) /\ Len(x) \in Nat
    BY <1>0, ConcatProperties, LenProperties DEF RelayTypeOK
  <2>3. UNCHANGED upGot /\ stage' \notin {"refused", "broken"}
    BY <1>7 DEF WritePending, CopyDown
  <2> QED BY <1>0, <1>7, <2>1, <2>2, <2>3
<1>8. CASE ~Failed /\ (\/ ClientSends \/ ClientShuts \/ UpSends \/ UpShuts \/ HeadStep \/ ReplyStep
                       \/ Finish \/ UNCHANGED relayVars)
  <2>1. UNCHANGED <<upGot, clientGot>> /\ stage' \notin {"refused", "broken"}
    BY <1>8 DEF ClientSends, ClientShuts, UpSends, UpShuts, HeadStep, ReplyStep, Finish, relayVars
  <2> QED BY <1>0, <1>8, <2>1
<1> QED BY <1>1, <1>2, <1>3, <1>4, <1>5, <1>6, <1>7, <1>8 DEF RelayNext, Handler

\* Nothing of a stream is left behind its end.
LEMMA NothingAfter ==
  ASSUME NEW S, NEW s \in Seq(S), NEW n \in Nat, Len(s) <= n
  PROVE  After(s, n) = <<>>
<1>1. n + 1 > Len(s) /\ n + 1 \in Int /\ Len(s) \in Int
  BY LenProperties
<1> QED BY <1>1, SubSeqEmpty DEF After

\* After n pieces no stream is longer than a longer one.
LEMMA AfterGrows ==
  ASSUME NEW S, NEW s \in Seq(S), NEW t \in Seq(S), NEW n \in Nat, Len(s) <= Len(t)
  PROVE  Len(After(s, n)) <= Len(After(t, n))
<1>0. Len(s) \in Nat /\ Len(t) \in Nat
  BY LenProperties
<1>1. \A u \in Seq(S) : Len(After(u, n)) = IF n < Len(u) THEN Len(u) - n ELSE 0
  <2> TAKE u \in Seq(S)
  <2>0. Len(u) \in Nat
    BY LenProperties
  <2>1. CASE n < Len(u)
    <3>1. n \in 0 .. Len(u) /\ Len(u) \in 0 .. Len(u)
      BY <2>0, <2>1
    <3>2. Len(Part(u, n, Len(u))) = Len(u) - n
      BY <3>1, PartIsSeq
    <3> QED BY <2>1, <3>2 DEF Part, After
  <2>2. CASE Len(u) <= n
    <3>1. After(u, n) = <<>>
      BY <2>2, NothingAfter
    <3> QED BY <2>0, <2>2, <3>1, EmptySeq
  <2> QED BY <2>0, <2>1, <2>2
<1> QED BY <1>0, <1>1

LEMMA OpeningIsLonger ==
  ASSUME RelayTypeOK
  PROVE  Len(Handshake) \in Nat /\ Len(Opening) \in Nat /\ Len(Handshake) <= Len(Opening)
<1>1. Handshake \in Seq(Words) /\ RequestLine \in Seq(Words)
  BY StreamsAreWords DEF RelayTypeOK
<1>2. /\ Len(Handshake) \in Nat /\ Len(RequestLine) \in Nat
      /\ Len(Handshake \o RequestLine) = Len(Handshake) + Len(RequestLine)
  BY <1>1, LenProperties, ConcatProperties
<1> QED BY <1>2 DEF Opening

\* What the origin has of the client's payload, as long as nothing failed.
OriginReached ==
  ~Failed =>
    /\ \/ OriginHas = <<>>
       \/ /\ HeadEnd(script) \in 1 .. nSent
          /\ \E a \in HeadEnd(script) .. nSent : OriginHas = Part(script, HeadEnd(script), a)
    /\ stage = "dial" => OriginHas = <<>>

LEMMA OriginHeard == Placed => OriginReached
<1> SUFFICES ASSUME Placed, ~Failed
             PROVE  /\ \/ OriginHas = <<>>
                       \/ /\ HeadEnd(script) \in 1 .. nSent
                          /\ \E a \in HeadEnd(script) .. nSent :
                               OriginHas = Part(script, HeadEnd(script), a)
                    /\ stage = "dial" => OriginHas = <<>>
  BY DEF OriginReached
<1>a. PICK r \in 0 .. nSent : UpAt(r)
  BY DEF Placed, Upwards
<1>b. PICK q \in 0 .. upSent : DownAt(q)
  BY DEF Placed, Downwards
<1>c. /\ script \in Seq(Words) /\ Opening \in Seq(Words) /\ upGot \in Seq(Words)
      /\ nSent \in 0 .. Len(script) /\ Len(script) \in Nat /\ Len(upGot) \in Nat
  BY StreamsAreWords, LenProperties DEF Placed, RelayTypeOK
<1>d. Len(Handshake) \in Nat /\ Len(Opening) \in Nat /\ Len(Handshake) <= Len(Opening)
  BY OpeningIsLonger DEF Placed
<1>1. CASE stage \in {"head", "dial", "handshake", "open", "leftover"}
  <2>1. Len(upGot) <= Len(Opening)
    <3>1. CASE stage \in {"head", "dial"}
      BY <1>a, <1>d, <3>1, EmptySeq DEF UpAt
    <3>2. CASE stage \in {"open", "leftover"}
      BY <1>a, <1>d, <3>2 DEF UpAt
    <3>3. CASE stage = "handshake"
      <4>1. CASE way = "socks"
        <5>1. Len(Handshake) = 2
          BY <4>1 DEF Handshake
        <5>2. upGot = <<"greeting">> \/ upGot = <<"greeting", "target">>
          BY <1>b, <3>3, <4>1 DEF DownAt, Greeted
        <5>3. Len(<<"greeting">>) = 1 /\ Len(<<"greeting", "target">>) = 2
          OBVIOUS
        <5>4. Len(upGot) = 1 \/ Len(upGot) = 2
          BY <5>2, <5>3
        <5> QED BY <1>c, <1>d, <5>1, <5>4
      <4>2. CASE way # "socks"
        <5>1. upGot = <<"CONNECT">> /\ Handshake = <<"CONNECT">>
          BY <1>b, <3>3, <4>2 DEF DownAt, Handshake
        <5> QED BY <1>c, <1>d, <5>1
      <4> QED BY <4>1, <4>2
    <3> QED BY <1>1, <3>1, <3>2, <3>3
  <2>2. OriginHas = <<>>
    BY <1>c, <1>d, <2>1, NothingAfter DEF OriginHas
  <2> QED BY <2>2
<1>2. CASE stage \in {"pending", "copy", "done"}
  <2> DEFINE h == HeadEnd(script)
  <2>1. h \in 1 .. r /\ upGot = Opening \o Part(script, h, r)
    BY <1>a, <1>2 DEF UpAt
  <2> HIDE DEF h
  <2>2. r \in 0 .. Len(script) /\ h \in 0 .. r /\ h \in 1 .. nSent /\ r \in h .. nSent
    BY <1>c, <2>1
  <2>3. Part(script, h, r) \in Seq(Words)
    BY <1>c, <2>2, PartIsSeq
  <2>4. OriginHas = Part(script, h, r)
    BY <1>c, <2>1, <2>3, AfterFirst DEF OriginHas
  <2> QED BY <1>2, <2>2, <2>4 DEF h
<1> QED BY <1>1, <1>2 DEF Placed, RelayTypeOK, RelayStages, Failed

\* A step of the relay is a step of the channel from the client to the origin.
LEMMA UpRefines ==
  ASSUME Placed, Placed', OriginReached, OriginReached', [RelayNext]_relayVars
  PROVE  [Up!Next]_Up!vars
<1> DEFINE h == HeadEnd(script)
<1>a. /\ script \in Seq(Words) /\ upGot \in Seq(Words) /\ upGot' \in Seq(Words)
      /\ nSent \in 0 .. Len(script) /\ Len(script) \in Nat
      /\ Len(Opening) \in Nat /\ Opening' = Opening /\ script' = script /\ h \in 0 .. Len(script)
  BY StreamsAreWords, OpeningIsLonger, LenProperties, HeadEndIs, Steady DEF Placed, RelayTypeOK
<1>b. /\ ClientPayload = IF h = 0 THEN <<>> ELSE Part(script, h, nSent)
      /\ ClientPayload' = IF h = 0 THEN <<>> ELSE Part(script, h, nSent')
  BY <1>a DEF ClientPayload, Part
<1>c. UNCHANGED upGot => UNCHANGED OriginHas
  BY <1>a DEF OriginHas
<1> HIDE DEF h
<1>1. CASE ClientSends
  <2>1. nSent' = nSent + 1 /\ nSent < Len(script) /\ UNCHANGED <<stage, upGot>>
    BY <1>1 DEF ClientSends
  <2>2. UNCHANGED <<OriginHas, Failed>>
    BY <1>c, <2>1 DEF Failed
  <2>3. CASE h = 0
    BY <1>b, <2>2, <2>3 DEF Up!vars
  <2>4. CASE h # 0
    <3>1. \/ Part(script, h, nSent + 1) = Part(script, h, nSent)
          \/ /\ Part(script, h, nSent + 1) = Append(Part(script, h, nSent), script[nSent + 1])
             /\ script[nSent + 1] \in Words
      BY <1>a, <2>1, StreamGrows
    <3>2. ClientPayload = Part(script, h, nSent) /\ ClientPayload' = Part(script, h, nSent + 1)
      BY <1>b, <2>1, <2>4
    <3> QED BY <2>2, <3>1, <3>2 DEF Up!Next, Up!Send, Up!vars
  <2> QED BY <2>3, <2>4
<1>2. CASE ~ClientSends
  <2>1. nSent' = nSent /\ UNCHANGED ClientPayload
    <3>1. nSent' = nSent
      BY <1>2 DEF RelayNext, Handler, relayVars, peers, ClientShuts, UpSends, UpShuts, Refuse, HeadStep,
         HeadFails, HeadTooLate, Dial, SocksStep, ReplyStep, DialFails, Greet, RequestFails,
         WriteLeftover, WritePending, CopyUp, CopyDown, Finish, Break
    <3> QED BY <1>b, <3>1
  <2>2. CASE Failed
    <3>1. UNCHANGED <<stage, upGot>>
      BY <2>2, StepsWrite
    <3> QED BY <1>c, <2>1, <3>1 DEF Failed, Up!vars
  <2>3. CASE ~Failed /\ Failed'
    <3>1. UNCHANGED upGot /\ Failed' = TRUE
      BY <2>3, StepsWrite DEF Failed
    <3> QED BY <1>c, <2>1, <3>1 DEF Up!Next, Up!Break
  <2>4. CASE ~Failed /\ ~Failed'
    <3>1. /\ \/ OriginHas = <<>>
             \/ h \in 1 .. nSent /\ \E a \in h .. nSent : OriginHas = Part(script, h, a)
          /\ stage = "dial" => OriginHas = <<>>
      BY <2>4 DEF OriginReached, h
    <3>2. \/ OriginHas' = <<>>
          \/ h \in 1 .. nSent /\ \E a \in h .. nSent : OriginHas' = Part(script, h, a)
      BY <1>a, <2>1, <2>4 DEF OriginReached, h
    <3>3. OriginHas = After(upGot, Len(Opening)) /\ OriginHas' = After(upGot', Len(Opening))
      BY <1>a DEF OriginHas
    <3>4. Len(OriginHas) <= Len(OriginHas') /\ Len(OriginHas') \in Nat
      <4>0. Len(OriginHas') \in Nat
        <5>1. OriginHas' = <<>> \/ \E a \in h .. nSent : h \in 1 .. nSent /\ OriginHas' = Part(script, h, a)
          BY <3>2
        <5>2. ASSUME NEW a \in h .. nSent, h \in 1 .. nSent PROVE Len(Part(script, h, a)) \in Nat
          <6>1. a \in 0 .. Len(script) /\ h \in 0 .. a
            BY <1>a, <5>2
          <6>2. Len(Part(script, h, a)) = a - h
            BY <1>a, <6>1, PartIsSeq
          <6> QED BY <6>1, <6>2
        <5> QED BY <5>1, <5>2, EmptySeq
      <4>1. CASE stage = "dial"
        BY <3>1, <4>0, <4>1, EmptySeq
      <4>2. CASE stage # "dial"
        <5>1. Len(upGot) <= Len(upGot')
          BY <4>2, StepsWrite
        <5> QED BY <1>a, <3>3, <4>0, <5>1, AfterGrows
      <4> QED BY <4>1, <4>2
    <3>5. CASE h \notin 1 .. nSent
      <4>1. OriginHas = <<>> /\ OriginHas' = <<>>
        BY <3>1, <3>2, <3>5
      <4> QED BY <2>1, <2>4, <4>1 DEF Up!vars, Failed
    <3>6. CASE h \in 1 .. nSent
      <4>1. ClientPayload = Part(script, h, nSent)
        BY <1>a, <1>b, <3>6
      <4>2. h \in 0 .. nSent /\ h \in h .. nSent /\ h \in 0 .. Len(script)
        BY <1>a, <3>6
      <4>3. Part(script, h, h) = <<>>
        BY <1>a, <4>2, NoPart
      <4>4. /\ \E a \in h .. nSent : OriginHas = Part(script, h, a)
            /\ \E a \in h .. nSent : OriginHas' = Part(script, h, a)
        BY <3>1, <3>2, <4>2, <4>3
      <4>5. \/ OriginHas' = OriginHas
            \/ \E n \in Len(OriginHas) + 1 .. Len(Part(script, h, nSent)) :
                 OriginHas' = SubSeq(Part(script, h, nSent), 1, n)
        <5>1. PICK a \in h .. nSent : OriginHas = Part(script, h, a)
          BY <4>4
        <5>2. PICK b \in h .. nSent : OriginHas' = Part(script, h, b)
          BY <4>4
        <5>3. Len(Part(script, h, a)) <= Len(Part(script, h, b))
          BY <3>4, <5>1, <5>2
        <5>4. \/ Part(script, h, b) = Part(script, h, a)
              \/ /\ b - h \in Len(Part(script, h, a)) + 1 .. Len(Part(script, h, nSent))
                 /\ Part(script, h, b) = SubSeq(Part(script, h, nSent), 1, b - h)
          BY <1>a, <4>2, <5>3, PrefixGrows
        <5> QED BY <5>1, <5>2, <5>4
      <4> QED BY <2>1, <2>4, <4>1, <4>5 DEF Up!Next, Up!Deliver, Up!vars, Failed
    <3> QED BY <3>5, <3>6
  <2> QED BY <2>2, <2>3, <2>4
<1> QED BY <1>1, <1>2

\* What the client has of the origin's payload, as long as nothing failed.
ClientReached ==
  ~Failed =>
    \/ ClientHas = <<>>
    \/ \E a \in Len(UpReply) .. upSent : ClientHas = Part(UpScript, Len(UpReply), a)

LEMMA ClientReads == Placed => ClientReached
<1> SUFFICES ASSUME Placed, ~Failed
             PROVE  \/ ClientHas = <<>>
                    \/ \E a \in Len(UpReply) .. upSent : ClientHas = Part(UpScript, Len(UpReply), a)
  BY DEF ClientReached
<1>a. /\ UpScript \in Seq(Words) /\ upSent \in 0 .. Len(UpScript) /\ Len(UpScript) \in Nat
      /\ Len(UpReply) \in 0 .. Len(UpScript) /\ kind \in {"connect", "plain"}
  BY StreamsAreWords, LenProperties DEF Placed, RelayTypeOK
<1>b. /\ Answered \in Seq(Words) /\ Len(Answered) = (IF kind = "connect" THEN 1 ELSE 0)
  <2>1. "200" \in Words
    BY DEF Words, Statuses
  <2> QED BY <2>1, EmptySeq DEF Answered
<1>c. ClientHas = After(clientGot, Len(Answered))
  BY <1>b DEF ClientHas, Failed
<1>1. CASE clientGot = <<>>
  <2>1. <<>> \in Seq(Words) /\ Len(<<>>) <= Len(Answered) /\ Len(Answered) \in Nat
    BY <1>b, EmptySeq
  <2> QED BY <1>c, <1>1, <2>1, NothingAfter
<1>2. CASE \E q \in Len(UpReply) .. upSent : clientGot = Answered \o Part(UpScript, Len(UpReply), q)
  <2> DEFINE k == Len(UpReply)
  <2>1. PICK q \in k .. upSent : clientGot = Answered \o Part(UpScript, k, q)
    BY <1>2
  <2> HIDE DEF k
  <2>2. q \in 0 .. Len(UpScript) /\ k \in 0 .. q
    BY <1>a, <2>1 DEF k
  <2>3. Part(UpScript, k, q) \in Seq(Words)
    BY <1>a, <2>2, PartIsSeq
  <2>4. ClientHas = Part(UpScript, k, q)
    BY <1>b, <1>c, <2>1, <2>3, AfterFirst
  <2> QED BY <2>1, <2>4 DEF k
<1> QED BY <1>1, <1>2, ClientHeard DEF Failed

\* A step of the relay is a step of the channel from the origin to the client.
LEMMA DownRefines ==
  ASSUME Placed, Placed', ClientReached, ClientReached', [RelayNext]_relayVars
  PROVE  [Down!Next]_Down!vars
<1> DEFINE k == Len(UpReply)
<1> DEFINE d == IF kind = "connect" THEN 1 ELSE 0
<1>a. /\ UpScript \in Seq(Words) /\ clientGot \in Seq(Words) /\ clientGot' \in Seq(Words)
      /\ upSent \in 0 .. Len(UpScript) /\ Len(UpScript) \in Nat /\ k \in 0 .. Len(UpScript)
      /\ UpReply' = UpReply /\ UpScript' = UpScript /\ kind' = kind /\ d \in Nat
  BY StreamsAreWords, LenProperties, Steady DEF Placed, RelayTypeOK
<1>b. /\ OriginPayload = Part(UpScript, k, upSent)
      /\ OriginPayload' = Part(UpScript, k, upSent')
  BY <1>a DEF OriginPayload, Part
<1>c. /\ ClientHas = IF stage = "refused" THEN <<>> ELSE After(clientGot, d)
      /\ ClientHas' = IF stage' = "refused" THEN <<>> ELSE After(clientGot', d)
  BY <1>a DEF ClientHas
<1> HIDE DEF k, d
<1>1. CASE UpSends
  <2>1. upSent' = upSent + 1 /\ upSent < Len(UpScript) /\ UNCHANGED <<stage, clientGot>>
    BY <1>1 DEF UpSends
  <2>2. UNCHANGED <<ClientHas, Failed>>
    BY <1>c, <2>1 DEF Failed
  <2>3. \/ Part(UpScript, k, upSent + 1) = Part(UpScript, k, upSent)
        \/ /\ Part(UpScript, k, upSent + 1) = Append(Part(UpScript, k, upSent), UpScript[upSent + 1])
           /\ UpScript[upSent + 1] \in Words
    BY <1>a, <2>1, StreamGrows
  <2>4. OriginPayload' = Part(UpScript, k, upSent + 1)
    BY <1>b, <2>1
  <2> QED BY <1>b, <2>2, <2>3, <2>4 DEF Down!Next, Down!Send, Down!vars
<1>2. CASE ~UpSends
  <2>1. upSent' = upSent /\ UNCHANGED OriginPayload
    <3>1. upSent' = upSent
      BY <1>2 DEF RelayNext, Handler, relayVars, peers, ClientSends, ClientShuts, UpShuts, Refuse, HeadStep,
         HeadFails, HeadTooLate, Dial, SocksStep, ReplyStep, DialFails, Greet, RequestFails,
         WriteLeftover, WritePending, CopyUp, CopyDown, Finish, Break
    <3> QED BY <1>b, <3>1
  <2>2. CASE Failed
    <3>1. UNCHANGED <<stage, clientGot>>
      BY <2>2, StepsWrite
    <3> QED BY <1>c, <2>1, <3>1 DEF Failed, Down!vars
  <2>3. CASE ~Failed /\ Failed'
    <3>1. UNCHANGED ClientHas
      <4>1. CASE stage' = "broken"
        <5>1. UNCHANGED clientGot /\ stage # "refused"
          BY <2>3, <4>1, StepsWrite DEF Failed
        <5> QED BY <1>c, <4>1, <5>1
      <4>2. CASE stage' = "refused"
        <5>1. stage \in {"head", "dial", "handshake", "open"}
          BY <2>3, <4>2, StepsWrite
        <5>2. clientGot = <<>>
          BY <5>1 DEF Placed, Downwards, DownAt
        <5>3. After(clientGot, d) = <<>>
          <6>1. Len(clientGot) <= d
            BY <1>a, <5>2, EmptySeq
          <6> QED BY <1>a, <6>1, NothingAfter
        <5> QED BY <1>c, <4>2, <5>1, <5>3
      <4> QED BY <2>3, <4>1, <4>2 DEF Failed
    <3>2. Failed' = TRUE
      BY <2>3 DEF Failed
    <3> QED BY <2>1, <3>1, <3>2 DEF Down!Next, Down!Break
  <2>4. CASE ~Failed /\ ~Failed'
    <3>1. ClientHas = <<>> \/ \E a \in k .. upSent : ClientHas = Part(UpScript, k, a)
      BY <2>4 DEF ClientReached, k
    <3>2. ClientHas' = <<>> \/ \E a \in k .. upSent : ClientHas' = Part(UpScript, k, a)
      BY <1>a, <2>1, <2>4 DEF ClientReached, k
    <3>3. ClientHas = After(clientGot, d) /\ ClientHas' = After(clientGot', d)
      BY <1>c, <2>4 DEF Failed
    <3>4. Len(ClientHas) <= Len(ClientHas')
      <4>1. Len(clientGot) <= Len(clientGot')
        BY StepsWrite
      <4> QED BY <1>a, <3>3, <4>1, AfterGrows
    <3>5. CASE k \notin 0 .. upSent
      <4>1. ClientHas = <<>> /\ ClientHas' = <<>>
        BY <1>a, <3>1, <3>2, <3>5
      <4> QED BY <2>1, <2>4, <4>1 DEF Down!vars, Failed
    <3>6. CASE k \in 0 .. upSent
      <4>1. k \in k .. upSent
        BY <1>a, <3>6
      <4>2. Part(UpScript, k, k) = <<>>
        BY <1>a, NoPart
      <4>3. /\ \E a \in k .. upSent : ClientHas = Part(UpScript, k, a)
            /\ \E a \in k .. upSent : ClientHas' = Part(UpScript, k, a)
        BY <3>1, <3>2, <4>1, <4>2
      <4>4. \/ ClientHas' = ClientHas
            \/ \E n \in Len(ClientHas) + 1 .. Len(Part(UpScript, k, upSent)) :
                 ClientHas' = SubSeq(Part(UpScript, k, upSent), 1, n)
        <5>1. PICK a \in k .. upSent : ClientHas = Part(UpScript, k, a)
          BY <4>3
        <5>2. PICK b \in k .. upSent : ClientHas' = Part(UpScript, k, b)
          BY <4>3
        <5>3. Len(Part(UpScript, k, a)) <= Len(Part(UpScript, k, b))
          BY <3>4, <5>1, <5>2
        <5>4. \/ Part(UpScript, k, b) = Part(UpScript, k, a)
              \/ /\ b - k \in Len(Part(UpScript, k, a)) + 1 .. Len(Part(UpScript, k, upSent))
                 /\ Part(UpScript, k, b) = SubSeq(Part(UpScript, k, upSent), 1, b - k)
          BY <1>a, <3>6, <5>3, PrefixGrows
        <5> QED BY <5>1, <5>2, <5>4
      <4> QED BY <1>b, <2>1, <2>4, <4>4 DEF Down!Next, Down!Deliver, Down!vars, Failed
    <3> QED BY <3>5, <3>6
  <2> QED BY <2>2, <2>3, <2>4
<1> QED BY <1>1, <1>2

LEMMA InitReached == RelayInit => Up!Init /\ Down!Init
<1> SUFFICES ASSUME RelayInit PROVE Up!Init /\ Down!Init
  OBVIOUS
<1>1. Placed
  BY InitTyped, InitPlaced DEF Placed
<1>2. ~Failed /\ stage = "head" /\ nSent = 0 /\ upSent = 0 /\ clientGot = <<>> /\ upGot = <<>>
  BY DEF RelayInit, Failed
<1>3. /\ script \in Seq(Words) /\ UpScript \in Seq(Words) /\ HeadEnd(script) \in Nat
      /\ Len(UpReply) \in Nat /\ Len(Opening) \in Nat
  BY <1>1, StreamsAreWords, OpeningIsLonger, LenProperties, HeadEndIs DEF Placed, RelayTypeOK
<1>4. ClientPayload = <<>>
  BY <1>2, <1>3, SubSeqEmpty DEF ClientPayload
<1>5. OriginPayload = <<>>
  BY <1>2, <1>3, SubSeqEmpty DEF OriginPayload
<1>6. \A n \in Nat : After(<<>>, n) = <<>>
  <2> TAKE n \in Nat
  <2>1. <<>> \in Seq(Words) /\ Len(<<>>) <= n
    BY EmptySeq
  <2> QED BY <2>1, NothingAfter
<1>7. OriginHas = <<>> /\ ClientHas = <<>>
  BY <1>2, <1>3, <1>6 DEF OriginHas, ClientHas
<1> QED BY <1>2, <1>4, <1>5, <1>7 DEF Up!Init, Down!Init

\* Nothing is lost, repeated, reordered or mixed with the bridge's own words in
\* either direction: the safe part of the run's BothWaysAreChannels, for every
\* script, payload and size.
THEOREM BothWaysKeepTheBytes == RelaySpec => Up!SafeSpec /\ Down!SafeSpec
<1>1. RelaySpec => [](Placed /\ OriginReached /\ ClientReached)
  <2>1. Placed => OriginReached /\ ClientReached
    BY OriginHeard, ClientReads
  <2> QED BY <2>1, BytesArePlaced, PTL
<1>2. RelayInit => Up!Init /\ Down!Init
  BY InitReached
<1>3. /\ Placed /\ OriginReached /\ ClientReached
      /\ (Placed /\ OriginReached /\ ClientReached)'
      /\ [RelayNext]_relayVars
      => [Up!Next]_Up!vars /\ [Down!Next]_Down!vars
  BY UpRefines, DownRefines
<1> QED BY <1>1, <1>2, <1>3, PTL DEF RelaySpec, Up!SafeSpec, Down!SafeSpec

-----------------------------------------------------------------------------
(***************************************************************************)
(* The cache of probes, for any number of callers, settings and addresses. *)
(***************************************************************************)

\* What makes ProberTypeOK inductive: an answer given has both halves.
BothHalves ==
  \A c \in Callers : call[c].at = "return" => call[c].health \in Health

ProberTyped == ProberTypeOK /\ BothHalves

LEMMA InitProberTyped == ProberInit => ProberTyped
  BY GenerationAssumption DEF ProberInit, ProberTyped, ProberTypeOK, BothHalves, NotCalling, Calls

LEMMA ProbeTyped == \A addr : Probe(addr) \in Reachability
  BY DEF Probe, Reachability

LEMMA NextProberTyped == ProberTyped /\ [ProberNext]_proberVars => ProberTyped'
<1> SUFFICES ASSUME ProberTyped, [ProberNext]_proberVars PROVE ProberTyped'
  OBVIOUS
<1> USE DEF ProberTyped, ProberTypeOK, BothHalves
<1>1. ASSUME NEW c \in Callers, NEW up \in Asked, Begin(c, up) PROVE ProberTyped'
  <2>1. CASE Hit(up)
    BY <1>1, <2>1 DEF Begin, Hit, Calls, Cached, Health
  <2>2. CASE ~Hit(up)
    BY <1>1, <2>2 DEF Begin, Calls
  <2> QED BY <2>1, <2>2
<1>2. ASSUME NEW c \in Callers, NEW which \in {"socks", "http"}, ProbeOne(c, which)
      PROVE ProberTyped'
  <2>1. call[c] \in Calls \ {NotCalling}
    BY <1>2 DEF ProbeOne, NotCalling
  <2>2. [call[c] EXCEPT !.health[which] = Probe(call[c].up[which])] \in Calls
    BY <2>1, ProbeTyped DEF Calls
  <2> QED BY <1>2, <2>1, <2>2 DEF ProbeOne, Calls
<1>3. ASSUME NEW c \in Callers, Settle(c) PROVE ProberTyped'
  <2>1. call[c] \in Calls \ {NotCalling}
    BY <1>3 DEF Settle, NotCalling
  <2>2. call[c].health \in Health /\ call[c].up \in Asked
    BY <1>3, <2>1 DEF Settle, BothAnswered, Calls, Health
  <2>3. [call[c] EXCEPT !.at = "return"] \in Calls
    BY <2>1 DEF Calls
  <2>4. cache' \in Cached \cup {None}
    BY <1>3, <2>2 DEF Settle, Cached
  <2> QED BY <1>3, <2>1, <2>2, <2>3, <2>4 DEF Settle, Calls
<1>4. ASSUME NEW c \in Callers, Return(c) PROVE ProberTyped'
  BY <1>4 DEF Return, NotCalling, Calls
<1>5. CASE Invalidate
  BY <1>5, GenerationAssumption DEF Invalidate
<1>6. CASE Age
  BY <1>6 DEF Age, Cached
<1>7. CASE World
  BY <1>7 DEF World
<1>8. CASE UNCHANGED proberVars
  BY <1>8 DEF proberVars
<1> QED BY <1>1, <1>2, <1>3, <1>4, <1>5, <1>6, <1>7, <1>8 DEF ProberNext

-----------------------------------------------------------------------------
(***************************************************************************)
(* Why nothing old answers after an invalidation.  The generation a call   *)
(* carries tells exactly whether it began before: then it is smaller than  *)
(* the present one, and the result stays out of the cache.                 *)
(***************************************************************************)
ProberFresh ==
  /\ steady /\ cache # None => cache.health = Truth(cache.probed)
  /\ \A c \in Callers :
       call[c] # NotCalling =>
         /\ call[c].generation <= generation
         /\ ~since[c] => call[c].generation < generation
         /\ steady /\ since[c] =>
              /\ \A which \in {"socks", "http"} :
                   call[c].health[which] \in {None, Probe(call[c].up[which])}
              /\ call[c].at = "return" => call[c].health = Truth(call[c].up)

LEMMA InitProberFresh == ProberInit => ProberFresh
  BY DEF ProberInit, ProberFresh

\* A call with both answers in, of a steady world, knows the truth.
LEMMA BothTrue ==
  ASSUME ProberTyped, ProberFresh, NEW c \in Callers, Settle(c), steady, since[c]
  PROVE  call[c].health = Truth(call[c].up)
<1>1. call[c] # NotCalling /\ call[c] \in Calls
  BY DEF Settle, NotCalling, ProberTyped, ProberTypeOK
<1>2. call[c].health \in [socks : Reachability \cup {None}, http : Reachability \cup {None}]
  BY <1>1 DEF Calls
<1>3. /\ call[c].health["socks"] = Probe(call[c].up["socks"])
      /\ call[c].health["http"] = Probe(call[c].up["http"])
  BY <1>1 DEF ProberFresh, Settle, BothAnswered
<1> QED BY <1>2, <1>3 DEF Truth

LEMMA NextProberFresh == ProberTyped /\ ProberFresh /\ [ProberNext]_proberVars => ProberFresh'
<1> SUFFICES ASSUME ProberTyped, ProberFresh, [ProberNext]_proberVars PROVE ProberFresh'
  OBVIOUS
<1>0. /\ call \in [Callers -> Calls] /\ generation \in Nat
      /\ since \in [Callers -> BOOLEAN]
      /\ cache # None => cache \in Cached
  BY DEF ProberTyped, ProberTypeOK
<1>1. ASSUME NEW c \in Callers, NEW up \in Asked, Begin(c, up) PROVE ProberFresh'
  <2>1. /\ \A d \in Callers \ {c} : call'[d] = call[d] /\ since'[d] = since[d]
        /\ since'[c] /\ UNCHANGED <<alive, cache, generation, steady>>
    BY <1>0, <1>1 DEF Begin
  <2>2. CASE Hit(up)
    <3>1. call'[c] = [at |-> "return", up |-> up, generation |-> generation,
                      health |-> cache.health]
      BY <1>0, <1>1, <2>2 DEF Begin
    <3>2. steady => cache.health = Truth(up)
      BY <2>2 DEF ProberFresh, Hit
    <3>3. steady => \A which \in {"socks", "http"} :
                      cache.health[which] = Probe(up[which])
      BY <3>2 DEF Truth
    <3> QED BY <1>0, <2>1, <3>1, <3>2, <3>3 DEF ProberFresh, Truth, Probe
  <2>3. CASE ~Hit(up)
    <3>1. call'[c] = [at |-> "probe", up |-> up, generation |-> generation,
                      health |-> [socks |-> None, http |-> None]]
      BY <1>0, <1>1, <2>3 DEF Begin
    <3> QED BY <1>0, <2>1, <3>1 DEF ProberFresh, Truth, Probe
  <2> QED BY <2>2, <2>3
<1>2. ASSUME NEW c \in Callers, NEW which \in {"socks", "http"}, ProbeOne(c, which)
      PROVE ProberFresh'
  <2>1. /\ \A d \in Callers \ {c} : call'[d] = call[d]
        /\ UNCHANGED <<alive, cache, generation, steady, since>>
    BY <1>0, <1>2 DEF ProbeOne
  <2>2. call[c] \in Calls \ {NotCalling}
    BY <1>0, <1>2 DEF ProbeOne, NotCalling
  <2>3. /\ call'[c].at = "probe" /\ call'[c].generation = call[c].generation
        /\ call'[c].up = call[c].up
        /\ call'[c].health = [call[c].health EXCEPT ![which] = Probe(call[c].up[which])]
    BY <1>0, <1>2, <2>2 DEF ProbeOne, Calls
  <2>4. \A w \in {"socks", "http"} :
          call'[c].health[w] \in {call[c].health[w], Probe(call[c].up[w])}
    BY <2>2, <2>3 DEF Calls
  <2>5. /\ \A addr : Probe(addr)' = Probe(addr)
        /\ \A up : Truth(up)' = Truth(up)
    BY <2>1 DEF Probe, Truth
  <2>6. (steady /\ cache # None => cache.health = Truth(cache.probed))'
    BY <2>1, <2>5 DEF ProberFresh
  <2> QED BY <2>1, <2>2, <2>3, <2>4, <2>5, <2>6 DEF ProberFresh
<1>3. ASSUME NEW c \in Callers, Settle(c) PROVE ProberFresh'
  <2>1. /\ \A d \in Callers \ {c} : call'[d] = call[d]
        /\ UNCHANGED <<alive, generation, steady, since>>
    BY <1>0, <1>3 DEF Settle
  <2>2. call[c] \in Calls \ {NotCalling}
    BY <1>0, <1>3 DEF Settle, NotCalling
  <2>3. /\ call'[c].generation = call[c].generation /\ call'[c].up = call[c].up
        /\ call'[c].health = call[c].health
    BY <1>0, <1>3, <2>2 DEF Settle, Calls
  <2>4. steady /\ since[c] => call[c].health = Truth(call[c].up)
    BY <1>3, BothTrue
  <2>5. /\ \A addr : Probe(addr)' = Probe(addr)
        /\ \A up : Truth(up)' = Truth(up)
    BY <2>1 DEF Probe, Truth
  <2>6. (steady /\ cache # None => cache.health = Truth(cache.probed))'
    <3>1. CASE MayRemember(c)
      <4>1. since[c]
        BY <1>0, <2>2, <3>1 DEF ProberFresh, MayRemember, Calls
      <4>2. cache'.health = call[c].health /\ cache'.probed = call[c].up
        BY <1>3, <3>1 DEF Settle
      <4> QED BY <2>1, <2>4, <2>5, <4>1, <4>2
    <3>2. CASE ~MayRemember(c)
      BY <1>3, <2>1, <2>5, <3>2 DEF Settle, ProberFresh
    <3> QED BY <3>1, <3>2
  <2> QED BY <2>1, <2>2, <2>3, <2>4, <2>5, <2>6 DEF ProberFresh
<1>4. ASSUME NEW c \in Callers, Return(c) PROVE ProberFresh'
  BY <1>0, <1>4 DEF Return, ProberFresh, Truth, Probe
<1>5. CASE Invalidate
  <2>1. \A c \in Callers : call[c] # NotCalling => call[c].generation \in Nat
    BY <1>0 DEF Calls
  <2> QED BY <1>0, <1>5, <2>1 DEF Invalidate, ProberFresh
<1>6. CASE Age
  BY <1>0, <1>6 DEF Age, ProberFresh, Truth, Probe, Cached
<1>7. CASE World
  BY <1>0, <1>7 DEF World, ProberFresh
<1>8. CASE UNCHANGED proberVars
  BY <1>8 DEF proberVars, ProberFresh, Truth, Probe
<1> QED BY <1>1, <1>2, <1>3, <1>4, <1>5, <1>6, <1>7, <1>8 DEF ProberNext

\* Every reachable state is well typed.
THEOREM ProberTypeCorrect == ProberSpec => []ProberTypeOK
<1>1. ProberTyped => ProberTypeOK
  BY DEF ProberTyped
<1> QED BY <1>1, InitProberTyped, NextProberTyped, PTL DEF ProberSpec

\* However many callers probe, and however their calls, invalidations and the
\* aging of the cache interleave, a call that began after the last invalidation
\* tells the truth about a world that has not changed since.
THEOREM InvalidateIsEffective == ProberSpec => []FreshAfterInvalidate
<1>1. ProberTyped /\ ProberFresh => FreshAfterInvalidate
  BY DEF ProberFresh, FreshAfterInvalidate, NotCalling
<1> QED BY <1>1, InitProberTyped, InitProberFresh, NextProberTyped, NextProberFresh, PTL DEF ProberSpec
=============================================================================
