---------------------------- MODULE RateLimiter ----------------------------
(***************************************************************************)
(* LoginRateLimitMiddleware (app/server.py): a sliding window of login     *)
(* attempts per peer address, kept in the memory of each worker process.   *)
(* One dispatch reads, prunes, checks and extends the window without an    *)
(* await in between, so it is one step; the request it lets through may    *)
(* then take any time.  Time is counted in ticks of a monotonic clock,     *)
(* which a restart of the process does not set back.                       *)
(***************************************************************************)
EXTENDS Naturals, Sequences, FiniteSets

CONSTANTS
  Worker,     \* uvicorn worker processes
  Peer,       \* what the limiter keys on: an address, or "unknown"
  Limit,      \* max_attempts
  Window,     \* window_seconds
  MaxClock    \* bound on the clock

ASSUME LimitAssumption == Limit \in Nat \ {0}
ASSUME WindowAssumption == Window \in Nat \ {0}
ASSUME MaxClockAssumption == MaxClock \in Nat

VARIABLES
  now,        \* time.monotonic()
  attempts,   \* _attempts of each worker: times of recent attempts, by peer
  log,        \* history: times of the logins let through since the start
  refused     \* history: <<worker, peer>> if the last step refused an attempt

vars == <<now, attempts, log, refused>>

Empty == [w \in Worker |-> [p \in Peer |-> <<>>]]
Never == <<>>

Init == now = 0 /\ attempts = Empty /\ log = Empty /\ refused = Never

(* The elements of a sequence at the positions of K, in their order. *)
KeepAt(s, K) ==
  [n \in 1..Cardinality(K) |-> s[CHOOSE k \in K : Cardinality(K \cap 1..k) = n]]

(* Mutant of Recent: an attempt stays for less than the window. *)
RecentByHalf(times) ==
  KeepAt(times, {k \in DOMAIN times : 2 * (now - times[k]) < Window})

(* The attempts that still count. *)
Recent(times) == KeepAt(times, {k \in DOMAIN times : now - times[k] < Window})

(* Mutant of Admit: the pruned list is checked, the whole one is kept. *)
AdmitUnpruned(w, p) ==
  /\ Len(Recent(attempts[w][p])) < Limit
  /\ attempts' = [attempts EXCEPT ![w][p] = Append(@, now)]
  /\ log' = [log EXCEPT ![w][p] = Append(@, now)]
  /\ refused' = Never
  /\ UNCHANGED now

Admit(w, p) ==
  /\ Len(Recent(attempts[w][p])) < Limit
  /\ attempts' = [attempts EXCEPT ![w][p] = Append(Recent(@), now)]
  /\ log' = [log EXCEPT ![w][p] = Append(@, now)]
  /\ refused' = Never
  /\ UNCHANGED now

(* Mutant of Refuse: the refused attempt is counted too. *)
RefuseCounts(w, p) ==
  /\ Len(Recent(attempts[w][p])) >= Limit
  /\ refused' = <<w, p>>
  /\ attempts' = [attempts EXCEPT ![w][p] = Append(Recent(@), now)]
  /\ UNCHANGED <<now, log>>

(* 429, before the window is pruned or extended. *)
Refuse(w, p) ==
  /\ Len(Recent(attempts[w][p])) >= Limit
  /\ refused' = <<w, p>>
  /\ UNCHANGED <<now, attempts, log>>

(* A worker restarts with an empty table. *)
Restart(w) ==
  /\ attempts' = [attempts EXCEPT ![w] = Empty[w]]
  /\ log' = [log EXCEPT ![w] = Empty[w]]
  /\ refused' = Never
  /\ UNCHANGED now

Tick ==
  /\ now < MaxClock
  /\ now' = now + 1 /\ refused' = Never
  /\ UNCHANGED <<attempts, log>>

Next ==
  \/ \E w \in Worker, p \in Peer : Admit(w, p) \/ Refuse(w, p)
  \/ \E w \in Worker : Restart(w)
  \/ Tick

Spec == Init /\ [][Next]_vars

-----------------------------------------------------------------------------
Counted(w, p) == {k \in DOMAIN log[w][p] : now - log[w][p][k] < Window}

(* Types: lists of times are in order and never ahead of the clock, and    *)
(* the middleware's own list of a peer never outgrows max_attempts.        *)
InOrder(times) ==
  /\ times \in Seq(0..now)
  /\ \A k \in 2..Len(times) : times[k-1] <= times[k]
TypeOK ==
  /\ now \in 0..MaxClock
  /\ \A w \in Worker, p \in Peer : InOrder(log[w][p]) /\ InOrder(attempts[w][p])
  /\ \A w \in Worker, p \in Peer : Len(attempts[w][p]) <= Limit

(* No stretch of Window ticks, wherever it begins, contains more than      *)
(* Limit logins of one peer on one worker since it started: pruning the    *)
(* list at each attempt forgets nothing that still counts.                 *)
LimitHolds ==
  \A w \in Worker, p \in Peer, start \in 0..now :
    Cardinality({k \in DOMAIN log[w][p] :
                   log[w][p][k] \in start..start + Window - 1}) <= Limit

(* A peer is refused only while Limit of its own logins are in the window: *)
(* refused attempts, other peers and other workers never extend the ban.   *)
RefusedOnlyWhenFull ==
  [][\A w \in Worker, p \in Peer :
       refused' = <<w, p>> => Cardinality(Counted(w, p)) = Limit]_vars
=============================================================================
