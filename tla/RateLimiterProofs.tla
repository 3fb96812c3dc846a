------------------------- MODULE RateLimiterProofs -------------------------
(***************************************************************************)
(* That the login limiter forgets no attempt that still counts and refuses *)
(* only at the limit, for any workers, peers, limit, window and clock.     *)
(*                                                                         *)
(* A peer's list is a suffix of the history of its logins, everything      *)
(* before that suffix has left the window, and both are in order of time.  *)
(* So pruning cuts a prefix, and what it cuts can never count again.       *)
(***************************************************************************)
EXTENDS RateLimiter, FiniteSetTheorems, SequenceTheorems, TLAPS

(* s is the end of t. *)
IsEnd(s, t) ==
  /\ Len(s) <= Len(t)
  /\ \A k \in 1..Len(s) : s[k] = t[Len(t) - Len(s) + k]

(* Times in order, none of them after time c. *)
Chronicle(s, c) ==
  /\ s \in Seq(Nat)
  /\ \A i \in 1..Len(s) : s[i] <= c
  /\ \A i, j \in 1..Len(s) : i <= j => s[i] <= s[j]

(* What holds of a peer's list s and log t at time c. *)
Faithful(s, t, c) ==
  /\ Chronicle(s, c) /\ Chronicle(t, c)
  /\ Len(s) <= Limit
  /\ IsEnd(s, t)
  /\ \A k \in 1..Len(t) - Len(s) : c - t[k] >= Window
  /\ \A k \in 1..Len(t) - Limit : t[k + Limit] - t[k] >= Window

IInv ==
  /\ now \in 0..MaxClock
  /\ attempts \in [Worker -> [Peer -> Seq(Nat)]]
  /\ log \in [Worker -> [Peer -> Seq(Nat)]]
  /\ \A w \in Worker, p \in Peer : Faithful(attempts[w][p], log[w][p], now)

-----------------------------------------------------------------------------
(* Helpers on sequences *)

(* A non-empty set of naturals has a least element. *)
LEMMA LeastNat ==
  ASSUME NEW K \in SUBSET Nat, K # {}
  PROVE  \E k \in K : \A j \in K : k <= j
<1>1. \E k \in K : \A j \in K : <<j, k>> \notin OpToRel(<, Nat)
  BY NatLessThanWellFounded, WFMin
<1>2. PICK k \in K : \A j \in K : <<j, k>> \notin OpToRel(<, Nat)
  BY <1>1
<1>3. ASSUME NEW j \in K PROVE k <= j
  <2>1. j \in Nat /\ k \in Nat
    OBVIOUS
  <2>2. ~ (j < k)
    BY <1>2, <2>1 DEF OpToRel
  <2>3. QED BY <2>1, <2>2
<1>4. QED BY <1>3

(* Keeping the positions after the first a drops the first a elements. *)
LEMMA KeepTail ==
  ASSUME NEW s, NEW n \in Nat, NEW a \in 0..n
  PROVE  KeepAt(s, a+1..n) = [i \in 1..n-a |-> s[i+a]]
<1> DEFINE K == a+1..n
<1>0. ASSUME NEW k \in a..n PROVE Cardinality(a+1..k) = k - a
  <2>1. a + 1 \in Int /\ k \in Int
    OBVIOUS
  <2>2. Cardinality(a+1..k) = IF a + 1 > k THEN 0 ELSE k - (a + 1) + 1
    BY <2>1, FS_Interval
  <2>3. QED BY <2>2
<1>1. Cardinality(K) = n - a
  <2>1. n \in a..n
    OBVIOUS
  <2>2. QED BY <1>0, <2>1
<1>2. ASSUME NEW k \in K PROVE Cardinality(K \cap 1..k) = k - a
  <2>0. k \in a..n
    OBVIOUS
  <2>1. K \cap 1..k = a+1..k
    OBVIOUS
  <2>2. QED BY <1>0, <2>0, <2>1
<1>3. ASSUME NEW i \in 1..n-a
      PROVE  (CHOOSE k \in K : Cardinality(K \cap 1..k) = i) = i + a
  <2>1. i + a \in K /\ Cardinality(K \cap 1..(i + a)) = i
    BY <1>2
  <2>2. ASSUME NEW k \in K, Cardinality(K \cap 1..k) = i
        PROVE  k = i + a
    BY <1>2, <2>2
  <2>3. QED BY <2>1, <2>2
<1>4. KeepAt(s, K) = [i \in 1..n-a |-> s[CHOOSE k \in K : Cardinality(K \cap 1..k) = i]]
  BY <1>1 DEF KeepAt
<1>5. QED BY <1>3, <1>4

(* Pruning a list in order of time cuts its first a elements, all of them  *)
(* out of the window, and keeps the rest, all of them in it.               *)
LEMMA RecentIsTail ==
  ASSUME NEW s, now \in Nat, Chronicle(s, now)
  PROVE  \E a \in 0..Len(s) :
           /\ {k \in DOMAIN s : now - s[k] < Window} = a+1..Len(s)
           /\ Recent(s) = [i \in 1..Len(s)-a |-> s[i+a]]
           /\ \A k \in 1..a : now - s[k] >= Window
           /\ \A k \in a+1..Len(s) : now - s[k] < Window
<1> DEFINE K == {k \in DOMAIN s : now - s[k] < Window}
<1>1. Len(s) \in Nat /\ DOMAIN s = 1..Len(s) /\ \A k \in 1..Len(s) : s[k] \in Nat
  BY DEF Chronicle
<1>2. Window \in Nat
  BY WindowAssumption
<1>3. \A i, j \in 1..Len(s) : i <= j => s[i] <= s[j]
  BY DEF Chronicle
<1>4. \E a \in 0..Len(s) : K = a+1..Len(s)
  <2>1. CASE K = {}
    <3>1. K = Len(s)+1..Len(s)
      BY <1>1, <2>1
    <3>2. QED BY <1>1, <3>1
  <2>2. CASE K # {}
    <3>1. K \in SUBSET Nat
      BY <1>1
    <3>2. PICK k \in K : \A j \in K : k <= j
      BY <2>2, <3>1, LeastNat
    <3>3. k \in 1..Len(s) /\ now - s[k] < Window
      BY <1>1
    <3>4. ASSUME NEW j \in k..Len(s) PROVE j \in K
      <4>1. j \in 1..Len(s) /\ s[k] <= s[j]
        BY <1>1, <1>3, <3>3
      <4>2. QED BY <1>1, <1>2, <3>3, <4>1
    <3>5. K \subseteq k..Len(s)
      BY <1>1, <3>2, <3>3
    <3>6. K = (k-1)+1..Len(s) /\ k-1 \in 0..Len(s)
      BY <1>1, <3>3, <3>4, <3>5
    <3>7. QED BY <3>6
  <2>3. QED BY <2>1, <2>2
<1>5. PICK a \in 0..Len(s) : K = a+1..Len(s)
  BY <1>4
<1>6. Recent(s) = [i \in 1..Len(s)-a |-> s[i+a]]
  <2>1. KeepAt(s, a+1..Len(s)) = [i \in 1..Len(s)-a |-> s[i+a]]
    BY <1>1, KeepTail
  <2>2. Recent(s) = KeepAt(s, K)
    BY DEF Recent
  <2>3. QED BY <1>5, <2>1, <2>2
<1>7. ASSUME NEW k \in 1..a PROVE now - s[k] >= Window
  <2>1. k \in 1..Len(s) /\ k \notin K
    BY <1>1, <1>5
  <2>2. ~ (now - s[k] < Window) /\ s[k] \in Nat
    BY <1>1, <2>1
  <2>3. QED BY <1>2, <2>2
<1>8. ASSUME NEW k \in a+1..Len(s) PROVE now - s[k] < Window
  BY <1>5
<1>9. QED BY <1>5, <1>6, <1>7, <1>8

-----------------------------------------------------------------------------
(* The inductive invariant *)

(* An admitted login: nothing that is pruned counts now or later, and the  *)
(* one Limit places back in the log is among the pruned.                   *)
LEMMA AdmitFaithful ==
  ASSUME NEW s, NEW t, now \in Nat, Faithful(s, t, now), Len(Recent(s)) < Limit
  PROVE  /\ Append(Recent(s), now) \in Seq(Nat)
         /\ Append(t, now) \in Seq(Nat)
         /\ Faithful(Append(Recent(s), now), Append(t, now), now)
<1> DEFINE r == Recent(s)
           u == Append(r, now)
           v == Append(t, now)
<1>0. Limit \in Nat /\ Limit >= 1 /\ Window \in Nat
  BY LimitAssumption, WindowAssumption
<1>1. /\ s \in Seq(Nat) /\ Len(s) \in Nat
      /\ t \in Seq(Nat) /\ Len(t) \in Nat
      /\ \A k \in 1..Len(s) : s[k] \in Nat
      /\ \A k \in 1..Len(t) : t[k] \in Nat
  BY DEF Faithful, Chronicle
<1>2. PICK a \in 0..Len(s) :
        /\ Recent(s) = [i \in 1..Len(s)-a |-> s[i+a]]
        /\ \A k \in 1..a : now - s[k] >= Window
  BY RecentIsTail DEF Faithful
<1> DEFINE m == Len(s) - a
<1>3. m \in Nat /\ a \in Nat /\ Len(s) = m + a
  BY <1>1
<1>4. r \in Seq(Nat) /\ Len(r) = m /\ \A k \in 1..m : r[k] = s[k+a]
  BY <1>1, <1>2, <1>3
<1> HIDE DEF r, m
<1>5. u \in Seq(Nat) /\ Len(u) = m + 1
  BY <1>4, AppendProperties
<1>6. \A k \in 1..m : u[k] = s[k+a]
  BY <1>4, AppendProperties
<1>7. u[m+1] = now
  BY <1>4, AppendProperties
<1>8. /\ v \in Seq(Nat) /\ Len(v) = Len(t) + 1 /\ v[Len(t)+1] = now
      /\ \A k \in 1..Len(t) : v[k] = t[k]
  BY <1>1, AppendProperties
<1>9. m < Limit
  BY <1>4 DEF r
<1> HIDE DEF u, v
<1>10. Chronicle(u, now)
  <2>1. ASSUME NEW i \in 1..Len(u) PROVE u[i] <= now
    <3>1. CASE i = m + 1
      BY <1>7, <3>1
    <3>2. CASE i # m + 1
      <4>1. i \in 1..m /\ i + a \in 1..Len(s)
        BY <1>3, <1>5, <3>2
      <4>2. QED BY <1>6, <4>1 DEF Faithful, Chronicle
    <3>3. QED BY <3>1, <3>2
  <2>2. ASSUME NEW i \in 1..Len(u), NEW j \in 1..Len(u), i <= j
        PROVE  u[i] <= u[j]
    <3>1. CASE j = m + 1
      BY <1>7, <2>1, <3>1
    <3>2. CASE j # m + 1
      <4>1. i \in 1..m /\ j \in 1..m
        BY <1>3, <1>5, <2>2, <3>2
      <4>2. i + a \in 1..Len(s) /\ j + a \in 1..Len(s) /\ i + a <= j + a
        BY <1>3, <4>1, <2>2
      <4>3. s[i + a] <= s[j + a]
        BY <4>2 DEF Faithful, Chronicle
      <4>4. QED BY <1>6, <4>1, <4>3
    <3>3. QED BY <3>1, <3>2
  <2>3. QED BY <1>5, <2>1, <2>2 DEF Chronicle
<1>11. Chronicle(v, now)
  <2>1. ASSUME NEW i \in 1..Len(v) PROVE v[i] <= now
    <3>1. CASE i = Len(t) + 1
      BY <1>8, <3>1
    <3>2. CASE i # Len(t) + 1
      <4>1. i \in 1..Len(t)
        BY <1>1, <1>8, <3>2
      <4>2. QED BY <1>8, <4>1 DEF Faithful, Chronicle
    <3>3. QED BY <3>1, <3>2
  <2>2. ASSUME NEW i \in 1..Len(v), NEW j \in 1..Len(v), i <= j
        PROVE  v[i] <= v[j]
    <3>1. CASE j = Len(t) + 1
      BY <1>8, <2>1, <3>1
    <3>2. CASE j # Len(t) + 1
      <4>1. Len(t) \in Nat /\ Len(v) = Len(t) + 1
        BY <1>1, <1>8
      <4>2. i \in 1..Len(t) /\ j \in 1..Len(t)
        BY <2>2, <3>2, <4>1
      <4>3. t[i] <= t[j]
        BY <4>2, <2>2 DEF Faithful, Chronicle
      <4>4. QED BY <1>8, <4>2, <4>3
    <3>3. QED BY <3>1, <3>2
  <2>3. QED BY <1>8, <2>1, <2>2 DEF Chronicle
<1>12. Len(s) <= Len(t) /\ \A k \in 1..Len(s) : s[k] = t[Len(t) - Len(s) + k]
  BY DEF Faithful, IsEnd
<1>13. IsEnd(u, v)
  <2>1. Len(u) <= Len(v)
    BY <1>1, <1>3, <1>5, <1>8, <1>12
  <2>2. ASSUME NEW k \in 1..Len(u) PROVE u[k] = v[Len(v) - Len(u) + k]
    <3>1. CASE k = m + 1
      BY <1>1, <1>3, <1>5, <1>7, <1>8, <3>1
    <3>2. CASE k # m + 1
      <4>1. k \in 1..m /\ k + a \in 1..Len(s)
        BY <1>3, <1>5, <3>2
      <4>2. u[k] = t[Len(t) - Len(s) + (k + a)]
        BY <1>6, <1>12, <4>1
      <4>3. /\ Len(t) - Len(s) + (k + a) = Len(v) - Len(u) + k
            /\ Len(v) - Len(u) + k \in 1..Len(t)
        BY <1>1, <1>3, <1>5, <1>8, <1>12, <4>1
      <4>4. QED BY <1>8, <4>2, <4>3
    <3>3. QED BY <3>1, <3>2
  <2>3. QED BY <2>1, <2>2 DEF IsEnd
<1>14. ASSUME NEW k \in 1..Len(v) - Len(u) PROVE k \in 1..Len(t) /\ now - t[k] >= Window
  <2>1. k \in Nat /\ 1 <= k /\ k <= Len(t) - m
    BY <1>1, <1>3, <1>5, <1>8
  <2>2. k \in 1..Len(t)
    BY <1>1, <1>3, <2>1
  <2>3. CASE k <= Len(t) - Len(s)
    <3>1. k \in 1..Len(t) - Len(s)
      BY <1>1, <2>1, <2>3
    <3>2. QED BY <2>2, <3>1 DEF Faithful
  <2>4. CASE ~ (k <= Len(t) - Len(s))
    <3> DEFINE j == k - (Len(t) - Len(s))
    <3>1. j \in 1..a /\ j \in 1..Len(s) /\ Len(t) - Len(s) + j = k
      BY <1>1, <1>3, <2>1, <2>4
    <3>2. s[j] = t[k]
      BY <1>12, <3>1
    <3>3. now - s[j] >= Window
      BY <1>2, <3>1
    <3>4. QED BY <2>2, <3>2, <3>3
  <2>5. QED BY <2>3, <2>4
<1>15. ASSUME NEW k \in 1..Len(v) - Len(u) PROVE now - v[k] >= Window
  BY <1>8, <1>14
<1>16. ASSUME NEW k \in 1..Len(v) - Limit PROVE v[k + Limit] - v[k] >= Window
  <2>1. k \in Nat /\ 1 <= k /\ k + Limit <= Len(t) + 1
    BY <1>0, <1>1, <1>8
  <2>2. CASE k + Limit = Len(t) + 1
    <3>1. k \in 1..Len(v) - Len(u)
      BY <1>0, <1>1, <1>3, <1>5, <1>8, <1>9, <2>1, <2>2
    <3>2. QED BY <1>8, <1>15, <2>2, <3>1
  <2>3. CASE k + Limit # Len(t) + 1
    <3>1. k \in 1..Len(t) - Limit /\ k \in 1..Len(t) /\ k + Limit \in 1..Len(t)
      <4>1. Len(t) \in Nat
        BY <1>1
      <4>2. k + Limit <= Len(t)
        BY <1>0, <2>1, <2>3, <4>1
      <4>3. QED BY <1>0, <2>1, <4>1, <4>2
    <3>2. t[k + Limit] - t[k] >= Window
      BY <3>1 DEF Faithful
    <3>3. QED BY <1>8, <3>1, <3>2
  <2>4. QED BY <2>2, <2>3
<1>17. Len(u) <= Limit
  BY <1>0, <1>3, <1>5, <1>9
<1>18. Faithful(u, v, now)
  BY <1>10, <1>11, <1>13, <1>15, <1>16, <1>17 DEF Faithful
<1>19. QED
  BY <1>5, <1>8, <1>18 DEF r, u, v

(* Time passing only takes attempts out of the window. *)
LEMMA TickFaithful ==
  ASSUME NEW s, NEW t, NEW c \in Nat, NEW d \in Nat, c <= d, Faithful(s, t, c)
  PROVE  Faithful(s, t, d)
<1>1. /\ Len(s) \in Nat /\ Len(t) \in Nat /\ Window \in Nat
      /\ \A k \in 1..Len(s) : s[k] \in Nat
      /\ \A k \in 1..Len(t) : t[k] \in Nat
  BY WindowAssumption DEF Faithful, Chronicle
<1>2. Chronicle(s, d) /\ Chronicle(t, d)
  BY <1>1 DEF Faithful, Chronicle
<1>3. ASSUME NEW k \in 1..Len(t) - Len(s) PROVE d - t[k] >= Window
  <2>1. c - t[k] >= Window
    BY DEF Faithful
  <2>2. Len(s) <= Len(t)
    BY DEF Faithful, IsEnd
  <2>3. k \in 1..Len(t)
    BY <1>1, <2>2
  <2>4. QED BY <1>1, <2>1, <2>3
<1>4. /\ Len(s) <= Limit /\ IsEnd(s, t)
      /\ \A k \in 1..Len(t) - Limit : t[k + Limit] - t[k] >= Window
  BY DEF Faithful
<1>5. QED BY <1>2, <1>3, <1>4 DEF Faithful

LEMMA EmptyFaithful ==
  ASSUME NEW c \in Nat
  PROVE  Faithful(<<>>, <<>>, c)
BY LimitAssumption DEF Faithful, Chronicle, IsEnd

LEMMA InitInvariant == Init => IInv
<1> SUFFICES ASSUME Init PROVE IInv
  OBVIOUS
<1>1. now = 0 /\ attempts = Empty /\ log = Empty
  BY DEF Init
<1>2. Empty \in [Worker -> [Peer -> Seq(Nat)]]
  BY DEF Empty
<1>3. ASSUME NEW w \in Worker, NEW p \in Peer
      PROVE  Faithful(attempts[w][p], log[w][p], now)
  BY <1>1, EmptyFaithful DEF Empty
<1>4. QED BY <1>1, <1>2, <1>3, MaxClockAssumption DEF IInv

LEMMA NextInvariant == IInv /\ [Next]_vars => IInv'
<1> SUFFICES ASSUME IInv, [Next]_vars PROVE IInv'
  OBVIOUS
<1>0. /\ now \in Nat /\ now <= MaxClock /\ MaxClock \in Nat
      /\ attempts \in [Worker -> [Peer -> Seq(Nat)]]
      /\ log \in [Worker -> [Peer -> Seq(Nat)]]
      /\ \A w \in Worker, p \in Peer : Faithful(attempts[w][p], log[w][p], now)
  BY MaxClockAssumption DEF IInv
<1>1. ASSUME NEW w \in Worker, NEW p \in Peer, Admit(w, p) PROVE IInv'
  <2>1. /\ Append(Recent(attempts[w][p]), now) \in Seq(Nat)
        /\ Append(log[w][p], now) \in Seq(Nat)
        /\ Faithful(Append(Recent(attempts[w][p]), now), Append(log[w][p], now), now)
    BY <1>0, <1>1, AdmitFaithful DEF Admit
  <2>2. /\ attempts' = [attempts EXCEPT ![w][p] = Append(Recent(attempts[w][p]), now)]
        /\ log' = [log EXCEPT ![w][p] = Append(log[w][p], now)]
        /\ now' = now
    BY <1>1 DEF Admit
  <2>3. /\ attempts' \in [Worker -> [Peer -> Seq(Nat)]]
        /\ log' \in [Worker -> [Peer -> Seq(Nat)]]
    BY <1>0, <2>1, <2>2
  <2>4. ASSUME NEW w0 \in Worker, NEW p0 \in Peer
        PROVE  Faithful(attempts'[w0][p0], log'[w0][p0], now')
    <3>1. CASE w0 = w /\ p0 = p
      BY <1>0, <2>1, <2>2, <3>1
    <3>2. CASE ~ (w0 = w /\ p0 = p)
      BY <1>0, <2>2, <3>2
    <3>3. QED BY <3>1, <3>2
  <2>5. QED BY <1>0, <2>2, <2>3, <2>4 DEF IInv
<1>2. ASSUME NEW w \in Worker, NEW p \in Peer, Refuse(w, p) PROVE IInv'
  BY <1>0, <1>2 DEF Refuse, IInv
<1>3. ASSUME NEW w \in Worker, Restart(w) PROVE IInv'
  <2>1. /\ attempts' = [attempts EXCEPT ![w] = Empty[w]]
        /\ log' = [log EXCEPT ![w] = Empty[w]]
        /\ now' = now
    BY <1>3 DEF Restart
  <2>2. Empty[w] = [p \in Peer |-> <<>>] /\ Empty[w] \in [Peer -> Seq(Nat)]
    BY DEF Empty
  <2>3. /\ attempts' \in [Worker -> [Peer -> Seq(Nat)]]
        /\ log' \in [Worker -> [Peer -> Seq(Nat)]]
    BY <1>0, <2>1, <2>2
  <2>4. ASSUME NEW w0 \in Worker, NEW p0 \in Peer
        PROVE  Faithful(attempts'[w0][p0], log'[w0][p0], now')
    <3>1. CASE w0 = w
      BY <1>0, <2>1, <2>2, <3>1, EmptyFaithful
    <3>2. CASE w0 # w
      BY <1>0, <2>1, <3>2
    <3>3. QED BY <3>1, <3>2
  <2>5. QED BY <1>0, <2>1, <2>3, <2>4 DEF IInv
<1>4. CASE Tick
  <2>1. now' = now + 1 /\ now < MaxClock /\ attempts' = attempts /\ log' = log
    BY <1>4 DEF Tick
  <2>2. ASSUME NEW w \in Worker, NEW p \in Peer
        PROVE  Faithful(attempts'[w][p], log'[w][p], now')
    <3>1. now' \in Nat /\ now <= now'
      BY <1>0, <2>1
    <3>2. QED BY <1>0, <2>1, <3>1, TickFaithful
  <2>3. QED BY <1>0, <2>1, <2>2 DEF IInv
<1>5. CASE UNCHANGED vars
  BY <1>5 DEF vars, IInv
<1>6. QED BY <1>1, <1>2, <1>3, <1>4, <1>5 DEF Next

THEOREM Invariant == Spec => []IInv
BY InitInvariant, NextInvariant, PTL DEF Spec

-----------------------------------------------------------------------------
(* The properties *)

LEMMA ChronicleInOrder ==
  ASSUME NEW s, now \in Nat, Chronicle(s, now)
  PROVE  InOrder(s)
<1>1. Len(s) \in Nat /\ s \in [1..Len(s) -> Nat]
  BY DEF Chronicle
<1>2. ASSUME NEW k \in 1..Len(s) PROVE s[k] \in 0..now
  BY <1>1 DEF Chronicle
<1>3. s \in [1..Len(s) -> 0..now]
  BY <1>1, <1>2
<1>4. s \in Seq(0..now)
  BY <1>1, <1>3, SeqDef
<1>5. ASSUME NEW k \in 2..Len(s) PROVE s[k-1] <= s[k]
  <2>1. k-1 \in 1..Len(s) /\ k \in 1..Len(s) /\ k-1 <= k
    BY <1>1
  <2>2. QED BY <2>1 DEF Chronicle
<1>6. QED BY <1>4, <1>5 DEF InOrder

(* The types hold: lists and logs are in order of time and not ahead of    *)
(* the clock, and no list of _attempts outgrows max_attempts.              *)
THEOREM TypeCorrect == Spec => []TypeOK
<1>1. IInv => TypeOK
  <2> SUFFICES ASSUME IInv PROVE TypeOK
    OBVIOUS
  <2>1. now \in Nat
    BY MaxClockAssumption DEF IInv
  <2>2. ASSUME NEW w \in Worker, NEW p \in Peer
        PROVE  /\ InOrder(log[w][p]) /\ InOrder(attempts[w][p])
               /\ Len(attempts[w][p]) <= Limit
    BY <2>1, ChronicleInOrder DEF IInv, Faithful
  <2>3. QED BY <2>2 DEF TypeOK, IInv
<1>2. QED BY <1>1, Invariant, PTL

(* Logins Limit places apart in the log are Window apart in time, so those *)
(* of a stretch of Window ticks are among Limit consecutive ones.          *)
LEMMA StretchBounded ==
  ASSUME NEW s, NEW t, NEW c, Faithful(s, t, c), NEW start \in Nat
  PROVE  Cardinality({k \in DOMAIN t : t[k] \in start..start + Window - 1}) <= Limit
<1> DEFINE n == Len(t)
           K == {k \in DOMAIN t : t[k] \in start..start + Window - 1}
<1>0. Limit \in Nat /\ Limit >= 1 /\ Window \in Nat
  BY LimitAssumption, WindowAssumption
<1>1. n \in Nat /\ DOMAIN t = 1..n /\ \A k \in 1..n : t[k] \in Nat
  BY DEF Faithful, Chronicle
<1>2. /\ \A i, j \in 1..n : i <= j => t[i] <= t[j]
      /\ \A k \in 1..n - Limit : t[k + Limit] - t[k] >= Window
  BY DEF Faithful, Chronicle
<1> HIDE DEF n
<1>3. CASE K = {}
  BY <1>0, <1>3, FS_EmptySet
<1>4. CASE K # {}
  <2>1. K \in SUBSET Nat
    BY <1>1
  <2>2. PICK a \in K : \A k \in K : a <= k
    BY <1>4, <2>1, LeastNat
  <2>3. a \in 1..n /\ start <= t[a]
    BY <1>0, <1>1
  <2>4. ASSUME NEW k \in K PROVE k \in a..a + Limit - 1
    <3>1. k \in 1..n /\ a <= k /\ t[k] < start + Window
      BY <1>0, <1>1, <2>2
    <3>2. SUFFICES ASSUME a + Limit <= k PROVE FALSE
      BY <1>0, <1>1, <2>3, <3>1
    <3>3. a \in 1..n - Limit /\ a + Limit \in 1..n
      BY <1>0, <1>1, <2>3, <3>1, <3>2
    <3>4. t[a + Limit] - t[a] >= Window /\ t[a + Limit] <= t[k]
      BY <1>2, <3>1, <3>2, <3>3
    <3>5. t[a] \in Nat /\ t[k] \in Nat /\ t[a + Limit] \in Nat
      BY <1>1, <2>3, <3>1, <3>3
    <3>6. QED BY <1>0, <2>3, <3>1, <3>4, <3>5
  <2> DEFINE b == a + Limit - 1
  <2>5. a \in Int /\ b \in Int /\ a <= b /\ b - a + 1 = Limit
    BY <1>0, <2>3
  <2>6. K \in SUBSET (a..b)
    BY <2>4
  <2> HIDE DEF b, K
  <2>7. /\ IsFiniteSet(a..b)
        /\ Cardinality(a..b) = IF a > b THEN 0 ELSE b - a + 1
    BY <2>5, FS_Interval
  <2>8. Cardinality(a..b) = Limit
    BY <2>5, <2>7
  <2>9. Cardinality(K) <= Limit
    BY <2>6, <2>7, <2>8, FS_Subset
  <2>10. QED BY <2>9 DEF K
<1>5. QED BY <1>3, <1>4

(* Pruning forgets nothing that still counts: no stretch of Window ticks   *)
(* contains more than Limit logins of one peer.                            *)
THEOREM LimitAlwaysHolds == Spec => []LimitHolds
<1>1. IInv => LimitHolds
  <2> SUFFICES ASSUME IInv, NEW w \in Worker, NEW p \in Peer, NEW start \in 0..now
               PROVE  Cardinality({k \in DOMAIN log[w][p] :
                         log[w][p][k] \in start..start + Window - 1}) <= Limit
    BY DEF LimitHolds
  <2>1. start \in Nat /\ Faithful(attempts[w][p], log[w][p], now)
    BY MaxClockAssumption DEF IInv
  <2>2. QED BY <2>1, StretchBounded
<1>2. QED BY <1>1, Invariant, PTL

(* A refusal finds the list full, all of it in the window, and everything  *)
(* before it in the log outside: exactly Limit logins count.               *)
LEMMA FullWindow ==
  ASSUME NEW w \in Worker, NEW p \in Peer, now \in Nat,
         Faithful(attempts[w][p], log[w][p], now),
         Len(Recent(attempts[w][p])) >= Limit
  PROVE  Cardinality(Counted(w, p)) = Limit
<1> DEFINE s == attempts[w][p]
           t == log[w][p]
<1>0. Limit \in Nat /\ Limit >= 1 /\ Window \in Nat
  BY LimitAssumption, WindowAssumption
<1>1. /\ s \in Seq(Nat) /\ Len(s) \in Nat /\ Len(s) <= Limit
      /\ t \in Seq(Nat) /\ Len(t) \in Nat /\ DOMAIN t = 1..Len(t)
      /\ \A k \in 1..Len(t) : t[k] \in Nat
  BY DEF Faithful, Chronicle
<1>2. PICK a \in 0..Len(s) :
        /\ Recent(s) = [i \in 1..Len(s)-a |-> s[i+a]]
        /\ \A k \in a+1..Len(s) : now - s[k] < Window
  BY RecentIsTail DEF Faithful
<1>3. Len(Recent(s)) = Len(s) - a
  BY <1>1, <1>2
<1>4. a = 0 /\ Len(s) = Limit
  BY <1>0, <1>1, <1>3
<1>5. Limit <= Len(t) /\ \A k \in 1..Limit : s[k] = t[Len(t) - Limit + k]
  BY <1>4 DEF Faithful, IsEnd
<1> HIDE DEF s, t
<1>6. {k \in DOMAIN t : now - t[k] < Window} = Len(t) - Limit + 1 .. Len(t)
  <2>1. ASSUME NEW k \in 1..Len(t), k <= Len(t) - Limit
        PROVE  ~ (now - t[k] < Window)
    <3>1. k \in 1..Len(t) - Len(s)
      BY <1>0, <1>1, <1>4, <2>1
    <3>2. now - t[k] >= Window
      BY <3>1 DEF Faithful, s, t
    <3>3. QED BY <1>0, <1>1, <3>2
  <2>2. ASSUME NEW k \in Len(t) - Limit + 1 .. Len(t)
        PROVE  k \in 1..Len(t) /\ now - t[k] < Window
    <3> DEFINE j == k - (Len(t) - Limit)
    <3>1. /\ k \in Int /\ Len(t) - Limit + 1 <= k /\ k <= Len(t)
          /\ Len(t) \in Nat /\ Limit <= Len(t)
      BY <1>0, <1>1, <1>5
    <3>2. j \in 1..Limit /\ Len(t) - Limit + j = k /\ k \in 1..Len(t)
      BY <1>0, <3>1
    <3>3. j \in a+1..Len(s)
      BY <1>0, <1>4, <3>2
    <3>4. s[j] = t[k] /\ now - s[j] < Window
      BY <1>2, <1>5, <3>2, <3>3
    <3>5. QED BY <3>2, <3>4
  <2>3. QED BY <1>0, <1>1, <1>5, <2>1, <2>2
<1>7. Len(t) - Limit + 1 \in Int /\ Len(t) \in Int
  BY <1>0, <1>1
<1>8. Cardinality(Len(t) - Limit + 1 .. Len(t))
        = IF Len(t) - Limit + 1 > Len(t) THEN 0 ELSE Len(t) - (Len(t) - Limit + 1) + 1
  BY <1>7, FS_Interval
<1>9. Counted(w, p) = {k \in DOMAIN t : now - t[k] < Window}
  BY DEF Counted, t
<1>10. Len(t) - Limit + 1 <= Len(t) /\ Len(t) - (Len(t) - Limit + 1) + 1 = Limit
  BY <1>0, <1>1
<1>11. Cardinality(Len(t) - Limit + 1 .. Len(t)) = Limit
  BY <1>0, <1>1, <1>8, <1>10
<1>12. QED BY <1>6, <1>9, <1>11

(* Only Refuse names a peer, and only when its own Limit logins count.     *)
THEOREM RefusalsAreDue == Spec => RefusedOnlyWhenFull
<1> DEFINE Due == \A w \in Worker, p \in Peer :
                    refused' = <<w, p>> => Cardinality(Counted(w, p)) = Limit
<1>1. IInv /\ [Next]_vars => [Due]_vars
  <2> SUFFICES ASSUME IInv, Next, NEW w \in Worker, NEW p \in Peer,
                      refused' = <<w, p>>
               PROVE  Cardinality(Counted(w, p)) = Limit
    OBVIOUS
  <2>1. Never # <<w, p>>
    BY DEF Never
  <2>2. Refuse(w, p)
    BY <2>1 DEF Next, Admit, Refuse, Restart, Tick
  <2>3. now \in Nat /\ Faithful(attempts[w][p], log[w][p], now)
    BY MaxClockAssumption DEF IInv
  <2>4. QED BY <2>2, <2>3, FullWindow DEF Refuse
<1>2. QED BY <1>1, Invariant, PTL DEF Spec, RefusedOnlyWhenFull

=============================================================================
