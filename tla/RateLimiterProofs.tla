-------------------------- MODULE RateLimiterProofs --------------------------
(***************************************************************************)
(* Proofs about RateLimiter, for any users, any limit and any window.      *)
(***************************************************************************)
EXTENDS RateLimiter, FiniteSetTheorems, WellFoundedInduction, TLAPS

USE LimitsAssumption

-----------------------------------------------------------------------------
(* The loop of allow(). *)

\* A set of naturals that has an element has a least one.
LEMMA LeastNatural ==
    ASSUME NEW S, S \subseteq Nat, S # {}
    PROVE  \E n \in S : \A m \in S : n <= m
<1> DEFINE Less == OpToRel(<, Nat)
<1>1. PICK n \in S : \A m \in S : ~(<<m, n>> \in Less)
  <2>1. IsWellFoundedOn(Less, Nat)
    BY NatLessThanWellFounded
  <2> HIDE DEF Less
  <2> QED BY <2>1, WFMin, Zenon
<1>2. \A m \in S : ~(m < n)
  BY <1>1 DEF OpToRel
<1> QED BY <1>2

\* The loop ends, and has dropped what is not fresh up to the first that is.
LEMMA LoopEnds ==
    ASSUME now \in Nat, NEW q \in Seq(Nat)
    PROVE  /\ dropped(q) \in 0 .. Len(q)
           /\ \A i \in 1 .. dropped(q) : ~fresh(q[i])
           /\ dropped(q) < Len(q) => fresh(q[dropped(q) + 1])
<1> DEFINE S == {n \in 0 .. Len(q) : n < Len(q) => fresh(q[n + 1])}
           Ends(n) == /\ \A i \in 1 .. n : ~fresh(q[i])
                      /\ n < Len(q) => fresh(q[n + 1])
<1>1. PICK n \in S : \A m \in S : n <= m
  <2>1. S \subseteq Nat /\ S # {}
    <3>1. Len(q) \in S
      OBVIOUS
    <3> QED BY <3>1
  <2> HIDE DEF S
  <2> QED BY <2>1, LeastNatural
<1>2. \A i \in 1 .. n : ~fresh(q[i])
  <2> SUFFICES ASSUME NEW i \in 1 .. n, fresh(q[i]) PROVE FALSE
    OBVIOUS
  <2>1. i - 1 \in 0 .. Len(q) /\ (i - 1) + 1 = i /\ ~(n <= i - 1)
    OBVIOUS
  <2>2. i - 1 \in S
    BY <2>1
  <2> HIDE DEF S
  <2> QED BY <2>1, <2>2, <1>1
<1>3. \E k \in 0 .. Len(q) : Ends(k)
  BY <1>1, <1>2
<1>4. dropped(q) = CHOOSE k \in 0 .. Len(q) : Ends(k)
  BY DEF dropped
<1>5. dropped(q) \in 0 .. Len(q) /\ Ends(dropped(q))
  <2> HIDE DEF Ends
  <2> QED BY <1>3, <1>4, Zenon
<1> QED BY <1>5

-----------------------------------------------------------------------------
(* The deque is the newest part of what was let in, and what is missing from *)
(* it has left the window.                                                 *)

\* One user's deque q, and the history h of what was let in.
Kept(q, h) ==
    /\ q \in Seq(Nat) /\ h \in Seq(Nat)
    /\ Len(q) <= max_events /\ Len(q) <= Len(h)
    /\ \A i \in 1 .. Len(h) : h[i] <= now
    /\ \A i, j \in 1 .. Len(h) : i < j => h[i] <= h[j]
    /\ \A i \in 1 .. Len(q) : q[i] = h[Len(h) - Len(q) + i]
    /\ \A i \in 1 .. Len(h) - Len(q) : ~fresh(h[i])

\* One user's part of WindowHolds.
Spaced(h) ==
    \A i \in 1 .. Len(h) - max_events : h[i + max_events] - h[i] > window_s

LimiterInv ==
    /\ now \in Nat
    /\ events \in [Users -> Seq(Nat)]
    /\ admitted \in [Users -> Seq(Nat)]
    /\ \A u \in Users : Kept(events[u], admitted[u]) /\ Spaced(admitted[u])

\* The loop leaves a deque that is kept, and all of it fresh.
LEMMA PrunedIsKept ==
    ASSUME now \in Nat, NEW u \in Users, NEW h, Kept(events[u], h)
    PROVE  /\ Kept(pruned(u), h)
           /\ \A i \in 1 .. Len(pruned(u)) : fresh(pruned(u)[i])
<1> DEFINE q == events[u]
           n == dropped(q)
           p == SubSeq(q, n + 1, Len(q))
<1>1. q \in Seq(Nat) /\ h \in Seq(Nat) /\ Len(q) \in Nat /\ Len(h) \in Nat
  BY DEF Kept
<1>2. /\ n \in 0 .. Len(q)
      /\ \A i \in 1 .. n : ~fresh(q[i])
      /\ n < Len(q) => fresh(q[n + 1])
  BY <1>1, LoopEnds
<1>3. pruned(u) = p
  BY DEF pruned
<1> HIDE DEF n
<1>4. /\ p \in Seq(Nat)
      /\ Len(p) = Len(q) - n
      /\ \A i \in 1 .. Len(p) : p[i] = q[n + i]
  BY <1>1, <1>2
<1> HIDE DEF p, q
<1>5. Kept(q, h)
  BY DEF q
<1> DEFINE lq == Len(q) lh == Len(h) lp == Len(p)
<1>lengths. /\ n \in Nat /\ lq \in Nat /\ lh \in Nat /\ lp \in Nat
      /\ n <= lq /\ lq <= lh /\ lp = lq - n
  BY <1>1, <1>2, <1>4, <1>5 DEF Kept
<1>6. \A i \in 1 .. Len(p) : p[i] = h[Len(h) - Len(p) + i]
  <2> SUFFICES ASSUME NEW i \in 1 .. Len(p) PROVE p[i] = h[Len(h) - Len(p) + i]
    OBVIOUS
  <2>1. p[i] = q[n + i] /\ n + i \in 1 .. Len(q)
    BY <1>1, <1>2, <1>4
  <2>2. q[n + i] = h[Len(h) - Len(q) + (n + i)]
    BY <2>1, <1>5 DEF Kept
  <2>3. Len(h) - Len(q) + (n + i) = Len(h) - Len(p) + i
    BY <1>1, <1>2, <1>4
  <2> QED BY <2>1, <2>2, <2>3
<1>7. \A i \in 1 .. Len(h) - Len(p) : ~fresh(h[i])
  <2> SUFFICES ASSUME NEW i \in 1 .. Len(h) - Len(p) PROVE ~fresh(h[i])
    OBVIOUS
  <2>1. CASE i <= Len(h) - Len(q)
    BY <2>1, <1>1, <1>5 DEF Kept
  <2>2. CASE i > Len(h) - Len(q)
    <3> DEFINE k == i - (Len(h) - Len(q))
    <3>1. k \in 1 .. n /\ k \in 1 .. Len(q) /\ i = Len(h) - Len(q) + k
      <4>1. i \in 1 .. lh - lp /\ i > lh - lq
        BY <2>2
      <4> HIDE DEF lq, lh, lp
      <4>2. k \in 1 .. n /\ k \in 1 .. lq /\ i = lh - lq + k
        BY <4>1, <1>lengths DEF lq, lh
      <4> QED BY <4>2 DEF lq, lh
    <3> HIDE DEF k
    <3>2. q[k] = h[i]
      BY <3>1, <1>5 DEF Kept
    <3> QED BY <3>1, <3>2, <1>2
  <2> QED BY <2>1, <2>2, <1>1
<1>8. Kept(p, h)
  BY <1>1, <1>2, <1>4, <1>5, <1>6, <1>7 DEF Kept
<1>9. \A i \in 1 .. Len(p) : fresh(p[i])
  <2> SUFFICES ASSUME NEW i \in 1 .. Len(p) PROVE fresh(p[i])
    OBVIOUS
  <2>1. fresh(q[n + 1]) /\ q[n + 1] = p[1] /\ 1 \in 1 .. Len(p)
    BY <1>1, <1>2, <1>4
  <2> DEFINE d == Len(h) - Len(p)
  <2>2. d \in Nat /\ p[1] = h[d + 1] /\ p[i] = h[d + i]
        /\ d + 1 \in 1 .. Len(h) /\ d + i \in 1 .. Len(h)
    <3>1. d \in Nat /\ d + lp = lh
      BY <1>lengths
    <3>2. i \in 1 .. lp /\ 1 \in 1 .. lp
      BY <2>1
    <3>3. p[1] = h[d + 1] /\ p[i] = h[d + i]
      BY <1>6, <2>1
    <3> HIDE DEF d
    <3>4. d + 1 \in 1 .. lh /\ d + i \in 1 .. lh
      <4> HIDE DEF lp, lh
      <4> QED BY <3>1, <3>2, <1>lengths
    <3> QED BY <3>1, <3>3, <3>4
  <2>3. h[d + 1] <= h[d + i] /\ h[d + 1] \in Nat /\ h[d + i] \in Nat
    <3> HIDE DEF d
    <3>1. h[d + 1] \in Nat /\ h[d + i] \in Nat
      BY <1>1, <2>2
    <3>2. CASE i = 1
      BY <3>1, <3>2
    <3>3. CASE i > 1
      BY <3>3, <2>2, <1>5 DEF Kept
    <3> QED BY <3>2, <3>3, <3>1
  <2> HIDE DEF d
  <2> QED BY <2>1, <2>2, <2>3 DEF fresh
<1> QED BY <1>3, <1>8, <1>9

-----------------------------------------------------------------------------
(* The steps. *)

LEMMA LimiterStarts == LimiterInit => LimiterInv
<1> SUFFICES ASSUME LimiterInit PROVE LimiterInv
  OBVIOUS
<1>1. \A u \in Users : events[u] = <<>> /\ admitted[u] = <<>>
  BY DEF LimiterInit, NoEvents
<1>2. now = 0 /\ events \in [Users -> Seq(Nat)] /\ admitted \in [Users -> Seq(Nat)]
  BY DEF LimiterInit, NoEvents
<1>3. Kept(<<>>, <<>>) /\ Spaced(<<>>)
  BY <1>2 DEF Kept, Spaced
<1> QED BY <1>1, <1>2, <1>3 DEF LimiterInv

\* Time only takes comments out of the window.
LEMMA TickKeeps == LimiterInv /\ tick => LimiterInv'
<1> SUFFICES ASSUME LimiterInv, tick PROVE LimiterInv'
  OBVIOUS
<1>1. now' = now + 1 /\ now \in Nat /\ UNCHANGED <<events, admitted>>
  BY DEF LimiterInv, tick
<1>2. ASSUME NEW u \in Users
      PROVE  Kept(events[u], admitted[u])'
  <2>1. Kept(events[u], admitted[u])
    BY DEF LimiterInv
  <2>2. \A i \in 1 .. Len(admitted[u]) : admitted[u][i] \in Nat /\ admitted[u][i] <= now'
    BY <1>1, <2>1 DEF Kept
  <2>3. \A i \in 1 .. Len(admitted[u]) - Len(events[u]) : ~fresh(admitted[u][i])'
    <3> SUFFICES ASSUME NEW i \in 1 .. Len(admitted[u]) - Len(events[u])
                 PROVE  ~fresh(admitted[u][i])'
      BY <1>1
    <3>1. ~fresh(admitted[u][i]) /\ i \in 1 .. Len(admitted[u])
      BY <2>1 DEF Kept
    <3> QED BY <3>1, <2>2, <1>1 DEF fresh
  <2> QED BY <1>1, <2>1, <2>2, <2>3 DEF Kept
<1>3. \A u \in Users : Spaced(admitted[u])'
  BY <1>1 DEF LimiterInv, Spaced
<1> QED BY <1>1, <1>2, <1>3 DEF LimiterInv

LEMMA ForgottenKeeps == LimiterInv /\ forgotten => LimiterInv'
<1> SUFFICES ASSUME LimiterInv, forgotten PROVE LimiterInv'
  OBVIOUS
<1>1. \A u \in Users : events'[u] = <<>> /\ admitted'[u] = <<>>
  BY DEF forgotten, NoEvents
<1>2. now' = now /\ now \in Nat /\ events' \in [Users -> Seq(Nat)]
      /\ admitted' \in [Users -> Seq(Nat)]
  BY DEF forgotten, NoEvents, LimiterInv
<1>3. Kept(<<>>, <<>>)' /\ Spaced(<<>>)'
  BY <1>2 DEF Kept, Spaced
<1> QED BY <1>1, <1>2, <1>3 DEF LimiterInv

LEMMA RejectsKeeps ==
    ASSUME LimiterInv, NEW u \in Users, rejects(u)
    PROVE  LimiterInv'
<1>1. /\ events' = [events EXCEPT ![u] = pruned(u)]
      /\ now' = now /\ admitted' = admitted
  BY DEF rejects
<1>2. Kept(pruned(u), admitted[u])
  BY PrunedIsKept DEF LimiterInv
<1>3. pruned(u) \in Seq(Nat)
  BY <1>2 DEF Kept
<1>4. events' \in [Users -> Seq(Nat)]
  BY <1>1, <1>3 DEF LimiterInv
<1>5. ASSUME NEW v \in Users
      PROVE  Kept(events[v], admitted[v])'
  <2>1. Kept(events'[v], admitted[v])
    BY <1>1, <1>2 DEF LimiterInv
  <2> QED BY <1>1, <2>1 DEF Kept, fresh
<1>6. \A v \in Users : Spaced(admitted[v])'
  BY <1>1 DEF LimiterInv, Spaced
<1> QED BY <1>1, <1>4, <1>5, <1>6 DEF LimiterInv

\* A comment let in comes window_s after the one max_events before it, which is
\* not in the deque any more.
LEMMA AllowsKeeps ==
    ASSUME LimiterInv, NEW u \in Users, allows(u)
    PROVE  LimiterInv'
<1> DEFINE p == pruned(u)
           h == admitted[u]
<1>1. /\ events' = [events EXCEPT ![u] = Append(p, now)]
      /\ admitted' = [admitted EXCEPT ![u] = Append(h, now)]
      /\ now' = now /\ now \in Nat
      /\ ~(Len(p) >= max_events)
  BY DEF allows, LimiterInv, full
<1>2. Kept(p, h) /\ Spaced(h)
  BY PrunedIsKept DEF LimiterInv
<1> HIDE DEF p, h
<1> DEFINE q == Append(p, now)
           g == Append(h, now)
<1>3. /\ p \in Seq(Nat) /\ h \in Seq(Nat) /\ Len(p) \in Nat /\ Len(h) \in Nat
      /\ Len(p) < max_events /\ Len(p) <= Len(h)
  BY <1>1, <1>2 DEF Kept
<1>4. /\ q \in Seq(Nat) /\ Len(q) = Len(p) + 1
      /\ \A i \in 1 .. Len(p) : q[i] = p[i]
      /\ q[Len(p) + 1] = now
  BY <1>1, <1>3
<1>5. /\ g \in Seq(Nat) /\ Len(g) = Len(h) + 1
      /\ \A i \in 1 .. Len(h) : g[i] = h[i]
      /\ g[Len(h) + 1] = now
  BY <1>1, <1>3
<1> HIDE DEF q, g
<1>6. Kept(q, g)
  <2>1. \A i \in 1 .. Len(g) : g[i] <= now
    <3> SUFFICES ASSUME NEW i \in 1 .. Len(g) PROVE g[i] <= now
      OBVIOUS
    <3>1. CASE i = Len(h) + 1
      BY <3>1, <1>1, <1>5
    <3>2. CASE i \in 1 .. Len(h)
      BY <3>2, <1>2, <1>5 DEF Kept
    <3> QED BY <3>1, <3>2, <1>3, <1>5
  <2>2. \A i, j \in 1 .. Len(g) : i < j => g[i] <= g[j]
    <3> SUFFICES ASSUME NEW i \in 1 .. Len(g), NEW j \in 1 .. Len(g), i < j
                 PROVE  g[i] <= g[j]
      OBVIOUS
    <3>1. i \in 1 .. Len(h) /\ g[i] = h[i]
      BY <1>3, <1>5
    <3>2. CASE j = Len(h) + 1
      BY <3>2, <2>1, <1>5
    <3>3. CASE j \in 1 .. Len(h)
      BY <3>1, <3>3, <1>2, <1>5 DEF Kept
    <3> QED BY <3>2, <3>3, <1>3, <1>5
  <2>3. \A i \in 1 .. Len(q) : q[i] = g[Len(g) - Len(q) + i]
    <3> SUFFICES ASSUME NEW i \in 1 .. Len(q) PROVE q[i] = g[Len(g) - Len(q) + i]
      OBVIOUS
    <3>1. Len(g) - Len(q) + i = Len(h) - Len(p) + i
      BY <1>3, <1>4, <1>5
    <3>2. CASE i = Len(p) + 1
      <4>1. Len(h) - Len(p) + i = Len(h) + 1
        BY <3>2, <1>3
      <4> QED BY <4>1, <3>1, <3>2, <1>4, <1>5
    <3>3. CASE i \in 1 .. Len(p)
      <4>1. Len(h) - Len(p) + i \in 1 .. Len(h)
        BY <3>3, <1>3
      <4>2. p[i] = h[Len(h) - Len(p) + i]
        BY <3>3, <1>2 DEF Kept
      <4> QED BY <4>1, <4>2, <3>1, <3>3, <1>4, <1>5
    <3> QED BY <3>2, <3>3, <1>3, <1>4
  <2>4. \A i \in 1 .. Len(g) - Len(q) : ~fresh(g[i])
    <3> SUFFICES ASSUME NEW i \in 1 .. Len(g) - Len(q) PROVE ~fresh(g[i])
      OBVIOUS
    <3>1. i \in 1 .. Len(h) - Len(p) /\ i \in 1 .. Len(h)
      BY <1>3, <1>4, <1>5
    <3> QED BY <3>1, <1>2, <1>5 DEF Kept
  <2>5. Len(q) <= max_events /\ Len(q) <= Len(g)
    BY <1>3, <1>4, <1>5
  <2> QED BY <2>1, <2>2, <2>3, <2>4, <2>5, <1>4, <1>5 DEF Kept
<1>7. Spaced(g)
  <2> SUFFICES ASSUME NEW i \in 1 .. Len(g) - max_events
               PROVE  g[i + max_events] - g[i] > window_s
    BY DEF Spaced
  <2>1. /\ i \in 1 .. Len(h) /\ i + max_events \in 1 .. Len(h) + 1
    BY <1>3, <1>5
  <2>2. CASE i + max_events = Len(h) + 1
    <3>1. i \in 1 .. Len(h) - Len(p)
      BY <2>1, <2>2, <1>3
    <3>2. ~fresh(h[i]) /\ h[i] \in Nat /\ h[i] <= now
      BY <2>1, <3>1, <1>2, <1>3 DEF Kept
    <3>3. g[i + max_events] = now /\ g[i] = h[i]
      BY <2>1, <2>2, <1>5
    <3>4. now - h[i] > window_s
      BY <3>2, <1>1 DEF fresh
    <3> QED BY <3>3, <3>4
  <2>3. CASE i + max_events \in 1 .. Len(h)
    <3>1. i \in 1 .. Len(h) - max_events
      BY <2>1, <2>3, <1>3
    <3> QED BY <2>1, <2>3, <3>1, <1>2, <1>5 DEF Spaced
  <2> QED BY <2>1, <2>2, <2>3
<1>8. events' \in [Users -> Seq(Nat)] /\ admitted' \in [Users -> Seq(Nat)]
  BY <1>1, <1>4, <1>5 DEF LimiterInv, q, g
<1>9. ASSUME NEW v \in Users
      PROVE  Kept(events[v], admitted[v])' /\ Spaced(admitted[v])'
  <2>1. Kept(events'[v], admitted'[v]) /\ Spaced(admitted'[v])
    <3>1. CASE v = u
      BY <3>1, <1>1, <1>6, <1>7 DEF LimiterInv, q, g
    <3>2. CASE v # u
      BY <3>2, <1>1 DEF LimiterInv
    <3> QED BY <3>1, <3>2
  <2> QED BY <1>1, <2>1 DEF Kept, Spaced, fresh
<1> QED BY <1>1, <1>8, <1>9 DEF LimiterInv

LEMMA LimiterStep == LimiterInv /\ [LimiterNext]_limiter_vars => LimiterInv'
<1> SUFFICES ASSUME LimiterInv, [LimiterNext]_limiter_vars PROVE LimiterInv'
  OBVIOUS
<1>1. CASE tick
  BY <1>1, TickKeeps
<1>2. CASE forgotten
  BY <1>2, ForgottenKeeps
<1>3. ASSUME NEW u \in Users, rejects(u) PROVE LimiterInv'
  BY <1>3, RejectsKeeps
<1>4. ASSUME NEW u \in Users, allows(u) PROVE LimiterInv'
  BY <1>4, AllowsKeeps
<1>5. CASE UNCHANGED limiter_vars
  BY <1>5 DEF limiter_vars, LimiterInv, Kept, Spaced, fresh
<1> QED BY <1>1, <1>2, <1>3, <1>4, <1>5 DEF LimiterNext

-----------------------------------------------------------------------------
(* The theorems. *)

LEMMA LimiterIsSound == LimiterSpec => []LimiterInv
BY LimiterStarts, LimiterStep, PTL DEF LimiterSpec

\* No window of a process's life holds more of a user's comments than
\* max_events, wherever it starts.
THEOREM WindowNeverOverfull == LimiterSpec => []WindowHolds
<1>1. LimiterInv => WindowHolds
  BY DEF LimiterInv, Spaced, WindowHolds
<1> QED BY <1>1, LimiterIsSound, PTL

\* A full deque is full of comments of the last window_s, each let in once.
LEMMA FullIsEarned == LimiterInv => RefusalsAreEarned
<1> SUFFICES ASSUME LimiterInv, NEW u \in Users, full(pruned(u))
             PROVE  Cardinality({i \in 1 .. Len(admitted[u]) :
                                    now - admitted[u][i] <= window_s}) >= max_events
  BY DEF RefusalsAreEarned
<1> DEFINE h == admitted[u]
           p == pruned(u)
           Recent == {i \in 1 .. Len(h) : now - h[i] <= window_s}
           a == Len(h) - Len(p) + 1
           b == Len(h)
<1>1. Kept(p, h) /\ (\A i \in 1 .. Len(p) : fresh(p[i])) /\ Len(p) >= max_events
  BY PrunedIsKept DEF LimiterInv, full
<1>2. Len(p) \in Nat /\ Len(h) \in Nat /\ Len(p) <= Len(h)
  BY <1>1 DEF Kept
<1>3. a .. b \subseteq Recent
  <2> SUFFICES ASSUME NEW k \in a .. b PROVE k \in Recent
    OBVIOUS
  <2> DEFINE i == k - (Len(h) - Len(p))
  <2>1. i \in 1 .. Len(p) /\ k = Len(h) - Len(p) + i /\ k \in 1 .. Len(h)
    <3> HIDE DEF p, h
    <3> QED BY <1>2
  <2> HIDE DEF i, p, h
  <2>2. fresh(p[i]) /\ p[i] = h[k]
    BY <2>1, <1>1 DEF Kept
  <2> QED BY <2>1, <2>2 DEF fresh
<1>4. IsFiniteSet(Recent) /\ Cardinality(Recent) \in Nat
  <2>1. IsFiniteSet(1 .. Len(h))
    BY <1>2, FS_Interval
  <2>2. IsFiniteSet(Recent)
    BY <2>1, FS_Subset
  <2> QED BY <2>2, FS_CardinalityType
<1>5. Cardinality(a .. b) <= Cardinality(Recent)
  BY <1>3, <1>4, FS_Subset
<1>6. Cardinality(a .. b) = Len(p)
  <2> HIDE DEF p, h
  <2>1. a \in Int /\ b \in Int
    BY <1>2
  <2>2. Cardinality(a .. b) = IF a > b THEN 0 ELSE b - a + 1
    BY <2>1, FS_Interval
  <2> QED BY <2>2, <1>2
<1> QED BY <1>1, <1>2, <1>4, <1>5, <1>6

\* Whoever is refused had max_events comments let in during the last window_s.
THEOREM NobodyIsRefusedEarly == LimiterSpec => []RefusalsAreEarned
BY FullIsEarned, LimiterIsSound, PTL
=============================================================================
