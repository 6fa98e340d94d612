-------------------------- MODULE DiscoveryProofs --------------------------
(***************************************************************************)
(* The rate limiter's burst bound for every RatePerSec, any number of      *)
(* hosts and workers, and whatever the goroutines' order.  BurstInv is     *)
(* inductive with the limiter's types: a grant moves a token from the      *)
(* bucket into the count, a tick ages every count by one and may add one,  *)
(* and the goroutine moves it on from the channel to its hand and from     *)
(* there into the bucket.                                                  *)
(* And what Expand makes of any specs over any number of addresses: each   *)
(* loop's recursive function exists (a witness is given, or built one      *)
(* index at a time) and has one value, by induction over a set of numbers. *)
(***************************************************************************)
EXTENDS Discovery, WellFoundedInduction, TLAPS

LimiterTypeOK ==
  /\ tokens \in 0..PerSec
  /\ tick \in BOOLEAN
  /\ refill \in {"select", "send", "over"}
  /\ since \in [Window -> Nat]

LimiterInv == LimiterTypeOK /\ BurstInv

One(b) == IF b THEN 1 ELSE 0

(* The bound with its numbers named, for arithmetic.                       *)
LEMMA GrantableBounded ==
  ASSUME LimiterInv
  PROVE  /\ One(tick) \in 0..1 /\ One(refill = "send") \in 0..1
         /\ Grantable = tokens + One(tick) + One(refill = "send")
         /\ Grantable \in Nat /\ Grantable <= PerSec + 2
         /\ tokens \in Nat /\ tokens <= PerSec /\ PerSec \in Nat
         /\ \A k \in Window : k \in Nat /\ since[k] \in Nat /\ since[k] + Grantable <= PerSec + k + 2
BY DiscoveryAssumption DEF LimiterInv, LimiterTypeOK, BurstInv, Grantable, One, Window

(* The bucket starts empty and nothing has been granted.                   *)
LEMMA InitLimiterInv == Init => LimiterInv
<1>. SUFFICES ASSUME Init PROVE LimiterInv
  OBVIOUS
<1>1. tick = FALSE /\ tick \in BOOLEAN
  BY Zenon DEF Init
<1>2. refill \in {"select", "over"} /\ tokens = 0 /\ since = [k \in Window |-> 0]
  BY DEF Init
<1>3. LimiterTypeOK
  <2>1. tokens \in 0..PerSec /\ since \in [Window -> Nat] /\ refill \in {"select", "send", "over"}
    BY <1>2, DiscoveryAssumption
  <2>. QED  BY Zenon, <1>1, <2>1 DEF LimiterTypeOK
<1>4. Grantable = 0
  BY <1>1, <1>2 DEF Grantable
<1>5. BurstInv
  BY <1>2, <1>4, DiscoveryAssumption DEF BurstInv, Window
<1>. QED  BY <1>3, <1>5 DEF LimiterInv

(* A token goes to a host: it leaves the bucket and enters every count.    *)
LEMMA GrantKeepsLimiterInv ==
  ASSUME LimiterInv, tokens > 0, tokens' = tokens - 1,
         since' = [k \in Window |-> since[k] + 1], UNCHANGED <<tick, refill>>
  PROVE  LimiterInv'
<1>1. LimiterTypeOK'
  <2>1. tokens' \in 0..PerSec /\ since' \in [Window -> Nat]
    BY GrantableBounded DEF LimiterInv, LimiterTypeOK
  <2>. QED  BY Zenon, <2>1 DEF LimiterInv, LimiterTypeOK, Window
<1>2. Grantable' = Grantable - 1
  BY GrantableBounded DEF Grantable, One
<1>3. ASSUME NEW k \in Window PROVE since'[k] + Grantable' <= PerSec + k + 2
  BY <1>2, GrantableBounded
<1>. QED  BY <1>1, <1>3 DEF LimiterInv, BurstInv, Window

(* A tick opens a new interval: the counts age, and one tick may be held.  *)
LEMMA TickKeepsLimiterInv == LimiterInv /\ Tick => LimiterInv'
<1>. SUFFICES ASSUME LimiterInv, Tick PROVE LimiterInv'
  OBVIOUS
<1>1. tick' = TRUE /\ tokens' = tokens /\ refill' = refill
      /\ since' = [k \in Window |-> IF k = 0 THEN 0 ELSE since[k - 1]]
  BY DEF Tick
<1>2. \A k \in Window : k # 0 => k - 1 \in Window
  BY DiscoveryAssumption DEF Window
<1>3. since' \in [Window -> Nat]
  BY <1>1, <1>2 DEF LimiterInv, LimiterTypeOK
<1>4. LimiterTypeOK'
  BY <1>1, <1>3 DEF LimiterInv, LimiterTypeOK
<1>5. /\ Grantable' \in Nat /\ Grantable' <= PerSec + 2
      /\ Grantable' <= Grantable + 1
  BY <1>1, GrantableBounded DEF Grantable, One
<1>6. ASSUME NEW k \in Window PROVE since'[k] + Grantable' <= PerSec + k + 2
  <2>1. CASE k = 0
    <3>1. since'[k] = 0
      BY <1>1, <2>1
    <3>. QED  BY <2>1, <3>1, <1>5, GrantableBounded
  <2>2. CASE k # 0
    <3>1. since'[k] = since[k - 1] /\ k - 1 \in Window
      BY <1>1, <1>2, <2>2
    <3>2. since[k - 1] + Grantable <= PerSec + (k - 1) + 2 /\ since[k - 1] \in Nat
      BY <3>1, GrantableBounded
    <3>. QED  BY <1>5, <3>1, <3>2, GrantableBounded
  <2>. QED  BY <2>1, <2>2
<1>. QED  BY <1>4, <1>6 DEF LimiterInv, BurstInv, Window

(* The goroutine receives the tick: it is in its hand, not in the channel. *)
LEMMA TakeKeepsLimiterInv == LimiterInv /\ TakeTick => LimiterInv'
<1>. SUFFICES ASSUME LimiterInv, TakeTick PROVE LimiterInv'
  OBVIOUS
<1>1. /\ tick /\ refill = "select" /\ refill' = "send"
      /\ since' = since /\ tokens' = tokens
  BY DEF TakeTick
<1>2. ~tick' /\ tick' \in BOOLEAN
  BY Zenon DEF TakeTick
<1>3. LimiterTypeOK'
  <2>1. refill' \in {"select", "send", "over"} /\ tokens' \in 0..PerSec /\ since' \in [Window' -> Nat]
    BY <1>1 DEF LimiterInv, LimiterTypeOK, Window
  <2>. QED  BY Zenon, <1>2, <2>1 DEF LimiterTypeOK
<1>4. Grantable' = Grantable
  BY <1>1, <1>2, GrantableBounded DEF Grantable, One
<1>. QED  BY <1>1, <1>3, <1>4 DEF LimiterInv, BurstInv, Window

(* And makes a token of it, or drops it.                                   *)
LEMMA PutKeepsLimiterInv == LimiterInv /\ PutToken => LimiterInv'
<1>. SUFFICES ASSUME LimiterInv, PutToken PROVE LimiterInv'
  OBVIOUS
<1>1. /\ refill = "send" /\ refill' = "select" /\ tick' = tick /\ since' = since
      /\ tokens' = IF tokens < PerSec THEN tokens + 1 ELSE tokens
  BY DEF PutToken
<1>2. tokens' \in 0..PerSec
  BY <1>1, GrantableBounded
<1>3. LimiterTypeOK'
  BY Zenon, <1>1, <1>2 DEF LimiterInv, LimiterTypeOK, Window
<1>4. Grantable' \in Nat /\ Grantable' <= Grantable
  BY <1>1, <1>2, GrantableBounded DEF Grantable, One
<1>5. ASSUME NEW k \in Window PROVE since'[k] + Grantable' <= PerSec + k + 2
  BY <1>1, <1>4, GrantableBounded
<1>. QED  BY <1>3, <1>5 DEF LimiterInv, BurstInv, Window

(* A goroutine that ends has nothing in its hand.                          *)
LEMMA EndKeepsLimiterInv == LimiterInv /\ EndRefill => LimiterInv'
<1>. SUFFICES ASSUME LimiterInv, EndRefill PROVE LimiterInv'
  OBVIOUS
<1>1. refill = "select" /\ refill' = "over" /\ UNCHANGED <<tick, tokens, since>>
  BY DEF EndRefill
<1>2. LimiterTypeOK'
  <2>1. refill' \in {"select", "send", "over"}
    BY <1>1
  <2>. QED  BY Zenon, <1>1, <2>1 DEF LimiterInv, LimiterTypeOK, Window
<1>3. Grantable' = Grantable
  BY <1>1 DEF Grantable
<1>. QED  BY <1>1, <1>2, <1>3 DEF LimiterInv, BurstInv, Window

(* Every other step leaves the limiter alone.                              *)
LEMMA NextLimiterInv == LimiterInv /\ [Next]_vars => LimiterInv'
<1>. SUFFICES ASSUME LimiterInv, [Next]_vars PROVE LimiterInv'
  OBVIOUS
<1>0. ASSUME UNCHANGED <<tokens, tick, refill, since>> PROVE LimiterInv'
  BY <1>0 DEF LimiterInv, LimiterTypeOK, BurstInv, Grantable, Window
<1>1. CASE Dispatch \/ Cancel \/ Ended \/ UNCHANGED vars
  BY <1>0, <1>1 DEF Dispatch, Cancel, Ended, PoolStep, vars, limiterVars
<1>2. CASE ReturnFromPool
  BY <1>0, <1>2 DEF ReturnFromPool
<1>3. ASSUME NEW a \in AllJobs, Host(a) PROVE LimiterInv'
  <2>1. CASE Wait(a)
    BY <1>0, <2>1, GrantKeepsLimiterInv DEF Wait
  <2>2. CASE Sleep(a) \/ Probe(a) \/ FinishProbe(a)
    BY <1>0, <2>2 DEF Sleep, Probe, FinishProbe, PoolStep, limiterVars
  <2>. QED  BY <1>3, <2>1, <2>2 DEF Host
<1>4. CASE Tick
  BY <1>4, TickKeepsLimiterInv
<1>5. CASE TakeTick \/ PutToken \/ EndRefill
  BY <1>5, TakeKeepsLimiterInv, PutKeepsLimiterInv, EndKeepsLimiterInv
<1>. QED  BY <1>1, <1>2, <1>3, <1>4, <1>5 DEF Next, Hosts

-----------------------------------------------------------------------------
SweepTypeOK ==
  /\ jobs \subseteq AllJobs
  /\ slot \in [AllJobs -> {"pending", "active", "finished", "skipped"}]
  /\ cancelled \in BOOLEAN /\ grace \in BOOLEAN /\ returned \in BOOLEAN /\ stopped \in BOOLEAN
  /\ step \in [AllJobs -> {"wait", "sleep", "probe", "done"}]
  /\ found \subseteq AllJobs

(* A sweep starts with the hosts its specs expand to.                      *)
LEMMA InitSweepTypeOK == Init => SweepTypeOK
<1>. SUFFICES ASSUME Init PROVE SweepTypeOK
  OBVIOUS
<1>1. jobs \subseteq AllJobs
  BY JobsAssumption DEF Init
<1>2. cancelled \in BOOLEAN /\ grace \in BOOLEAN /\ returned \in BOOLEAN
  BY Zenon DEF Init
<1>4. stopped \in BOOLEAN
  BY Zenon DEF Init
<1>5. /\ slot \in [AllJobs -> {"pending", "active", "finished", "skipped"}]
      /\ step \in [AllJobs -> {"wait", "sleep", "probe", "done"}]
      /\ found \subseteq AllJobs
  BY DEF Init
<1>. QED  BY Zenon, <1>1, <1>2, <1>4, <1>5 DEF SweepTypeOK

(* The pool's steps keep the pool's types.                                 *)
LEMMA PoolKeepsTypes ==
  ASSUME SweepTypeOK, UNCHANGED <<step, found>>, stopped' \in BOOLEAN,
         \/ \E a \in AllJobs : Admit(a) \/ Skip(a) \/ Finish(a)
         \/ CancelContext \/ Return
  PROVE  SweepTypeOK'
<1>1. jobs' = jobs /\ step' = step /\ found' = found
  BY DEF Admit, Skip, Finish, CancelContext, Return
<1>2. slot' \in [AllJobs -> {"pending", "active", "finished", "skipped"}]
  BY DEF SweepTypeOK, Admit, Skip, Finish, CancelContext, Return
<1>3. (grace /\ ~cancelled) \in BOOLEAN
  OBVIOUS
<1>4. cancelled' \in BOOLEAN /\ grace' \in BOOLEAN /\ returned' \in BOOLEAN
  BY Zenon, <1>3 DEF SweepTypeOK, Admit, Skip, Finish, CancelContext, Return
<1>. QED  BY Zenon, <1>1, <1>2, <1>4 DEF SweepTypeOK

(* So does every step of the sweep.                                        *)
LEMMA NextSweepTypeOK == SweepTypeOK /\ [Next]_vars => SweepTypeOK'
<1>. SUFFICES ASSUME SweepTypeOK, [Next]_vars PROVE SweepTypeOK'
  OBVIOUS
<1>0. ASSUME UNCHANGED <<poolVars, stopped, step, found>> PROVE SweepTypeOK'
  BY Zenon, <1>0 DEF SweepTypeOK, poolVars
<1>1. CASE Dispatch
  <2>1. UNCHANGED <<step, found, stopped>> /\ \E a \in AllJobs : Admit(a) \/ Skip(a)
    BY <1>1 DEF Dispatch, PoolStep, limiterVars
  <2>2. stopped' \in BOOLEAN
    BY Zenon, <2>1 DEF SweepTypeOK
  <2>. QED  BY <2>1, <2>2, PoolKeepsTypes
<1>2. CASE ReturnFromPool
  <2>1. UNCHANGED <<step, found>> /\ Return /\ stopped' = TRUE
    BY <1>2 DEF ReturnFromPool
  <2>. QED  BY <2>1, PoolKeepsTypes
<1>3. CASE Cancel
  <2>1. UNCHANGED <<step, found, stopped>> /\ CancelContext
    BY <1>3 DEF Cancel, PoolStep, limiterVars
  <2>2. stopped' \in BOOLEAN
    BY Zenon, <2>1 DEF SweepTypeOK
  <2>. QED  BY <2>1, <2>2, PoolKeepsTypes
<1>4. ASSUME NEW a \in AllJobs, Host(a) PROVE SweepTypeOK'
  <2>1. CASE FinishProbe(a)
    <3>1. UNCHANGED <<step, found, stopped>> /\ Finish(a)
      BY <2>1 DEF FinishProbe, PoolStep, limiterVars
    <3>2. stopped' \in BOOLEAN
      BY Zenon, <3>1 DEF SweepTypeOK
    <3>. QED  BY <3>1, <3>2, PoolKeepsTypes
  <2>2. CASE Wait(a) \/ Sleep(a) \/ Probe(a)
    <3>1. UNCHANGED <<poolVars, stopped>>
      BY <2>2 DEF Wait, Sleep, Probe, limiterVars
    <3>2. step' \in [AllJobs -> {"wait", "sleep", "probe", "done"}] /\ found' \subseteq AllJobs
      BY <2>2 DEF SweepTypeOK, Wait, Sleep, Probe
    <3>. QED  BY Zenon, <3>1, <3>2 DEF SweepTypeOK, poolVars
  <2>. QED  BY <1>4, <2>1, <2>2 DEF Host
<1>5. CASE Tick \/ TakeTick \/ PutToken \/ EndRefill \/ Ended \/ UNCHANGED vars
  BY <1>0, <1>5 DEF Tick, TakeTick, PutToken, EndRefill, Ended, vars, limiterVars
<1>. QED  BY <1>1, <1>2, <1>3, <1>4, <1>5 DEF Next, Hosts

(* Nothing is found before the first probe.                                *)
LEMMA InitSweepInv == Init => SweepInv
BY DEF Init, SweepInv

(* The pool's steps change no host's probe: a slot is only taken by a job, *)
(* finished after its probe, skipped after a cancellation.                 *)
LEMMA PoolKeepsSweepInv ==
  ASSUME SweepTypeOK, SweepInv, UNCHANGED <<step, found>>,
         \/ \E a \in AllJobs : Admit(a) \/ Skip(a) \/ (Finish(a) /\ step[a] = "done")
         \/ CancelContext \/ Return
  PROVE  SweepInv'
<1>1. ASSUME NEW a \in AllJobs, Admit(a) \/ Skip(a) \/ (Finish(a) /\ step[a] = "done")
      PROVE  SweepInv'
  BY <1>1 DEF SweepTypeOK, SweepInv, Admit, Skip, Finish, Settled
<1>2. CASE CancelContext \/ Return
  BY <1>2 DEF SweepTypeOK, SweepInv, CancelContext, Return, Settled
<1>. QED  BY <1>1, <1>2

(* A probe that is not cut off adds its host when that answers.            *)
LEMMA NextSweepInv == SweepTypeOK /\ SweepInv /\ [Next]_vars => SweepInv'
<1>. SUFFICES ASSUME SweepTypeOK, SweepInv, [Next]_vars PROVE SweepInv'
  OBVIOUS
<1>1. CASE Dispatch \/ ReturnFromPool \/ Cancel
  BY <1>1, PoolKeepsSweepInv DEF Dispatch, ReturnFromPool, Cancel, PoolStep
<1>2. ASSUME NEW a \in AllJobs, Host(a) PROVE SweepInv'
  <2>1. CASE FinishProbe(a)
    BY <2>1, PoolKeepsSweepInv DEF FinishProbe, PoolStep
  <2>2. CASE Wait(a) \/ Sleep(a)
    BY <2>2 DEF SweepTypeOK, SweepInv, Wait, Sleep, At, Settled, poolVars
  <2>3. CASE Probe(a)
    BY <2>3 DEF SweepTypeOK, SweepInv, Probe, At, Settled, poolVars
  <2>. QED  BY <1>2, <2>1, <2>2, <2>3 DEF Host
<1>3. CASE Tick \/ TakeTick \/ PutToken \/ EndRefill \/ Ended \/ UNCHANGED vars
  BY <1>3 DEF SweepInv, Tick, TakeTick, PutToken, EndRefill, Ended, vars, poolVars, Settled
<1>. QED  BY <1>1, <1>2, <1>3 DEF Next, Hosts

(* Hosts, workers and limiter keep their types, what can still be granted  *)
(* never exceeds what the bound leaves, and what is found agrees with the  *)
(* probes that are over (discovery.go:139-216).                            *)
THEOREM LimiterInvariant == Spec => []IInv
<1>1. LimiterInv /\ SweepTypeOK /\ SweepInv => IInv
  BY Zenon DEF LimiterInv, LimiterTypeOK, SweepTypeOK, IInv, TypeOK
<1>. QED  BY <1>1, InitLimiterInv, NextLimiterInv, InitSweepTypeOK, NextSweepTypeOK,
             InitSweepInv, NextSweepInv, PTL DEF Spec

(* A sweep that has returned found exactly the hosts that answer, unless   *)
(* it was cancelled; the rate limit and its races lose none.               *)
THEOREM SweepFindsAll == Spec => []SweepComplete
<1>1. SweepTypeOK /\ SweepInv => SweepComplete
  BY DEF SweepTypeOK, SweepInv, SweepComplete, Settled
<1>. QED  BY <1>1, InitSweepTypeOK, NextSweepTypeOK, InitSweepInv, NextSweepInv, PTL DEF Spec

(* Since the tick before the last k at most PerSec + k + 2 hosts got a     *)
(* token, so at most 2 * PerSec + 1 in any PerSec intervals of the ticker, *)
(* for every RatePerSec and however late the goroutine is.                 *)
THEOREM BurstsBounded == Spec => []BurstBounded
<1>1. LimiterInv => BurstBounded
  <2>. SUFFICES ASSUME LimiterInv, NEW k \in Window PROVE since[k] <= PerSec + k + 2
    BY DEF BurstBounded
  <2>. QED  BY GrantableBounded
<1>. QED  BY <1>1, InitLimiterInv, NextLimiterInv, PTL DEF Spec

-----------------------------------------------------------------------------
\* Induction over the numbers in a set.
LEMMA SetInduction ==
  ASSUME NEW G, 0 \in G, \A n \in Nat : n \in G => n + 1 \in G
  PROVE  Nat \subseteq G
<1> DEFINE T == Nat \ G
<1> SUFFICES ASSUME T # {} PROVE FALSE
  OBVIOUS
<1>1. PICK x \in T : \A y \in T : ~(<<y, x>> \in OpToRel(<, Nat))
  BY NatLessThanWellFounded, WFMin
<1>2. x # 0 /\ x \in Nat
  OBVIOUS
<1>3. x - 1 \in Nat /\ x - 1 < x
  BY <1>2
<1>4. <<x - 1, x>> \in OpToRel(<, Nat)
  BY <1>2, <1>3 DEF OpToRel
<1>5. x - 1 \in G
  BY <1>1, <1>3, <1>4
<1>6. (x - 1) + 1 \in G
  BY <1>3, <1>5
<1> QED
  BY <1>2, <1>6

\* The addresses from m to last, in order.
Run(fam, m, last) == [i \in 1..(last - m + 1) |-> [fam |-> fam, n |-> m + i - 1]]

LEMMA RunIsSeq ==
  ASSUME NEW fam \in Families, NEW m \in 0..Top, NEW last \in m..Top
  PROVE  /\ Run(fam, m, last) \in Seq(Address)
         /\ ToSet(Run(fam, m, last)) = {x \in Address : x.fam = fam /\ m <= x.n /\ x.n <= last}
<1> DEFINE r == Run(fam, m, last)
<1>0. Top \in Nat
  BY DiscoveryAssumption
<1>1. ASSUME NEW i \in 1..(last - m + 1)
      PROVE  r[i] = [fam |-> fam, n |-> m + i - 1] /\ r[i] \in Address
  <2>1. m + i - 1 \in 0..Top
    BY <1>0
  <2> QED
    BY <2>1 DEF Run, Address
<1>2. DOMAIN r = 1..(last - m + 1) /\ last - m + 1 \in Nat
  BY <1>0 DEF Run
<1>3. r = [i \in 1..(last - m + 1) |-> r[i]]
  BY DEF Run
<1> HIDE DEF r
<1>4. r \in Seq(Address)
  BY <1>1, <1>2, <1>3
<1>5. ASSUME NEW x \in Address, x.fam = fam, m <= x.n, x.n <= last
      PROVE  \E i \in DOMAIN r : r[i] = x
  <2>1. x.n \in 0..Top /\ x = [fam |-> fam, n |-> x.n]
    BY <1>5 DEF Address
  <2>2. x.n - m + 1 \in DOMAIN r /\ m + (x.n - m + 1) - 1 = x.n
    BY <1>0, <1>2, <1>5, <2>1
  <2> QED
    BY <1>1, <1>2, <2>1, <2>2
<1>6. \A i \in DOMAIN r : r[i] \in Address /\ r[i].fam = fam /\ m <= r[i].n /\ r[i].n <= last
  BY <1>0, <1>1, <1>2
<1>7. ToSet(r) = {x \in Address : x.fam = fam /\ m <= x.n /\ x.n <= last}
  BY <1>5, <1>6 DEF ToSet
<1> QED
  BY <1>4, <1>7 DEF r

\* One step of a walk.
LEMMA RunStep ==
  ASSUME NEW fam \in Families, NEW m \in 0..Top, NEW last \in m..Top
  PROVE  LET x == [fam |-> fam, n |-> m] IN
         /\ m = last => Run(fam, m, last) = <<x>>
         /\ m < last => Run(fam, m, last) = <<x>> \o Run(fam, m + 1, last)
         /\ m < last => After(x) = [fam |-> fam, n |-> m + 1] /\ m + 1 \in 0..Top /\ After(x) \in Address
<1> DEFINE x == [fam |-> fam, n |-> m]
<1>0. Top \in Nat
  BY DiscoveryAssumption
<1>1. ASSUME m = last PROVE Run(fam, m, last) = <<x>>
  <2>1. last - m + 1 = 1 /\ m + 1 - 1 = m
    BY <1>0, <1>1
  <2>2. Run(fam, m, last) = [i \in 1..1 |-> [fam |-> fam, n |-> m + i - 1]]
    BY <2>1 DEF Run
  <2> QED
    BY <2>1, <2>2
<1>2. ASSUME m < last
      PROVE  /\ Run(fam, m, last) = <<x>> \o Run(fam, m + 1, last)
             /\ After(x) = [fam |-> fam, n |-> m + 1] /\ m + 1 \in 0..Top /\ After(x) \in Address
  <2>1. m + 1 \in 0..Top /\ last \in (m + 1)..Top /\ m # Top
    BY <1>0, <1>2
  <2>2. After(x) = [fam |-> fam, n |-> m + 1]
    BY <2>1 DEF After
  <2>3. After(x) \in Address
    BY <2>1, <2>2 DEF Address
  <2> DEFINE r == Run(fam, m, last)
             t == Run(fam, m + 1, last)
  <2>4. r \in Seq(Address) /\ t \in Seq(Address) /\ x \in Address
    BY <2>1, RunIsSeq DEF Address
  <2>5. Len(r) = last - m + 1 /\ Len(t) = last - m
    <3>1. DOMAIN r = 1..(last - m + 1) /\ DOMAIN t = 1..(last - (m + 1) + 1)
      BY DEF Run
    <3> HIDE DEF r, t
    <3> QED
      BY <1>0, <2>1, <2>4, <3>1
  <2>6. \A i \in 1..(last - m + 1) : r[i] = [fam |-> fam, n |-> m + i - 1]
    BY DEF Run
  <2>7. \A i \in 1..(last - m) : t[i] = [fam |-> fam, n |-> m + i]
    <3>1. last - (m + 1) + 1 = last - m /\ \A i \in 1..(last - m) : (m + 1) + i - 1 = m + i
      BY <1>0
    <3> QED
      BY <3>1 DEF Run
  <2> HIDE DEF r, t, x
  <2>8. <<x>> \o t \in Seq(Address) /\ Len(<<x>> \o t) = last - m + 1
    BY <1>0, <2>4, <2>5
  <2>9. \A i \in 1..(last - m + 1) : (<<x>> \o t)[i] = IF i = 1 THEN x ELSE t[i - 1]
    BY <1>0, <2>4, <2>5
  <2>10. ASSUME NEW i \in 1..(last - m + 1)
         PROVE  r[i] = (<<x>> \o t)[i]
    <3>1. CASE i = 1
      <4>1. m + i - 1 = m
        BY <3>1
      <4> QED
        BY <2>6, <2>9, <3>1, <4>1 DEF x
    <3>2. CASE i # 1
      <4>1. i - 1 \in 1..(last - m) /\ m + (i - 1) = m + i - 1
        BY <1>0, <3>2
      <4> QED
        BY <2>6, <2>7, <2>9, <3>2, <4>1
    <3> QED
      BY <3>1, <3>2
  <2>11. r = <<x>> \o t
    BY <2>4, <2>5, <2>8, <2>10
  <2> QED
    BY <2>1, <2>2, <2>3, <2>11 DEF r, t, x
<1> QED
  BY <1>1, <1>2

\* The loop over a range lists the addresses of the range.
LEMMA RangeWalk ==
  ASSUME NEW spec \in Specs, spec.kind = "range", spec.b <= Top, RangeOK(spec)
  PROVE  RangeAddrs(spec) = Run(spec.fam, spec.a, spec.b)
<1> DEFINE hi == spec.b
           D == {y \in Address : y.n <= hi}
           Walks(f) == f = [x \in D |-> IF x.n = hi THEN <<x>> ELSE <<x>> \o f[After(x)]]
           w == [x \in D |-> Run(x.fam, x.n, hi)]
           g == CHOOSE f : Walks(f)
<1>1. Top \in Nat /\ hi \in 0..Top /\ spec.a \in 0..hi /\ spec.fam \in Families
  BY DiscoveryAssumption DEF Specs, RangeOK
<1> HIDE DEF hi
<1>2. \A x \in D : /\ x.fam \in Families /\ x.n \in 0..Top /\ hi \in x.n..Top
                   /\ x = [fam |-> x.fam, n |-> x.n]
  BY <1>1 DEF Address
<1>3. ASSUME NEW x \in D
      PROVE  /\ x.n = hi => Run(x.fam, x.n, hi) = <<x>>
             /\ x.n # hi => /\ After(x) \in D /\ After(x).fam = x.fam /\ After(x).n = x.n + 1
                            /\ Run(x.fam, x.n, hi) = <<x>> \o Run(x.fam, x.n + 1, hi)
  <2>1. x.fam \in Families /\ x.n \in 0..Top /\ hi \in x.n..Top /\ x = [fam |-> x.fam, n |-> x.n]
    BY <1>2
  <2>2. x.n = hi => Run(x.fam, x.n, hi) = <<x>>
    <3>1. x.n = hi => Run(x.fam, x.n, hi) = <<[fam |-> x.fam, n |-> x.n]>>
      BY <2>1, RunStep
    <3> QED
      BY <2>1, <3>1
  <2>3. ASSUME x.n # hi
        PROVE  /\ Run(x.fam, x.n, hi) = <<x>> \o Run(x.fam, x.n + 1, hi)
               /\ After(x) = [fam |-> x.fam, n |-> x.n + 1] /\ After(x) \in Address
    <3>1. x.n < hi
      BY <1>1, <2>1, <2>3
    <3> QED
      BY <2>1, <3>1, RunStep
  <2>4. x.n # hi => x.n + 1 <= hi
    BY <1>1, <2>1
  <2> QED
    BY <2>2, <2>3, <2>4
<1>4. Walks(w)
  <2>1. ASSUME NEW x \in D
        PROVE  w[x] = IF x.n = hi THEN <<x>> ELSE <<x>> \o w[After(x)]
    <3>1. w[x] = Run(x.fam, x.n, hi)
      OBVIOUS
    <3>2. x.n # hi => w[After(x)] = Run(x.fam, x.n + 1, hi)
      BY <1>3
    <3> HIDE DEF w, D
    <3> QED
      BY <1>3, <3>1, <3>2
  <2>2. w = [x \in D |-> w[x]]
    OBVIOUS
  <2> HIDE DEF w, D
  <2> QED
    BY <2>1, <2>2
<1>5. Walks(g)
  <2> HIDE DEF w, Walks
  <2> QED
    BY <1>4
<1> HIDE DEF g
<1>6. \A x \in D : g[x] = Run(x.fam, x.n, hi)
  <2> DEFINE G == {k \in Nat : \A x \in D : hi - x.n = k => g[x] = Run(x.fam, x.n, hi)}
  <2>0. \A x \in D : g[x] = IF x.n = hi THEN <<x>> ELSE <<x>> \o g[After(x)]
    BY <1>5
  <2> HIDE DEF D, Walks
  <2>1. \A x \in D : hi - x.n \in Nat /\ (hi - x.n = 0 <=> x.n = hi)
    BY <1>1, <1>2
  <2>2. 0 \in G
    BY <1>3, <2>0, <2>1
  <2>3. ASSUME NEW k \in Nat, k \in G
        PROVE  k + 1 \in G
    <3>1. ASSUME NEW x \in D, hi - x.n = k + 1
          PROVE  g[x] = Run(x.fam, x.n, hi)
      <4>1. x.n # hi
        BY <2>1, <3>1
      <4>2. After(x) \in D /\ hi - After(x).n = k
        <5>1. After(x) \in D /\ After(x).n = x.n + 1
          BY <1>3, <4>1
        <5>2. x.n \in 0..Top
          BY <1>2
        <5> QED
          BY <1>1, <3>1, <5>1, <5>2
      <4>3. g[After(x)] = Run(x.fam, x.n + 1, hi)
        BY <1>3, <2>3, <4>1, <4>2
      <4> QED
        BY <1>3, <2>0, <4>1, <4>3
    <3> QED
      BY <3>1
  <2> HIDE DEF G
  <2>4. Nat \subseteq G
    BY <2>2, <2>3, SetInduction
  <2> QED
    BY <2>1, <2>4 DEF G
<1>7. RangeAddrs(spec) = g[[fam |-> spec.fam, n |-> spec.a]]
  BY DEF RangeAddrs, g, hi
<1>8. [fam |-> spec.fam, n |-> spec.a] \in D
  BY <1>1 DEF Address
<1> HIDE DEF D
<1> QED
  BY <1>6, <1>7, <1>8 DEF hi

\* A prefix holds one block of addresses, which starts at the masked address.
LEMMA PrefixIsBlock ==
  ASSUME NEW spec \in Specs, spec.b > 0, (Top + 1) % spec.b = 0
  PROVE  LET first == (spec.a \div spec.b) * spec.b
             last  == first + spec.b - 1
         IN  /\ first \in 0..Top /\ last \in first..Top
             /\ \A x \in Address : Contained(spec, x) <=> x.fam = spec.fam /\ first <= x.n /\ x.n <= last
<1> DEFINE s == spec.b
           q == spec.a \div s
           k == (Top + 1) \div s
           first == q * s
           last == first + s - 1
<1>0. Top \in Nat /\ s \in Nat \ {0} /\ spec.a \in 0..Top
  BY DiscoveryAssumption DEF Specs
<1> HIDE DEF s
<1>1. ASSUME NEW n \in Int
      PROVE  n \div s \in Int /\ s * (n \div s) <= n /\ n < s * (n \div s) + s
  BY <1>0
<1>2. Top + 1 = s * k /\ k \in Int
  BY <1>0 DEF s
<1>3. \A i, j \in Int : /\ s * i \in Int
                        /\ i < j => s * i + s <= s * j
                        /\ s * i < s * j => i < j
  BY <1>0
<1>4. q \in Int /\ s * q <= spec.a /\ spec.a < s * q + s
  BY <1>0, <1>1
<1> HIDE DEF q, k
<1>5. s * 0 = 0
  BY <1>0
<1>6. s * q < s * k /\ 0 < s * (q + 1)
  <2>1. s * (q + 1) = s * q + s
    BY <1>0, <1>4
  <2> QED
    BY <1>0, <1>2, <1>3, <1>4, <2>1
<1>7. q < k /\ 0 < q + 1
  BY <1>2, <1>3, <1>4, <1>5, <1>6
<1>8. 0 <= s * q
  <2>1. CASE q = 0
    BY <1>5, <2>1
  <2>2. CASE 0 < q
    BY <1>0, <1>3, <1>4, <1>5, <2>2
  <2> QED
    BY <1>4, <1>7, <2>1, <2>2
<1>9. s * q + s <= Top + 1
  BY <1>2, <1>3, <1>4, <1>7
<1>10. first = s * q
  BY <1>0, <1>4
<1>11. ASSUME NEW n \in 0..Top
       PROVE  n \div s = q <=> s * q <= n /\ n <= s * q + s - 1
  <2> DEFINE p == n \div s
  <2>1. p \in Int /\ s * p <= n /\ n < s * p + s
    BY <1>0, <1>1
  <2> HIDE DEF p
  <2>2. p < q => s * p + s <= s * q
    BY <1>3, <1>4, <2>1
  <2>3. q < p => s * q + s <= s * p
    BY <1>3, <1>4, <2>1
  <2>4. p = q <=> s * q <= n /\ n <= s * q + s - 1
    BY <1>0, <1>3, <1>4, <2>1, <2>2, <2>3
  <2> QED
    BY <2>4 DEF p
<1> HIDE DEF first
<1>12. first \in 0..Top /\ last \in first..Top
  BY <1>0, <1>3, <1>4, <1>8, <1>9, <1>10
<1>13. ASSUME NEW x \in Address
       PROVE  Contained(spec, x) <=> x.fam = spec.fam /\ first <= x.n /\ x.n <= last
  <2>1. x.n \in 0..Top
    BY DEF Address
  <2>2. x.n \div s = q <=> first <= x.n /\ x.n <= last
    BY <1>10, <1>11, <2>1
  <2> QED
    BY <2>2 DEF Contained, s, q
<1> QED
  BY <1>12, <1>13 DEF first, q, s

\* The loop over a prefix lists the addresses of its block.
LEMMA CidrWalk ==
  ASSUME NEW spec \in Specs, spec.b > 0, (Top + 1) % spec.b = 0
  PROVE  LET first == (spec.a \div spec.b) * spec.b
         IN  CidrAddrs(spec) = Run(spec.fam, first, first + spec.b - 1)
<1> DEFINE first == (spec.a \div spec.b) * spec.b
           last == first + spec.b - 1
           D == Address \cup {Invalid}
           In(x) == Contained(spec, x)
           Walks(f) == f = [x \in D |-> IF In(x) THEN <<x>> \o f[After(x)] ELSE <<>>]
           w == [x \in D |-> IF In(x) THEN Run(x.fam, x.n, last) ELSE <<>>]
           g == CHOOSE f : Walks(f)
<1>1. Top \in Nat /\ spec.fam \in Families
  BY DiscoveryAssumption DEF Specs
<1>2. /\ first \in 0..Top /\ last \in first..Top
      /\ \A x \in Address : Contained(spec, x) <=> x.fam = spec.fam /\ first <= x.n /\ x.n <= last
  BY PrefixIsBlock
<1>3. /\ first \in 0..Top /\ last \in 0..Top
      /\ \A x \in Address : In(x) <=> x.fam = spec.fam /\ first <= x.n /\ x.n <= last
  <2>1. \A x \in Address : In(x) <=> x.fam = spec.fam /\ first <= x.n /\ x.n <= last
    BY <1>2
  <2> HIDE DEF first, last, In
  <2>2. first \in 0..Top /\ last \in first..Top
    BY <1>2 DEF first, last
  <2> QED
    BY <1>1, <2>1, <2>2
<1>4. ~In(Invalid) /\ Invalid \notin Address
  BY <1>1 DEF Contained, Invalid, Families, Address
<1> HIDE DEF first, last, In
<1>5. \A x \in D : In(x) => /\ x \in Address /\ x.fam = spec.fam /\ x.n \in 0..Top /\ last \in x.n..Top
                            /\ first <= x.n /\ x = [fam |-> spec.fam, n |-> x.n]
  BY <1>1, <1>3, <1>4 DEF Address
<1>6. ASSUME NEW x \in D, In(x)
      PROVE  /\ After(x) \in D
             /\ x.n = last => ~In(After(x)) /\ Run(x.fam, x.n, last) = <<x>>
             /\ x.n # last => /\ In(After(x)) /\ After(x).fam = x.fam /\ After(x).n = x.n + 1
                              /\ Run(x.fam, x.n, last) = <<x>> \o Run(x.fam, x.n + 1, last)
  <2>1. /\ x \in Address /\ x.fam = spec.fam /\ x.n \in 0..Top /\ last \in x.n..Top
        /\ first <= x.n /\ x = [fam |-> spec.fam, n |-> x.n]
    BY <1>5, <1>6
  <2>2. CASE x.n = last
    <3>1. Run(x.fam, x.n, last) = <<[fam |-> x.fam, n |-> x.n]>>
      BY <1>1, <2>1, <2>2, RunStep
    <3>2. CASE x.n = Top
      <4>1. After(x) = Invalid
        BY <3>2 DEF After
      <4> QED
        BY <1>4, <2>1, <2>2, <3>1, <4>1
    <3>3. CASE x.n # Top
      <4>1. After(x) = [fam |-> spec.fam, n |-> x.n + 1]
        BY <2>1, <3>3 DEF After
      <4>2. After(x) \in Address /\ After(x).n = x.n + 1
        BY <1>1, <2>1, <3>3, <4>1 DEF Address
      <4>3. ~In(After(x))
        BY <1>1, <1>3, <2>1, <2>2, <4>2
      <4> QED
        BY <2>1, <2>2, <3>1, <4>2, <4>3
    <3> QED
      BY <3>2, <3>3
  <2>3. CASE x.n # last
    <3>1. x.n < last
      BY <1>1, <1>3, <2>1, <2>3
    <3>2. /\ Run(x.fam, x.n, last) = <<[fam |-> x.fam, n |-> x.n]>> \o Run(x.fam, x.n + 1, last)
          /\ After([fam |-> x.fam, n |-> x.n]) = [fam |-> x.fam, n |-> x.n + 1]
          /\ After([fam |-> x.fam, n |-> x.n]) \in Address
      BY <1>1, <2>1, <3>1, RunStep
    <3>3. /\ Run(x.fam, x.n, last) = <<x>> \o Run(x.fam, x.n + 1, last)
          /\ After(x) = [fam |-> x.fam, n |-> x.n + 1] /\ After(x) \in Address
      BY <2>1, <3>2
    <3>4. After(x).fam = x.fam /\ After(x).n = x.n + 1
      BY <3>3
    <3>5. In(After(x))
      BY <1>1, <1>3, <2>1, <3>1, <3>3, <3>4
    <3> QED
      BY <2>3, <3>3, <3>4, <3>5
  <2> QED
    BY <2>2, <2>3
<1>7. \A x \in D : In(x) => <<x>> \in Seq(Address)
  BY <1>5
<1>8. Walks(w)
  <2>1. ASSUME NEW x \in D
        PROVE  w[x] = IF In(x) THEN <<x>> \o w[After(x)] ELSE <<>>
    <3>1. CASE ~In(x)
      BY <3>1
    <3>2. CASE In(x) /\ x.n = last
      <4>1. w[x] = <<x>> /\ w[After(x)] = <<>>
        BY <1>6, <3>2
      <4>2. <<x>> \o <<>> = <<x>>
        BY <1>7, <3>2
      <4> HIDE DEF w, D
      <4> QED
        BY <3>2, <4>1, <4>2
    <3>3. CASE In(x) /\ x.n # last
      <4>1. w[x] = Run(x.fam, x.n, last) /\ w[After(x)] = Run(x.fam, x.n + 1, last)
        BY <1>6, <3>3
      <4> HIDE DEF w, D
      <4> QED
        BY <1>6, <3>3, <4>1
    <3> QED
      BY <3>1, <3>2, <3>3
  <2>2. w = [x \in D |-> w[x]]
    OBVIOUS
  <2> HIDE DEF w, D
  <2> QED
    BY <2>1, <2>2
<1>9. Walks(g)
  <2> HIDE DEF w, Walks
  <2> QED
    BY <1>8
<1> HIDE DEF g
<1>10. \A x \in D : In(x) => g[x] = Run(x.fam, x.n, last)
  <2> DEFINE G == {k \in Nat : \A x \in D : In(x) /\ last - x.n = k => g[x] = Run(x.fam, x.n, last)}
  <2>0. \A x \in D : g[x] = IF In(x) THEN <<x>> \o g[After(x)] ELSE <<>>
    BY <1>9
  <2> HIDE DEF D, Walks
  <2>1. \A x \in D : In(x) => last - x.n \in Nat /\ (last - x.n = 0 <=> x.n = last)
    BY <1>1, <1>3, <1>5
  <2>2. 0 \in G
    <3>1. ASSUME NEW x \in D, In(x), last - x.n = 0
          PROVE  g[x] = Run(x.fam, x.n, last)
      <4>1. x.n = last
        BY <2>1, <3>1
      <4>2. After(x) \in D /\ ~In(After(x)) /\ Run(x.fam, x.n, last) = <<x>>
        BY <1>6, <3>1, <4>1
      <4>3. g[x] = <<x>> \o <<>>
        BY <2>0, <3>1, <4>2
      <4>4. <<x>> \o <<>> = <<x>>
        BY <1>7, <3>1
      <4> QED
        BY <4>2, <4>3, <4>4
    <3> QED
      BY <3>1
  <2>3. ASSUME NEW k \in Nat, k \in G
        PROVE  k + 1 \in G
    <3>1. ASSUME NEW x \in D, In(x), last - x.n = k + 1
          PROVE  g[x] = Run(x.fam, x.n, last)
      <4>1. x.n # last
        BY <2>1, <3>1
      <4>2. After(x) \in D /\ In(After(x)) /\ last - After(x).n = k
        <5>1. After(x) \in D /\ In(After(x)) /\ After(x).n = x.n + 1
          BY <1>6, <3>1, <4>1
        <5>2. x.n \in 0..Top
          BY <1>5, <3>1
        <5> QED
          BY <1>1, <1>3, <3>1, <5>1, <5>2
      <4>3. g[After(x)] = Run(x.fam, x.n + 1, last)
        BY <1>6, <2>3, <3>1, <4>1, <4>2
      <4> QED
        BY <1>6, <2>0, <3>1, <4>1, <4>3
    <3> QED
      BY <3>1
  <2> HIDE DEF G
  <2>4. Nat \subseteq G
    BY <2>2, <2>3, SetInduction
  <2> QED
    BY <2>1, <2>4 DEF G
<1> DEFINE x0 == [fam |-> spec.fam, n |-> first]
<1>11. CidrAddrs(spec) = g[x0]
  BY DEF CidrAddrs, g, first, In
<1>12. x0 \in D /\ In(x0)
  <2>1. x0 \in Address
    BY <1>1, <1>3 DEF Address
  <2>2. first <= last
    <3>1. first \in 0..Top /\ last \in first..Top
      BY <1>2 DEF first, last
    <3> QED
      BY <1>1, <3>1
  <2> QED
    BY <1>1, <1>3, <2>1, <2>2
<1> HIDE DEF D
<1>13. g[x0] = Run(spec.fam, first, last)
  BY <1>10, <1>12
<1> QED
  BY <1>11, <1>13 DEF first, last

\* What a spec that parses comes to: its addresses.
LEMMA SpecListsDenoted ==
  ASSUME NEW spec \in Specs, spec.kind # "bad",
         spec.kind = "cidr" => spec.b > 0 /\ (Top + 1) % spec.b = 0,
         spec.kind = "range" => spec.b <= Top /\ RangeOK(spec)
  PROVE  AddrsOf(spec) \in Seq(Address) /\ ToSet(AddrsOf(spec)) = Denoted(spec)
<1>0. Top \in Nat /\ spec.fam \in Families /\ spec.a \in 0..Top
  BY DiscoveryAssumption DEF Specs
<1>1. CASE spec.kind = "cidr"
  <2> DEFINE first == (spec.a \div spec.b) * spec.b
             last == first + spec.b - 1
  <2>1. AddrsOf(spec) = Run(spec.fam, first, last)
    BY <1>1, CidrWalk DEF AddrsOf
  <2>2. /\ first \in 0..Top /\ last \in first..Top
        /\ \A x \in Address : Contained(spec, x) <=> x.fam = spec.fam /\ first <= x.n /\ x.n <= last
    BY <1>1, PrefixIsBlock
  <2> HIDE DEF first, last
  <2>3. /\ Run(spec.fam, first, last) \in Seq(Address)
        /\ ToSet(Run(spec.fam, first, last)) = {x \in Address : x.fam = spec.fam /\ first <= x.n /\ x.n <= last}
    BY <1>0, <2>2, RunIsSeq
  <2>4. Denoted(spec) = {x \in Address : Contained(spec, x)}
    BY <1>1 DEF Denoted, Contained
  <2> QED
    BY <2>1, <2>2, <2>3, <2>4
<1>2. CASE spec.kind = "range"
  <2>1. AddrsOf(spec) = Run(spec.fam, spec.a, spec.b)
    BY <1>2, RangeWalk DEF AddrsOf
  <2>2. spec.b \in spec.a..Top
    BY <1>0, <1>2 DEF RangeOK, Specs
  <2>3. /\ Run(spec.fam, spec.a, spec.b) \in Seq(Address)
        /\ ToSet(Run(spec.fam, spec.a, spec.b)) =
              {x \in Address : x.fam = spec.fam /\ spec.a <= x.n /\ x.n <= spec.b}
    BY <1>0, <2>2, RunIsSeq
  <2>4. Denoted(spec) = {x \in Address : x.fam = spec.fam /\ spec.a <= x.n /\ x.n <= spec.b}
    BY <1>2 DEF Denoted
  <2> QED
    BY <2>1, <2>3, <2>4
<1>3. CASE spec.kind = "single"
  <2> DEFINE x == [fam |-> spec.fam, n |-> spec.a]
  <2>1. AddrsOf(spec) = <<x>>
    BY <1>3 DEF AddrsOf
  <2>2. x \in Address
    BY <1>0 DEF Address
  <2>3. Denoted(spec) = {x}
    <3>1. Denoted(spec) = {y \in Address : y.fam = spec.fam /\ y.n = spec.a}
      BY <1>3 DEF Denoted
    <3>2. \A y \in Address : y = [fam |-> y.fam, n |-> y.n]
      BY DEF Address
    <3> QED
      BY <2>2, <3>1, <3>2
  <2> HIDE DEF x
  <2> QED
    BY <2>1, <2>2, <2>3 DEF ToSet
<1>4. CASE spec.kind = "blank"
  <2>1. AddrsOf(spec) = <<>> /\ Denoted(spec) = {}
    BY <1>4 DEF AddrsOf, Denoted
  <2> QED
    BY <2>1 DEF ToSet
<1>5. spec.kind \in {"cidr", "range", "single", "blank", "bad"}
  BY DEF Specs
<1> QED
  BY <1>1, <1>2, <1>3, <1>4, <1>5

LEMMA JoinedSets ==
  ASSUME NEW S, NEW a \in Seq(S), NEW b \in Seq(S)
  PROVE  a \o b \in Seq(S) /\ ToSet(a \o b) = ToSet(a) \cup ToSet(b)
<1>1. /\ a \o b \in Seq(S) /\ Len(a \o b) = Len(a) + Len(b)
      /\ \A i \in 1..Len(a) : (a \o b)[i] = a[i]
      /\ \A i \in 1..Len(b) : (a \o b)[Len(a) + i] = b[i]
      /\ Len(a) \in Nat /\ Len(b) \in Nat
      /\ DOMAIN a = 1..Len(a) /\ DOMAIN b = 1..Len(b) /\ DOMAIN (a \o b) = 1..(Len(a) + Len(b))
  OBVIOUS
<1> DEFINE c == a \o b
<1> HIDE DEF c
<1>2. ASSUME NEW i \in DOMAIN c
      PROVE  c[i] \in ToSet(a) \cup ToSet(b)
  <2>1. CASE i <= Len(a)
    BY <1>1, <2>1 DEF ToSet, c
  <2>2. CASE i > Len(a)
    <3>1. i - Len(a) \in 1..Len(b) /\ Len(a) + (i - Len(a)) = i
      BY <1>1, <2>2 DEF c
    <3>2. c[i] = b[i - Len(a)]
      BY <1>1, <3>1 DEF c
    <3> QED
      BY <1>1, <3>1, <3>2 DEF ToSet
  <2> QED
    BY <1>1, <2>1, <2>2 DEF c
<1>3. ASSUME NEW i \in DOMAIN a
      PROVE  a[i] \in ToSet(c)
  <2>1. i \in DOMAIN c /\ c[i] = a[i]
    BY <1>1 DEF c
  <2> QED
    BY <2>1 DEF ToSet
<1>4. ASSUME NEW i \in DOMAIN b
      PROVE  b[i] \in ToSet(c)
  <2>1. Len(a) + i \in DOMAIN c /\ c[Len(a) + i] = b[i]
    BY <1>1 DEF c
  <2> QED
    BY <2>1 DEF ToSet
<1>5. ToSet(c) = ToSet(a) \cup ToSet(b)
  <2>1. ToSet(c) = {c[i] : i \in DOMAIN c} /\ ToSet(a) = {a[i] : i \in DOMAIN a} /\ ToSet(b) = {b[i] : i \in DOMAIN b}
    BY DEF ToSet
  <2> QED
    BY <1>2, <1>3, <1>4, <2>1
<1> QED
  BY <1>1, <1>5 DEF c

\* FlattenSeq joins the sequences: what they hold together.
LEMMA FlattenJoins ==
  ASSUME NEW S, NEW qs \in Seq(Seq(S))
  PROVE  /\ FlattenSeq(qs) \in Seq(S)
         /\ ToSet(FlattenSeq(qs)) = UNION {ToSet(qs[i]) : i \in DOMAIN qs}
<1> DEFINE N == Len(qs)
           Joins(f, n) == f = [i \in 1..n |-> IF i = 1 THEN qs[i] ELSE f[i - 1] \o qs[i]]
           Up(n) == UNION {ToSet(qs[i]) : i \in 1..n}
<1>1. N \in Nat /\ DOMAIN qs = 1..N /\ \A i \in 1..N : qs[i] \in Seq(S)
  OBVIOUS
<1>2. CASE N = 0
  <2>1. FlattenSeq(qs) = qs /\ qs = <<>>
    BY <1>2 DEF FlattenSeq
  <2> QED
    BY <2>1 DEF ToSet
<1>3. CASE N # 0
  <2> DEFINE G == {n \in Nat : \E f : Joins(f, n)}
             flat == CHOOSE f : Joins(f, N)
  <2>1. 0 \in G
    <3>1. Joins([i \in 1..0 |-> <<>>], 0)
      OBVIOUS
    <3> HIDE DEF Joins
    <3> QED
      BY <3>1
  <2>2. ASSUME NEW n \in Nat, n \in G
        PROVE  n + 1 \in G
    <3>1. PICK f : Joins(f, n)
      BY <2>2
    <3> DEFINE h == [i \in 1..(n + 1) |-> IF i = n + 1 THEN (IF i = 1 THEN qs[i] ELSE f[i - 1] \o qs[i])
                                         ELSE f[i]]
    <3>2. ASSUME NEW i \in 1..(n + 1)
          PROVE  h[i] = IF i = 1 THEN qs[i] ELSE h[i - 1] \o qs[i]
      <4>1. i # 1 => i - 1 \in 1..n /\ i - 1 \in 1..(n + 1) /\ i - 1 # n + 1
        OBVIOUS
      <4>2. i # 1 => h[i - 1] = f[i - 1]
        BY <4>1
      <4>3. CASE i = n + 1
        <5>1. h[i] = IF i = 1 THEN qs[i] ELSE f[i - 1] \o qs[i]
          BY <4>3
        <5> HIDE DEF h
        <5> QED
          BY <4>2, <5>1
      <4>4. CASE i # n + 1
        <5>1. i \in 1..n /\ h[i] = f[i]
          BY <4>4
        <5>2. f[i] = IF i = 1 THEN qs[i] ELSE f[i - 1] \o qs[i]
          BY <3>1, <5>1
        <5> HIDE DEF h, Joins
        <5> QED
          BY <4>2, <5>1, <5>2
      <4> QED
        BY <4>3, <4>4
    <3>3. h = [i \in 1..(n + 1) |-> h[i]]
      OBVIOUS
    <3> HIDE DEF h
    <3>4. Joins(h, n + 1)
      BY <3>2, <3>3
    <3> HIDE DEF Joins
    <3> QED
      BY <3>4
  <2>3. Nat \subseteq G
    <3> HIDE DEF G
    <3> QED
      BY <2>1, <2>2, SetInduction
  <2>4. Joins(flat, N)
    <3>1. \E f : Joins(f, N)
      BY <1>1, <2>3
    <3> HIDE DEF Joins
    <3> QED
      BY <3>1
  <2>5. FlattenSeq(qs) = flat[N]
    BY <1>3 DEF FlattenSeq
  <2>6. \A i \in 1..N : flat[i] = IF i = 1 THEN qs[i] ELSE flat[i - 1] \o qs[i]
    <3> HIDE DEF flat
    <3> QED
      BY <2>4
  <2> HIDE DEF flat, G, Joins
  <2> DEFINE H == {n \in Nat : n + 1 <= N => flat[n + 1] \in Seq(S) /\ ToSet(flat[n + 1]) = Up(n + 1)}
  <2>7. 0 \in H
    <3>1. flat[1] = qs[1] /\ 1 \in 1..N
      BY <1>1, <1>3, <2>6
    <3>2. Up(1) = ToSet(qs[1])
      OBVIOUS
    <3> QED
      BY <1>1, <3>1, <3>2
  <2>8. ASSUME NEW n \in Nat, n \in H
        PROVE  n + 1 \in H
    <3> SUFFICES ASSUME (n + 1) + 1 <= N
                 PROVE  flat[(n + 1) + 1] \in Seq(S) /\ ToSet(flat[(n + 1) + 1]) = Up((n + 1) + 1)
      OBVIOUS
    <3> DEFINE a == flat[n + 1]
               b == qs[(n + 1) + 1]
    <3>1. a \in Seq(S) /\ ToSet(a) = Up(n + 1) /\ b \in Seq(S) /\ (n + 1) + 1 \in 1..N
      BY <1>1, <2>8
    <3>2. flat[(n + 1) + 1] = a \o b
      <4>1. ((n + 1) + 1) - 1 = n + 1 /\ (n + 1) + 1 # 1
        OBVIOUS
      <4> HIDE DEF N, Up
      <4>2. flat[(n + 1) + 1] = flat[((n + 1) + 1) - 1] \o qs[(n + 1) + 1]
        BY <2>6, <3>1, <4>1
      <4> QED
        BY <4>1, <4>2
    <3>3. Up((n + 1) + 1) = Up(n + 1) \cup ToSet(b)
      <4>1. 1..((n + 1) + 1) = (1..(n + 1)) \cup {(n + 1) + 1}
        OBVIOUS
      <4> QED
        BY <4>1
    <3> HIDE DEF a, b, Up
    <3>4. a \o b \in Seq(S) /\ ToSet(a \o b) = ToSet(a) \cup ToSet(b)
      BY <3>1, JoinedSets
    <3> QED
      BY <3>1, <3>2, <3>3, <3>4
  <2>9. Nat \subseteq H
    <3> HIDE DEF H
    <3> QED
      BY <2>7, <2>8, SetInduction
  <2>10. N - 1 \in H /\ (N - 1) + 1 = N
    <3> HIDE DEF H, N
    <3> QED
      BY <1>1, <1>3, <2>9
  <2>11. flat[N] \in Seq(S) /\ ToSet(flat[N]) = Up(N)
    BY <1>1, <2>10
  <2> QED
    BY <1>1, <2>5, <2>11
<1> QED
  BY <1>2, <1>3

\* The greatest number of a set.
LEMMA MaxIs ==
  ASSUME NEW s, NEW m \in s, s \subseteq Int, \A y \in s : m >= y
  PROVE  Max(s) = m
<1> DEFINE c == CHOOSE x \in s : \A y \in s : x >= y
<1>1. c \in s /\ \A y \in s : c >= y
  OBVIOUS
<1> HIDE DEF c
<1>2. c = m
  BY <1>1
<1> QED
  BY <1>2 DEF Max, c

\* The fold's function over the sets of indices exists: one more index at a time.
LEMMA FoldExists ==
  ASSUME NEW S, NEW q \in Seq(S)
  PROVE  \E g : g = [s \in SUBSET DOMAIN q |-> IF s = {} THEN <<>> ELSE AddNew(g[s \ {Max(s)}], q[Max(s)])]
<1> DEFINE Good(D) == \E g : g = [s \in SUBSET D |->
              IF s = {} THEN <<>> ELSE AddNew(g[s \ {Max(s)}], q[Max(s)])]
           G == {k \in Nat : Good(1..k)}
<1> HIDE DEF Good
<1>1. Good(1..0)
  <2> DEFINE g == [s \in SUBSET (1..0) |-> <<>>]
  <2>1. \A s \in SUBSET (1..0) : s = {}
    OBVIOUS
  <2>2. g = [s \in SUBSET (1..0) |->
              IF s = {} THEN <<>> ELSE AddNew(g[s \ {Max(s)}], q[Max(s)])]
    BY <2>1
  <2> QED
    BY <2>2 DEF Good
<1>2. ASSUME NEW k \in Nat, Good(1..k)
      PROVE  Good(1..(k + 1))
  <2>1. PICK g : g = [s \in SUBSET (1..k) |->
              IF s = {} THEN <<>> ELSE AddNew(g[s \ {Max(s)}], q[Max(s)])]
    BY <1>2 DEF Good
  <2> DEFINE h == [s \in SUBSET (1..(k + 1)) |->
                     IF k + 1 \in s THEN AddNew(g[s \ {k + 1}], q[k + 1]) ELSE g[s]]
  <2>2. ASSUME NEW s \in SUBSET (1..(k + 1))
        PROVE  h[s] = IF s = {} THEN <<>> ELSE AddNew(h[s \ {Max(s)}], q[Max(s)])
    <3>1. CASE k + 1 \in s
      <4>1. Max(s) = k + 1
        <5>1. \A y \in s : k + 1 >= y
          OBVIOUS
        <5>2. s \subseteq Int
          OBVIOUS
        <5> QED
          BY <3>1, <5>1, <5>2, MaxIs
      <4>2. s \ {k + 1} \in SUBSET (1..k) /\ k + 1 \notin s \ {k + 1}
        OBVIOUS
      <4>3. h[s \ {k + 1}] = g[s \ {k + 1}]
        BY <4>2
      <4>4. h[s] = AddNew(g[s \ {k + 1}], q[k + 1])
        BY <3>1
      <4> HIDE DEF h
      <4> QED
        BY <3>1, <4>1, <4>3, <4>4
    <3>2. CASE k + 1 \notin s
      <4>1. s \in SUBSET (1..k)
        BY <3>2
      <4>2. h[s] = g[s] /\ h[s \ {Max(s)}] = g[s \ {Max(s)}]
        BY <3>2, <4>1
      <4>3. g[s] = IF s = {} THEN <<>> ELSE AddNew(g[s \ {Max(s)}], q[Max(s)])
        BY <2>1, <4>1
      <4> HIDE DEF h
      <4> QED
        BY <4>2, <4>3
    <3> QED
      BY <3>1, <3>2
  <2>3. h = [s \in SUBSET (1..(k + 1)) |-> h[s]]
    OBVIOUS
  <2> HIDE DEF h
  <2>4. h = [s \in SUBSET (1..(k + 1)) |-> IF s = {} THEN <<>> ELSE AddNew(h[s \ {Max(s)}], q[Max(s)])]
    BY <2>2, <2>3
  <2> QED
    BY <2>4 DEF Good
<1>3. 0 \in G
  BY <1>1
<1>4. \A k \in Nat : k \in G => k + 1 \in G
  BY <1>2
<1> HIDE DEF G
<1>5. Nat \subseteq G
  BY <1>3, <1>4, SetInduction
<1>6. Len(q) \in Nat /\ DOMAIN q = 1..Len(q)
  OBVIOUS
<1>7. Good(1..Len(q))
  BY <1>5, <1>6 DEF G
<1> QED
  BY <1>6, <1>7 DEF Good

LEMMA FoldIter ==
  ASSUME NEW S, NEW q \in Seq(S)
  PROVE  \E g : /\ g = [s \in SUBSET DOMAIN q |-> IF s = {} THEN <<>> ELSE AddNew(g[s \ {Max(s)}], q[Max(s)])]
                /\ FoldLeft(AddNew, <<>>, q) = g[DOMAIN q]
<1> DEFINE g == CHOOSE g : g = [s \in SUBSET DOMAIN q |-> IF s = {} THEN <<>> ELSE AddNew(g[s \ {Max(s)}], q[Max(s)])]
<1>1. FoldLeft(AddNew, <<>>, q) = g[DOMAIN q]
  BY DEF FoldLeft, MapThenFoldSet
<1>3. g = [s \in SUBSET DOMAIN q |-> IF s = {} THEN <<>> ELSE AddNew(g[s \ {Max(s)}], q[Max(s)])]
  BY FoldExists
<1> HIDE DEF g
<1> QED
  BY <1>1, <1>3

\* A known address is not added again.
LEMMA AddedOnce ==
  ASSUME NEW S, NEW out \in Seq(S), IsInjective(out), NEW x \in S
  PROVE  /\ AddNew(out, x) \in Seq(S) /\ IsInjective(AddNew(out, x))
         /\ ToSet(AddNew(out, x)) = ToSet(out) \cup {x}
<1>1. DOMAIN out = 1..Len(out) /\ Len(out) \in Nat
  OBVIOUS
<1>2. CASE Contains(out, x)
  <2>1. AddNew(out, x) = out
    BY <1>2 DEF AddNew
  <2>2. x \in ToSet(out)
    BY <1>1, <1>2 DEF Contains, ToSet
  <2> QED
    BY <2>1, <2>2
<1>3. CASE ~Contains(out, x)
  <2> DEFINE new == Append(out, x)
  <2>1. AddNew(out, x) = new
    BY <1>3 DEF AddNew
  <2>2. /\ new \in Seq(S) /\ DOMAIN new = 1..(Len(out) + 1) /\ new[Len(out) + 1] = x
        /\ \A i \in 1..Len(out) : new[i] = out[i]
    OBVIOUS
  <2> HIDE DEF new
  <2>3. \A i \in 1..Len(out) : out[i] # x
    BY <1>3 DEF Contains
  <2>4. ASSUME NEW i \in DOMAIN new, NEW j \in DOMAIN new, new[i] = new[j]
        PROVE  i = j
    <3>1. /\ i \in 1..Len(out) \/ i = Len(out) + 1
          /\ j \in 1..Len(out) \/ j = Len(out) + 1
      BY <1>1, <2>2
    <3>2. \A k, l \in 1..Len(out) : out[k] = out[l] => k = l
      BY <1>1 DEF IsInjective
    <3> QED
      BY <2>2, <2>3, <2>4, <3>1, <3>2
  <2>5. IsInjective(new)
    BY <2>4 DEF IsInjective
  <2>6. ToSet(new) = ToSet(out) \cup {x}
    <3>1. 1..(Len(out) + 1) = (1..Len(out)) \cup {Len(out) + 1}
      BY <1>1
    <3>2. ToSet(new) = {new[i] : i \in 1..Len(out)} \cup {x}
      BY <2>2, <3>1 DEF ToSet
    <3>3. ToSet(out) = {out[i] : i \in 1..Len(out)}
      BY <1>1 DEF ToSet
    <3> QED
      BY <2>2, <3>2, <3>3
  <2> QED
    BY <2>1, <2>2, <2>5, <2>6
<1> QED
  BY <1>2, <1>3

\* The fold over the addresses keeps each of them once.
LEMMA FoldKeepsEachOnce ==
  ASSUME NEW S, NEW q \in Seq(S)
  PROVE  LET out == FoldLeft(AddNew, <<>>, q)
         IN  out \in Seq(S) /\ IsInjective(out) /\ ToSet(out) = ToSet(q)
<1> DEFINE N == Len(q)
           Kept(out, s) == out \in Seq(S) /\ IsInjective(out) /\ ToSet(out) = {q[i] : i \in s}
<1>1. N \in Nat /\ DOMAIN q = 1..N /\ \A i \in 1..N : q[i] \in S
  OBVIOUS
<1>2. PICK g : /\ g = [s \in SUBSET DOMAIN q |-> IF s = {} THEN <<>> ELSE AddNew(g[s \ {Max(s)}], q[Max(s)])]
               /\ FoldLeft(AddNew, <<>>, q) = g[DOMAIN q]
  BY FoldIter
<1>3. \A s \in SUBSET DOMAIN q : g[s] = IF s = {} THEN <<>> ELSE AddNew(g[s \ {Max(s)}], q[Max(s)])
  BY <1>2
<1> DEFINE G == {n \in Nat : n <= N => Kept(g[1..n], 1..n)}
<1>4. 0 \in G
  <2>1. 1..0 = {} /\ {} \in SUBSET DOMAIN q
    OBVIOUS
  <2>2. g[{}] = <<>>
    BY <1>3, <2>1
  <2>3. Kept(<<>>, {})
    BY DEF IsInjective, ToSet
  <2> HIDE DEF Kept
  <2> QED
    BY <2>1, <2>2, <2>3
<1>5. ASSUME NEW n \in Nat, n \in G
      PROVE  n + 1 \in G
  <2> SUFFICES ASSUME n + 1 <= N PROVE Kept(g[1..(n + 1)], 1..(n + 1))
    OBVIOUS
  <2> DEFINE s == 1..(n + 1)
             out == g[1..n]
             x == q[n + 1]
  <2>1. s \in SUBSET DOMAIN q /\ s # {} /\ n + 1 \in s /\ n <= N
    <3> HIDE DEF N, Kept
    <3>1. n + 1 \in s /\ n <= N /\ \A i \in s : i \in 1..N
      BY <1>1
    <3> QED
      BY <1>1, <3>1
  <2>2. Max(s) = n + 1
    <3>1. s \subseteq Int /\ n + 1 \in s /\ \A y \in s : n + 1 >= y
      OBVIOUS
    <3> HIDE DEF s
    <3> QED
      BY <3>1, MaxIs
  <2>3. s \ {n + 1} = 1..n
    OBVIOUS
  <2>4. g[s] = AddNew(out, x)
    <3> HIDE DEF s
    <3> QED
      BY <1>3, <2>1, <2>2, <2>3
  <2>5. Kept(out, 1..n) /\ x \in S
    BY <1>1, <1>5, <2>1
  <2>6. {q[i] : i \in s} = {q[i] : i \in 1..n} \cup {x}
    <3>1. s = (1..n) \cup {n + 1}
      OBVIOUS
    <3> QED
      BY <3>1
  <2> HIDE DEF out, x, s
  <2>7. AddNew(out, x) \in Seq(S) /\ IsInjective(AddNew(out, x)) /\ ToSet(AddNew(out, x)) = ToSet(out) \cup {x}
    <3>1. out \in Seq(S) /\ IsInjective(out) /\ x \in S
      BY <2>5
    <3> HIDE DEF Kept
    <3> QED
      BY <3>1, AddedOnce
  <2> QED
    BY <2>4, <2>5, <2>6, <2>7 DEF s
<1>6. Nat \subseteq G
  <2> HIDE DEF G
  <2> QED
    BY <1>4, <1>5, SetInduction
<1>7. Kept(g[1..N], 1..N)
  <2> HIDE DEF Kept
  <2> QED
    BY <1>1, <1>6
<1>8. ToSet(q) = {q[i] : i \in 1..N}
  BY <1>1 DEF ToSet
<1> QED
  BY <1>1, <1>2, <1>7, <1>8

\* However a list of specs overlaps, Expand lists exactly the addresses it denotes,
\* each once.
LEMMA ExpandLists ==
  ASSUME NEW list \in SpecLists, Invalids(list) = {}
  PROVE  /\ ToSet(Expand(list)) = UNION {Denoted(list[i]) : i \in DOMAIN list}
         /\ IsInjective(Expand(list))
<1> DEFINE qs == [i \in DOMAIN list |-> AddrsOf(list[i])]
<1>1. list \in Seq(Specs)
  BY SpecsAssumption
<1>2. ASSUME NEW i \in DOMAIN list
      PROVE  AddrsOf(list[i]) \in Seq(Address) /\ ToSet(AddrsOf(list[i])) = Denoted(list[i])
  <2>1. list[i] \in Specs
    BY <1>1
  <2>2. list[i].kind # "bad" /\ (list[i].kind = "range" => RangeOK(list[i]))
    BY DEF Invalids
  <2> QED
    BY <2>1, <2>2, SpecsAssumption, SpecListsDenoted
<1>3. qs \in Seq(Seq(Address)) /\ DOMAIN qs = DOMAIN list
  <2>1. DOMAIN list = 1..Len(list) /\ Len(list) \in Nat
    BY <1>1
  <2>2. \A i \in 1..Len(list) : AddrsOf(list[i]) \in Seq(Address)
    BY <1>2, <2>1
  <2>3. qs = [i \in 1..Len(list) |-> AddrsOf(list[i])]
    BY <2>1
  <2>4. qs \in [1..Len(list) -> Seq(Address)]
    BY <2>2, <2>3
  <2> QED
    BY <2>1, <2>4
<1>4. \A i \in DOMAIN list : ToSet(qs[i]) = Denoted(list[i])
  BY <1>2
<1>5. UNION {ToSet(qs[i]) : i \in DOMAIN qs} = UNION {Denoted(list[i]) : i \in DOMAIN list}
  <2> HIDE DEF qs
  <2> QED
    BY <1>3, <1>4
<1>6. Expand(list) = FoldLeft(AddNew, <<>>, FlattenSeq(qs))
  BY DEF Expand
<1> HIDE DEF qs
<1>7. FlattenSeq(qs) \in Seq(Address) /\ ToSet(FlattenSeq(qs)) = UNION {ToSet(qs[i]) : i \in DOMAIN qs}
  BY <1>3, FlattenJoins
<1> DEFINE q == FlattenSeq(qs)
           out == FoldLeft(AddNew, <<>>, q)
<1>8. IsInjective(out) /\ ToSet(out) = ToSet(q)
  <2> HIDE DEF q
  <2>1. q \in Seq(Address)
    BY <1>7 DEF q
  <2> QED
    BY <2>1, FoldKeepsEachOnce
<1> HIDE DEF out
<1>9. Expand(list) = out
  BY <1>6 DEF out
<1> QED
  BY <1>5, <1>7, <1>8, <1>9

\* A scan probes exactly the addresses its specs denote, and none of them twice,
\* whatever prefixes and ranges overlap or end at the last address.
THEOREM ExpandedOnce == Spec => []ExpandExact
<1> DEFINE Given == specs \in SpecLists /\ addrs = Expand(specs)
<1>1. Init => Given
  BY DEF Init
<1>2. Given /\ [Next]_vars => Given'
  <2> SUFFICES ASSUME Given, [Next]_vars PROVE UNCHANGED <<specs, addrs>>
    OBVIOUS
  <2> QED
    BY DEF Next, vars, Dispatch, ReturnFromPool, Hosts, Host, Wait, Sleep, Probe, FinishProbe, Tick, TakeTick, PutToken, EndRefill,
           Cancel, Ended, PoolStep
<1>3. Given => ExpandExact
  BY ExpandLists DEF ExpandExact
<1> QED
  BY <1>1, <1>2, <1>3, PTL DEF Spec

-----------------------------------------------------------------------------
\* Discover hands its hosts to worker.Run and leaves the rest to it: every step of
\* a sweep is a step of JobPool, which worker.Run implements, or none of its own.
THEOREM SweepRunsOnPool == Spec => PoolSpec
<1>1. Init => PoolInit
  <2> SUFFICES ASSUME Init PROVE PoolInit
    OBVIOUS
  <2>1. jobs \in SUBSET AllJobs
    BY JobsAssumption DEF Init
  <2> QED
    BY <2>1 DEF Init, PoolInit
<1>2. [Next]_vars => [PoolNext]_poolVars
  <2>1. Dispatch => PoolNext
    BY DEF Dispatch, PoolNext
  <2>2. ReturnFromPool => PoolNext
    BY DEF ReturnFromPool, PoolNext
  <2>3. ASSUME NEW a \in AllJobs, Host(a)
        PROVE  PoolNext \/ UNCHANGED poolVars
    <3>1. FinishProbe(a) => PoolNext
      BY DEF FinishProbe, PoolNext
    <3>2. Wait(a) \/ Sleep(a) \/ Probe(a) => UNCHANGED poolVars
      BY DEF Wait, Sleep, Probe
    <3> QED
      BY <2>3, <3>1, <3>2 DEF Host
  <2>4. Tick \/ TakeTick \/ PutToken \/ EndRefill => UNCHANGED poolVars
    BY DEF Tick, TakeTick, PutToken, EndRefill
  <2>5. Cancel => PoolNext
    BY DEF Cancel, PoolNext
  <2>6. Ended \/ UNCHANGED vars => UNCHANGED poolVars
    BY DEF Ended, vars
  <2> QED
    BY <2>1, <2>2, <2>3, <2>4, <2>5, <2>6 DEF Next, Hosts
<1> QED
  BY <1>1, <1>2, PTL DEF Spec, PoolSpec
=============================================================================
