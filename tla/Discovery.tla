----------------------------- MODULE Discovery -----------------------------
(***************************************************************************)
(* Finding live hosts (src/internal/discovery/discovery.go): Expand turns  *)
(* scan specs into addresses, and Discover probes them on the worker pool  *)
(* (JobPool), each host after a token of the shared rate limiter.  The     *)
(* limiter's goroutine receives a tick and then sends a token, which it    *)
(* drops when the bucket is full: one tick may be in its hand and another  *)
(* in the ticker's channel.                                                *)
(***************************************************************************)
EXTENDS JobPool, SequencesExt

CONSTANTS Top,            \* the last address; both families are as long here
          SpecLists,      \* the spec lists a scan may be given
          Alive,          \* addresses that answer on a probed port
          PerSec          \* RatePerSec, 0 for unlimited: one tick is 1/PerSec

ASSUME DiscoveryAssumption == Top \in Nat /\ PerSec \in Nat

Families == {"v4", "v6"}
Address == [fam : Families, n : 0..Top]
Invalid == [fam |-> "invalid", n |-> 0]

\* A spec as Expand's switch sees it; "bad" fails to parse in its case.  A CIDR
\* is an address and the number of addresses its prefix length leaves.
Spec4(k, a, b) == [kind |-> k, fam |-> "v4", a |-> a, b |-> b]
Spec6(k, a, b) == [kind |-> k, fam |-> "v6", a |-> a, b |-> b]

Specs == [kind : {"cidr", "range", "single", "blank", "bad"}, fam : Families,
          a : 0..Top, b : 0..(Top + 1)]

\* Prefixes cut the addresses into blocks of the same size.
ASSUME SpecsAssumption ==
  /\ SpecLists \subseteq Seq(Specs)
  /\ \A s \in SpecLists : \A i \in DOMAIN s :
       /\ s[i].kind = "cidr" => s[i].b > 0 /\ (Top + 1) % s[i].b = 0
       /\ s[i].kind = "range" => s[i].b <= Top

\* netip.Addr.Next: the address after the last one is the invalid address.
After(x) == IF x.n = Top THEN Invalid ELSE [x EXCEPT !.n = @ + 1]

Contained(spec, x) == x.fam = spec.fam /\ x.n \div spec.b = spec.a \div spec.b

\* Mutant: the loop starts at the address as given.
CidrAddrsUnmasked(spec) ==
  LET walk[x \in Address \cup {Invalid}] ==
        IF Contained(spec, x) THEN <<x>> \o walk[After(x)] ELSE <<>>
  IN  walk[[fam |-> spec.fam, n |-> spec.a]]

\* From the masked address on, as long as the prefix contains it.
CidrAddrs(spec) ==
  LET walk[x \in Address \cup {Invalid}] ==
        IF Contained(spec, x) THEN <<x>> \o walk[After(x)] ELSE <<>>
  IN  walk[[fam |-> spec.fam, n |-> (spec.a \div spec.b) * spec.b]]

\* parseRange accepts either family, the ends in order; both are included.
RangeOK(spec) == spec.a <= spec.b
RangeAddrs(spec) ==
  LET walk[x \in {y \in Address : y.n <= spec.b}] ==
        IF x.n = spec.b THEN <<x>> ELSE <<x>> \o walk[After(x)]
  IN  walk[[fam |-> spec.fam, n |-> spec.a]]

Invalids(specs) ==
  {i \in DOMAIN specs : specs[i].kind = "bad" \/ (specs[i].kind = "range" /\ ~RangeOK(specs[i]))}

AddrsOf(spec) ==
  CASE spec.kind = "cidr" -> CidrAddrs(spec)
    [] spec.kind = "range" -> RangeAddrs(spec)
    [] spec.kind = "single" -> <<[fam |-> spec.fam, n |-> spec.a]>>
    [] spec.kind = "blank" -> <<>>

AddNew(out, x) == IF Contains(out, x) THEN out ELSE Append(out, x)

\* The first spec that is wrong fails the whole list.
Expand(specs) ==
  IF Invalids(specs) # {} THEN <<>>
  ELSE FoldLeft(AddNew, <<>>, FlattenSeq([i \in DOMAIN specs |-> AddrsOf(specs[i])]))

\* AllJobs holds every address a scan may be given.
ASSUME JobsAssumption == \A s \in SpecLists : ToSet(Expand(s)) \subseteq AllJobs

-----------------------------------------------------------------------------
VARIABLES specs,          \* the scan's specs
          addrs,          \* what Expand made of them
          step,           \* a host's step: "wait" "sleep" "probe" or "done"
          found,          \* hosts found with an open port
          tokens,         \* limiter.tokens, the bucket
          tick,           \* a tick is in the ticker's channel
          refill,         \* the limiter's goroutine: at its "select", about to
                          \* "send" a token for a tick it has received, or "over"
          stopped,        \* limiter.stop is closed
          since           \* history: k -> grants since the k-th last tick

limiterVars == <<tokens, tick, refill, stopped, since>>
vars == <<poolVars, specs, addrs, step, found, limiterVars>>

Window == 0 .. PerSec - 1

Init ==
  /\ specs \in SpecLists
  /\ addrs = Expand(specs)
  /\ jobs = ToSet(addrs)
  /\ slot = [a \in AllJobs |-> "pending"]
  /\ cancelled = FALSE /\ grace = TRUE /\ returned = FALSE
  /\ step = [a \in AllJobs |-> "wait"]
  /\ found = {}
  /\ tokens = 0 /\ tick = FALSE /\ stopped = FALSE
  /\ refill = IF PerSec > 0 THEN "select" ELSE "over"
  /\ since = [k \in Window |-> 0]

PoolStep == UNCHANGED <<specs, addrs, step, found, limiterVars>>

At(a, s) == slot[a] = "active" /\ step[a] = s

\* Mutant: a host that finds the bucket empty does not wait.
WaitTrying(a) ==
  /\ At(a, "wait")
  /\ IF tokens > 0
     THEN /\ tokens' = tokens - 1
          /\ since' = [k \in Window |-> since[k] + 1]
          /\ step' = [step EXCEPT ![a] = "sleep"]
     ELSE step' = [step EXCEPT ![a] = "done"] /\ UNCHANGED <<tokens, since>>
  /\ UNCHANGED <<poolVars, specs, addrs, found, tick, refill, stopped>>

\* A token, or the end of the context; without a limiter, at once.
Wait(a) ==
  /\ At(a, "wait")
  /\ \/ /\ PerSec > 0 /\ tokens > 0
        /\ tokens' = tokens - 1
        /\ since' = [k \in Window |-> since[k] + 1]
     \/ /\ PerSec = 0 \/ cancelled
        /\ UNCHANGED <<tokens, since>>
  /\ step' = [step EXCEPT ![a] = "sleep"]
  /\ UNCHANGED <<poolVars, specs, addrs, found, tick, refill, stopped>>

\* The jitter is over.
Sleep(a) ==
  /\ At(a, "sleep")
  /\ step' = [step EXCEPT ![a] = "probe"]
  /\ UNCHANGED <<poolVars, specs, addrs, found, limiterVars>>

\* Every port in turn; a cancelled context stops the dialling.
Probe(a) ==
  /\ At(a, "probe")
  /\ found' \in {found \cup ({a} \cap Alive)} \cup (IF cancelled THEN {found} ELSE {})
  /\ step' = [step EXCEPT ![a] = "done"]
  /\ UNCHANGED <<poolVars, specs, addrs, limiterVars>>

FinishProbe(a) ==
  /\ step[a] = "done"
  /\ Finish(a)
  /\ PoolStep

\* The runtime drops a tick when the channel still holds one.
Tick ==
  /\ refill # "over"
  /\ tick' = TRUE
  /\ since' = [k \in Window |-> IF k = 0 THEN 0 ELSE since[k - 1]]
  /\ UNCHANGED <<poolVars, specs, addrs, step, found, tokens, refill, stopped>>

TakeTick ==
  /\ refill = "select" /\ tick
  /\ tick' = FALSE /\ refill' = "send"
  /\ UNCHANGED <<poolVars, specs, addrs, step, found, tokens, stopped, since>>

\* Mutant: the bucket holds one token more than RatePerSec.
PutTokenExtra ==
  /\ refill = "send"
  /\ tokens' = IF tokens <= PerSec THEN tokens + 1 ELSE tokens
  /\ refill' = "select"
  /\ UNCHANGED <<poolVars, specs, addrs, step, found, tick, stopped, since>>

\* A token for the tick, unless the bucket is full.
PutToken ==
  /\ refill = "send"
  /\ tokens' = IF tokens < PerSec THEN tokens + 1 ELSE tokens
  /\ refill' = "select"
  /\ UNCHANGED <<poolVars, specs, addrs, step, found, tick, stopped, since>>

\* The goroutine's way out, and its ticker's end.
EndRefill ==
  /\ refill = "select" /\ stopped
  /\ refill' = "over"
  /\ UNCHANGED <<poolVars, specs, addrs, step, found, tokens, tick, stopped, since>>

Cancel ==
  /\ CancelContext
  /\ PoolStep

\* Mutant: the deferred close is forgotten.
ReturnFromPoolLeaking == Return /\ PoolStep

\* Discover returns; the deferred close tells the limiter's goroutine.
ReturnFromPool ==
  /\ Return
  /\ stopped' = TRUE
  /\ UNCHANGED <<specs, addrs, step, found, tokens, tick, refill, since>>

Dispatch == PoolStep /\ \E a \in AllJobs : Admit(a) \/ Skip(a)

Host(a) == Wait(a) \/ Sleep(a) \/ Probe(a) \/ FinishProbe(a)

Hosts == \E a \in AllJobs : Host(a)

Ended == returned /\ UNCHANGED vars

Next ==
  \/ Dispatch \/ ReturnFromPool \/ Hosts
  \/ Tick \/ TakeTick \/ PutToken \/ EndRefill \/ Cancel \/ Ended

Spec == Init /\ [][Next]_vars

\* Goroutines are scheduled, the ticker ticks, jitter and dials are bounded.
\* Each token goes to whichever host receives it: a host needs only one.  A select
\* with a tick and the closed channel both ready picks one at random, and so not
\* the tick for ever.
FairSpec ==
  /\ Spec /\ WF_vars(Dispatch) /\ WF_vars(ReturnFromPool) /\ WF_vars(Hosts)
  /\ WF_vars(Tick) /\ WF_vars(TakeTick) /\ WF_vars(PutToken) /\ SF_vars(EndRefill)

-----------------------------------------------------------------------------
TypeOK ==
  /\ jobs \subseteq AllJobs
  /\ slot \in [AllJobs -> {"pending", "active", "finished", "skipped"}]
  /\ cancelled \in BOOLEAN /\ grace \in BOOLEAN /\ returned \in BOOLEAN
  /\ tick \in BOOLEAN /\ stopped \in BOOLEAN /\ refill \in {"select", "send", "over"}
  /\ step \in [AllJobs -> {"wait", "sleep", "probe", "done"}]
  /\ found \subseteq AllJobs
  /\ tokens \in 0..PerSec
  /\ since \in [Window -> Nat]

\* The reference meaning of a spec: a set of addresses.
Denoted(spec) ==
  {x \in Address : x.fam = spec.fam /\
     CASE spec.kind = "cidr" -> x.n \div spec.b = spec.a \div spec.b
       [] spec.kind = "range" -> spec.a <= x.n /\ x.n <= spec.b
       [] spec.kind = "single" -> x.n = spec.a
       [] OTHER -> FALSE}

\* "a deduplicated list of addresses" (discovery.go:68): exactly the addresses
\* the specs denote, each once, also where a prefix ends at the last address.
ExpandExact ==
  Invalids(specs) = {} =>
    /\ ToSet(addrs) = UNION {Denoted(specs[i]) : i \in DOMAIN specs}
    /\ IsInjective(addrs)

\* What the rate limit gives: k ticks after some tick, and until the next one, at
\* most PerSec + k + 2 hosts got a token since - the full bucket, the ticks, one
\* that was late in the channel and one in the goroutine's hand.  So in a second
\* of ticks at most 2 * PerSec + 1.  ("Cap on hosts probed per second",
\* discovery.go:51, is the rate in the long run only.)
BurstBounded == \A k \in Window : since[k] <= PerSec + k + 2

\* What can still be granted before another tick.
Grantable == tokens + (IF tick THEN 1 ELSE 0) + (IF refill = "send" THEN 1 ELSE 0)

\* The strengthening: what can still be granted counts as well.
BurstInv == \A k \in Window : since[k] + Grantable <= PerSec + k + 2

\* Where every host stands: what is found answers and was asked for, and without a
\* cancellation a host whose probe is over has been found if it answers.
SweepInv ==
  /\ found \subseteq jobs \cap Alive
  /\ \A a \in AllJobs : /\ slot[a] # "pending" => a \in jobs
                        /\ slot[a] = "finished" => step[a] = "done"
                        /\ slot[a] = "skipped" => cancelled
                        /\ step[a] = "done" /\ a \in Alive /\ ~cancelled => a \in found
  /\ returned => \A a \in jobs : Settled(a)

\* The inductive invariant.
IInv == TypeOK /\ BurstInv /\ SweepInv

\* The rate limit delays hosts and loses none: unless it is cancelled, a sweep
\* finds exactly the hosts that answer.
SweepComplete ==
  returned => found \subseteq Alive /\ (cancelled \/ found = jobs \cap Alive)

\* Discover returns whatever the rate, and the limiter's goroutine ends with it.
SweepEnds == <>[](returned /\ refill = "over")
=============================================================================
