--------------------------- MODULE DomainLimiter ----------------------------
(***************************************************************************)
(* internal/httpx/limiter.go: the per-host limiter every engine crawls     *)
(* through.  A slot (domainSlot) is created on the first Acquire for a     *)
(* host; it has a buffered channel used as a counting semaphore, and the   *)
(* time of the last release, guarded by a mutex.                           *)
(*                                                                         *)
(* A goroutine that calls slotFor allocates a slot of its own and          *)
(* LoadOrStore decides whose slot the host keeps, so a slot is named       *)
(* <<allocator, host>>.  Time is discrete: since[s] is the time elapsed    *)
(* since s.lastSend, saturated at MinDelay, beyond which the code does not *)
(* tell values apart.  Each critical section of s.mu is one step.          *)
(***************************************************************************)
EXTENDS Naturals, Sequences, FiniteSets

CONSTANTS Proc,           \* goroutines that crawl
          Host,           \* host names (url.Hostname)
          MaxConcurrent,  \* DomainLimiter.maxConcurrent, the capacity of sem
          MinDelay,       \* DomainLimiter.minDelay, in ticks
          MaxJitter,      \* largest value of rand.Intn(500) ms, in ticks
          NoSlot,         \* no slot (absent key of limits; caller has none)
          NoHost          \* HostGate's "asks for nothing"

ASSUME ProcFinite == IsFiniteSet(Proc)
ASSUME MaxConcurrentNat == MaxConcurrent \in Nat
ASSUME DelayNat == MinDelay \in Nat /\ MaxJitter \in Nat
ASSUME NoSlotFresh == NoSlot \notin Proc \X Host
ASSUME NoHostFresh == NoHost \notin Host

Slot == Proc \X Host

VARIABLES
  limits,  \* DomainLimiter.limits: the slot stored for each host
  slot,    \* slot[p]: the *domainSlot p's Acquire and release work on
  pc,      \* where p is in Acquire / release
  sem,     \* sem[s]: the goroutines whose token is in s.sem
  queue,   \* queue[s]: the goroutines blocked in s.sem <-, oldest first
  since,   \* since[s]: time.Since(s.lastSend), saturated at MinDelay
  wait,    \* wait[p]: what is left of p's time.Sleep
  burst    \* history: acquisitions completed while since[s] < MinDelay

vars == <<limits, slot, pc, sem, queue, since, wait, burst>>

PC == {"idle", "enter", "blocked", "admitted", "delay", "holding", "stamped"}

\* The states in which p has put its token into s.sem.
InSem == {"admitted", "delay", "holding", "stamped"}

TypeOK ==
  /\ limits \in [Host -> Slot \cup {NoSlot}]
  /\ slot \in [Proc -> Slot \cup {NoSlot}]
  /\ pc \in [Proc -> PC]
  /\ sem \in [Slot -> SUBSET Proc]
  /\ queue \in [Slot -> Seq(Proc)]
  /\ since \in [Slot -> 0..MinDelay]
  /\ wait \in [Proc -> 0..(MinDelay + MaxJitter)]
  /\ burst \in [Slot -> Nat]

\* NewDomainLimiter: no host has a slot; a new slot's lastSend is the zero
\* time, so long ago that no delay applies.
Init ==
  /\ limits = [h \in Host |-> NoSlot]
  /\ slot = [p \in Proc |-> NoSlot]
  /\ pc = [p \in Proc |-> "idle"]
  /\ sem = [s \in Slot |-> {}]
  /\ queue = [s \in Slot |-> <<>>]
  /\ since = [s \in Slot |-> MinDelay]
  /\ wait = [p \in Proc |-> 0]
  /\ burst = [s \in Slot |-> 0]

-----------------------------------------------------------------------------
(* Acquire *)

\* Fault variant: Store, which replaces a slot other goroutines already use.
StoreOwn(p, h) == <<p, h>>

\* What LoadOrStore returns to p: the stored slot, or p's own, stored now.
LoadOrStore(p, h) == IF limits[h] = NoSlot THEN <<p, h>> ELSE limits[h]

\* slotFor(rawURL).
SlotFor(p, h) ==
  /\ pc[p] = "idle"
  /\ limits' = [limits EXCEPT ![h] = LoadOrStore(p, h)]
  /\ slot' = [slot EXCEPT ![p] = LoadOrStore(p, h)]
  /\ pc' = [pc EXCEPT ![p] = "enter"]
  /\ UNCHANGED <<sem, queue, since, wait, burst>>

\* Fault variant: one token more than the capacity.
HasRoomOffByOne(s) == Cardinality(sem[s]) <= MaxConcurrent

\* make(chan struct{}, d.maxConcurrent): the buffer of s.sem is not full.
HasRoom(s) == Cardinality(sem[s]) < MaxConcurrent

\* s.sem <- struct{}{}: p's token goes into the buffer ...
SemTake(p) ==
  LET s == slot[p] IN
  /\ pc[p] = "enter" /\ HasRoom(s)
  /\ sem' = [sem EXCEPT ![s] = @ \cup {p}]
  /\ pc' = [pc EXCEPT ![p] = "admitted"]
  /\ UNCHANGED <<limits, slot, queue, since, wait, burst>>

\* ... or p blocks behind the senders that came before it.
SemBlock(p) ==
  LET s == slot[p] IN
  /\ pc[p] = "enter" /\ ~HasRoom(s)
  /\ queue' = [queue EXCEPT ![s] = Append(@, p)]
  /\ pc' = [pc EXCEPT ![p] = "blocked"]
  /\ UNCHANGED <<limits, slot, sem, since, wait, burst>>

\* Fault variant: the jitter is taken off the delay instead of added to it.
ShortDelays(s) ==
  IF since[s] < MinDelay THEN 0..(MinDelay - since[s]) ELSE {0}

\* Fault variant: the bound of the jitter is itself drawn.
LateDelays(s) ==
  IF since[s] < MinDelay
  THEN {MinDelay - since[s] + j : j \in 0..(MaxJitter + 1)}
  ELSE {0}

\* What Acquire may sleep for: nothing once minDelay has elapsed.
Delays(s) ==
  IF since[s] < MinDelay
  THEN {MinDelay - since[s] + j : j \in 0..MaxJitter}
  ELSE {0}

\* s.mu.Lock() ... s.mu.Unlock() in Acquire: lastSend is read, under the mutex,
\* once; the sleep that follows does not look at it again.
ReadLastSend(p) ==
  LET s == slot[p] IN
  /\ pc[p] = "admitted"
  /\ \E d \in Delays(s) : wait' = [wait EXCEPT ![p] = d]
  /\ pc' = [pc EXCEPT ![p] = "delay"]
  /\ UNCHANGED <<limits, slot, sem, queue, since, burst>>

\* time.Sleep is over and Acquire returns the release function.
AcquireReturn(p) ==
  LET s == slot[p] IN
  /\ pc[p] = "delay" /\ wait[p] = 0
  /\ pc' = [pc EXCEPT ![p] = "holding"]
  /\ burst' = [burst EXCEPT ![s] = IF since[s] < MinDelay THEN @ + 1 ELSE @]
  /\ UNCHANGED <<limits, slot, sem, queue, since, wait>>

-----------------------------------------------------------------------------
(* The release function *)

\* s.mu.Lock(); s.lastSend = time.Now(); s.mu.Unlock()
Stamp(p) ==
  LET s == slot[p] IN
  /\ pc[p] = "holding"
  /\ since' = [since EXCEPT ![s] = 0]
  /\ burst' = [burst EXCEPT ![s] = 0]
  /\ pc' = [pc EXCEPT ![p] = "stamped"]
  /\ UNCHANGED <<limits, slot, sem, queue, wait>>

\* Fault variant: release returns without taking its token out of the channel.
SemKeep(p) ==
  /\ pc[p] = "stamped"
  /\ pc' = [pc EXCEPT ![p] = "idle"]
  /\ slot' = [slot EXCEPT ![p] = NoSlot]
  /\ UNCHANGED <<limits, sem, queue, since, wait, burst>>

\* <-s.sem: p's token leaves the buffer ...
SemLeave(p) ==
  LET s == slot[p] IN
  /\ pc[p] = "stamped" /\ queue[s] = <<>>
  /\ sem' = [sem EXCEPT ![s] = @ \ {p}]
  /\ pc' = [pc EXCEPT ![p] = "idle"]
  /\ slot' = [slot EXCEPT ![p] = NoSlot]
  /\ UNCHANGED <<limits, queue, since, wait, burst>>

\* ... and the oldest blocked sender's token takes its place.
SemHandOff(p) ==
  LET s == slot[p]
      q == Head(queue[s]) IN
  /\ pc[p] = "stamped" /\ queue[s] # <<>>
  /\ sem' = [sem EXCEPT ![s] = (@ \ {p}) \cup {q}]
  /\ queue' = [queue EXCEPT ![s] = Tail(@)]
  /\ pc' = [pc EXCEPT ![p] = "idle", ![q] = "admitted"]
  /\ slot' = [slot EXCEPT ![p] = NoSlot]
  /\ UNCHANGED <<limits, since, wait, burst>>

-----------------------------------------------------------------------------

\* The clock advances for every slot and every sleeper.
Tick ==
  /\ since' = [s \in Slot |-> IF since[s] < MinDelay THEN since[s] + 1 ELSE since[s]]
  /\ wait' = [p \in Proc |-> IF wait[p] > 0 THEN wait[p] - 1 ELSE 0]
  /\ UNCHANGED <<limits, slot, pc, sem, queue, burst>>

\* What a goroutine does once it has called Acquire.
Step(p) ==
  \/ SemTake(p) \/ SemBlock(p) \/ ReadLastSend(p) \/ AcquireReturn(p)
  \/ Stamp(p) \/ SemLeave(p) \/ SemHandOff(p)

Next ==
  \/ \E p \in Proc : (\E h \in Host : SlotFor(p, h)) \/ Step(p)
  \/ Tick

Spec == Init /\ [][Next]_vars

\* The Go scheduler runs every runnable goroutine, a crawl ends (its context has
\* a deadline and release is deferred), and time passes.  Nobody has to crawl.
Fairness == WF_vars(Tick) /\ \A p \in Proc : WF_vars(Step(p))

LiveSpec == Spec /\ Fairness

-----------------------------------------------------------------------------
(* Properties *)

\* Goroutines crawling host h, between Acquire's return and release's <-s.sem.
InFlight(h) ==
  {p \in Proc : pc[p] \in {"holding", "stamped"} /\ slot[p][2] = h}

\* At most MaxConcurrent goroutines crawl one host, however their first calls
\* of slotFor race (limiter.go:10, "caps concurrency").
ConcurrencyCap == \A h \in Host : Cardinality(InFlight(h)) <= MaxConcurrent

\* Between two releases at most MaxConcurrent - 1 acquisitions complete before
\* minDelay has elapsed since the earlier release: the ones that had read
\* lastSend before it.  With MaxConcurrent = 1 the delay is always kept.
BurstBound == \A s \in Slot : burst[s] > 0 => burst[s] < MaxConcurrent

\* limiter.go:40-41: "Acquire blocks until a slot is available and the minimum
\* delay since the last request to the same domain has elapsed".
MinDelayElapsed == \A s \in Slot : burst[s] = 0

\* Every goroutine that calls Acquire crawls in the end: no token is lost and
\* no blocked sender is forgotten.
AcquireReturns ==
  \A p \in Proc : pc[p] = "enter" ~> pc[p] = "holding"

-----------------------------------------------------------------------------
(* The limiter is a HostGate. *)

\* What a caller of the limiter sees of p.
GatePhase ==
  [p \in Proc |-> CASE pc[p] = "idle" -> "idle"
                    [] pc[p] \in {"holding", "stamped"} -> "granted"
                    [] OTHER -> "waiting"]

GateWants == [p \in Proc |-> IF slot[p] = NoSlot THEN NoHost ELSE slot[p][2]]

Gate == INSTANCE HostGate WITH phase <- GatePhase, wants <- GateWants

\* Every behaviour of the limiter is one of HostGate: slotFor is its Ask, the
\* return of Acquire its Grant, <-s.sem its GiveBack, and all else is invisible.
ImplementsGate == Gate!GateSpec
=============================================================================
