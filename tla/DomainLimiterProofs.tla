------------------------ MODULE DomainLimiterProofs -------------------------
(***************************************************************************)
(* Proofs about DomainLimiter, for every number of goroutines and hosts,   *)
(* every capacity and every delay.                                         *)
(***************************************************************************)
EXTENDS DomainLimiter, FiniteSetTheorems, TLAPS

\* A goroutine inside Acquire or release works on the slot stored for its host.
SlotsAgree ==
  /\ \A p \in Proc : pc[p] = "idle" <=> slot[p] = NoSlot
  /\ \A p \in Proc : pc[p] # "idle" => slot[p] = limits[slot[p][2]]
  /\ \A h \in Host : limits[h] # NoSlot => limits[h][2] = h

\* The tokens in s.sem are those of the goroutines past s.sem <-.
SemAgrees ==
  \A s \in Slot : sem[s] = {p \in Proc : pc[p] \in InSem /\ slot[p] = s}

SemCap == \A s \in Slot : Cardinality(sem[s]) <= MaxConcurrent

\* A queue holds blocked goroutines of its slot, each once.
QueueAgrees ==
  \A s \in Slot :
    /\ \A i \in 1..Len(queue[s]) :
         pc[queue[s][i]] = "blocked" /\ slot[queue[s][i]] = s
    /\ \A i, j \in 1..Len(queue[s]) : queue[s][i] = queue[s][j] => i = j

\* The sleepers that will wake before minDelay has elapsed since lastSend.
Early(s) ==
  {p \in Proc : pc[p] = "delay" /\ slot[p] = s /\ wait[p] + since[s] < MinDelay}

\* The early acquisitions, past and pending, leave a token to the goroutine
\* that stamped lastSend.
EarlyBound ==
  \A s \in Slot :
    LET n == burst[s] + Cardinality(Early(s)) IN n > 0 => n < MaxConcurrent

SemInv == TypeOK /\ SlotsAgree /\ SemAgrees /\ SemCap /\ QueueAgrees

IInv == SemInv /\ EarlyBound

-----------------------------------------------------------------------------

\* Any set of goroutines is finite, and a part of it is no larger.
LEMMA ProcSets ==
  ASSUME NEW S \in SUBSET Proc
  PROVE  /\ IsFiniteSet(S)
         /\ Cardinality(S) \in Nat
         /\ \A T \in SUBSET S : Cardinality(T) <= Cardinality(S)
BY ProcFinite, FS_Subset, FS_CardinalityType

\* Adding, removing or replacing a goroutine changes a set's size by one at most.
LEMMA ProcCount ==
  ASSUME NEW S \in SUBSET Proc, NEW x, NEW y
  PROVE  /\ Cardinality(S \cup {x}) \in Nat
         /\ Cardinality(S \cup {x}) <= Cardinality(S) + 1
         /\ Cardinality(S \ {x}) \in Nat
         /\ Cardinality(S \ {x}) <= Cardinality(S)
         /\ x \in S => Cardinality(S \ {x}) = Cardinality(S) - 1
         /\ x \in S => /\ Cardinality((S \ {x}) \cup {y}) \in Nat
                       /\ Cardinality((S \ {x}) \cup {y}) <= Cardinality(S)
<1>1. IsFiniteSet(S) /\ Cardinality(S) \in Nat
      BY ProcSets
<1>2. /\ IsFiniteSet(S \ {x})
      /\ Cardinality(S \ {x}) = IF x \in S THEN Cardinality(S) - 1 ELSE Cardinality(S)
      BY <1>1, FS_RemoveElement
<1>3. Cardinality(S \ {x}) \in Nat
      BY <1>2, FS_CardinalityType
<1>4. /\ IsFiniteSet(S \cup {x})
      /\ Cardinality(S \cup {x}) = IF x \in S THEN Cardinality(S) ELSE Cardinality(S) + 1
      BY <1>1, FS_AddElement
<1>5. Cardinality((S \ {x}) \cup {y}) =
        IF y \in S \ {x} THEN Cardinality(S \ {x}) ELSE Cardinality(S \ {x}) + 1
      BY <1>2, FS_AddElement
<1> QED  BY <1>1, <1>2, <1>3, <1>4, <1>5

\* Updating one point of a function keeps its type.
LEMMA UpdateType ==
  ASSUME NEW S, NEW T, NEW f \in [S -> T], NEW x \in S, NEW v \in T
  PROVE  [f EXCEPT ![x] = v] \in [S -> T]
OBVIOUS

\* Every step keeps the variables in their types.
LEMMA TypeStep == SemInv /\ [Next]_vars => TypeOK'
<1> SUFFICES ASSUME SemInv, [Next]_vars
             PROVE  TypeOK'
    OBVIOUS
<1> USE DelayNat, MaxConcurrentNat DEF SemInv, TypeOK, PC
<1>0. \A p \in Proc : pc[p] # "idle" => slot[p] \in Slot
      BY DEF SlotsAgree
<1>1. ASSUME NEW p \in Proc, NEW h \in Host, SlotFor(p, h)
      PROVE  TypeOK'
  <2>1. LoadOrStore(p, h) \in Slot
        BY DEF LoadOrStore, Slot
  <2> QED  BY <1>1, <2>1 DEF SlotFor
<1>2. ASSUME NEW p \in Proc, SemTake(p)
      PROVE  TypeOK'
  <2>1. slot[p] \in Slot /\ sem[slot[p]] \cup {p} \in SUBSET Proc
        BY <1>2, <1>0 DEF SemTake
  <2>2. sem' \in [Slot -> SUBSET Proc]
        BY <1>2, <2>1, UpdateType DEF SemTake
  <2> QED  BY <1>2, <2>2 DEF SemTake
<1>3. ASSUME NEW p \in Proc, SemBlock(p)
      PROVE  TypeOK'
  <2>1. slot[p] \in Slot /\ Append(queue[slot[p]], p) \in Seq(Proc)
        BY <1>3, <1>0 DEF SemBlock
  <2>2. queue' \in [Slot -> Seq(Proc)]
        BY <1>3, <2>1, UpdateType DEF SemBlock
  <2> QED  BY <1>3, <2>2 DEF SemBlock
<1>4. ASSUME NEW p \in Proc, ReadLastSend(p)
      PROVE  TypeOK'
  <2>1. slot[p] \in Slot
        BY <1>4, <1>0 DEF ReadLastSend
  <2>2. Delays(slot[p]) \subseteq 0..(MinDelay + MaxJitter)
        BY <2>1 DEF Delays
  <2> QED  BY <1>4, <2>2 DEF ReadLastSend
<1>5. ASSUME NEW p \in Proc, AcquireReturn(p)
      PROVE  TypeOK'
      BY <1>5, <1>0 DEF AcquireReturn
<1>6. ASSUME NEW p \in Proc, Stamp(p)
      PROVE  TypeOK'
      BY <1>6, <1>0 DEF Stamp
<1>7. ASSUME NEW p \in Proc, SemLeave(p)
      PROVE  TypeOK'
  <2>1. slot[p] \in Slot /\ sem[slot[p]] \ {p} \in SUBSET Proc
        BY <1>7, <1>0 DEF SemLeave
  <2>2. sem' \in [Slot -> SUBSET Proc]
        BY <1>7, <2>1, UpdateType DEF SemLeave
  <2> QED  BY <1>7, <2>2 DEF SemLeave
<1>8. ASSUME NEW p \in Proc, SemHandOff(p)
      PROVE  TypeOK'
  <2> DEFINE s == slot[p]
             q == Head(queue[s])
  <2>1. s \in Slot /\ q \in Proc /\ Tail(queue[s]) \in Seq(Proc)
        BY <1>8, <1>0 DEF SemHandOff
  <2>2. (sem[s] \ {p}) \cup {q} \in SUBSET Proc
        BY <2>1
  <2>3. sem' \in [Slot -> SUBSET Proc]
        BY <1>8, <2>1, <2>2, UpdateType DEF SemHandOff
  <2>4. queue' \in [Slot -> Seq(Proc)]
        BY <1>8, <2>1, UpdateType DEF SemHandOff
  <2>5. pc' \in [Proc -> PC]
        BY <1>8, <2>1 DEF SemHandOff
  <2>6. slot' \in [Proc -> Slot \cup {NoSlot}]
        BY <1>8 DEF SemHandOff
  <2> QED  BY <1>8, <2>3, <2>4, <2>5, <2>6 DEF SemHandOff
<1>9. CASE Tick
      BY <1>9 DEF Tick
<1>10. CASE UNCHANGED vars
      BY <1>10 DEF vars
<1> QED  BY <1>1, <1>2, <1>3, <1>4, <1>5, <1>6, <1>7, <1>8, <1>9, <1>10 DEF Next, Step

\* Every step keeps goroutines on the slot stored for their host.
LEMMA SlotsStep == SemInv /\ [Next]_vars => SlotsAgree'
<1> SUFFICES ASSUME SemInv, [Next]_vars
             PROVE  SlotsAgree'
    OBVIOUS
<1> USE NoSlotFresh DEF SemInv, TypeOK, PC, Slot, SlotsAgree
<1>1. ASSUME NEW p \in Proc, NEW h \in Host, SlotFor(p, h)
      PROVE  SlotsAgree'
      BY <1>1 DEF SlotFor, LoadOrStore
<1>2. ASSUME NEW p \in Proc, SemTake(p) \/ SemBlock(p) \/ ReadLastSend(p)
                              \/ AcquireReturn(p) \/ Stamp(p)
      PROVE  SlotsAgree'
      BY <1>2 DEF SemTake, SemBlock, ReadLastSend, AcquireReturn, Stamp
<1>3. ASSUME NEW p \in Proc, SemLeave(p)
      PROVE  SlotsAgree'
      BY <1>3 DEF SemLeave
<1>4. ASSUME NEW p \in Proc, SemHandOff(p)
      PROVE  SlotsAgree'
  <2> DEFINE q == Head(queue[slot[p]])
  <2>1. q \in Proc /\ pc[q] = "blocked"
        BY <1>4 DEF SemHandOff, QueueAgrees
  <2> QED  BY <1>4, <2>1 DEF SemHandOff
<1>5. CASE Tick \/ UNCHANGED vars
      BY <1>5 DEF Tick, vars
<1> QED  BY <1>1, <1>2, <1>3, <1>4, <1>5 DEF Next, Step

\* Every step keeps the tokens of a slot those of the goroutines that hold one.
LEMMA SemAgreesStep == SemInv /\ [Next]_vars => SemAgrees'
<1> SUFFICES ASSUME SemInv, [Next]_vars, NEW t \in Slot, NEW r \in Proc
             PROVE  (r \in sem[t] <=> pc[r] \in InSem /\ slot[r] = t)'
    BY TypeStep DEF SemAgrees, TypeOK
<1> USE DEF SemInv, TypeOK, SemAgrees, InSem
<1>1. ASSUME NEW p \in Proc, NEW h \in Host, SlotFor(p, h)
      PROVE  (r \in sem[t] <=> pc[r] \in InSem /\ slot[r] = t)'
      BY <1>1 DEF SlotFor
<1>2. ASSUME NEW p \in Proc, SemTake(p)
      PROVE  (r \in sem[t] <=> pc[r] \in InSem /\ slot[r] = t)'
      BY <1>2 DEF SemTake
<1>3. ASSUME NEW p \in Proc, SemBlock(p) \/ ReadLastSend(p) \/ AcquireReturn(p) \/ Stamp(p)
      PROVE  (r \in sem[t] <=> pc[r] \in InSem /\ slot[r] = t)'
      BY <1>3 DEF SemBlock, ReadLastSend, AcquireReturn, Stamp
<1>4. ASSUME NEW p \in Proc, SemLeave(p)
      PROVE  (r \in sem[t] <=> pc[r] \in InSem /\ slot[r] = t)'
      BY <1>4 DEF SemLeave
<1>5. ASSUME NEW p \in Proc, SemHandOff(p)
      PROVE  (r \in sem[t] <=> pc[r] \in InSem /\ slot[r] = t)'
  <2> DEFINE q == Head(queue[slot[p]])
  <2>1. slot[p] \in Slot
        BY <1>5 DEF SemHandOff, SlotsAgree
  <2>2. q \in Proc /\ pc[q] = "blocked" /\ slot[q] = slot[p]
        BY <1>5, <2>1 DEF SemHandOff, QueueAgrees
  <2> HIDE DEF q
  <2>3. /\ sem' = [sem EXCEPT ![slot[p]] = (@ \ {p}) \cup {q}]
        /\ pc' = [pc EXCEPT ![p] = "idle", ![q] = "admitted"]
        /\ slot' = [slot EXCEPT ![p] = NoSlot]
        /\ pc[p] = "stamped"
        BY <1>5 DEF SemHandOff, q
  <2> QED  BY <2>1, <2>2, <2>3, NoSlotFresh DEF Slot
<1>6. CASE Tick \/ UNCHANGED vars
      BY <1>6 DEF Tick, vars
<1> QED  BY <1>1, <1>2, <1>3, <1>4, <1>5, <1>6 DEF Next, Step

\* Every step keeps a slot's tokens within the channel's capacity.
LEMMA SemCapStep == SemInv /\ [Next]_vars => SemCap'
<1> SUFFICES ASSUME SemInv, [Next]_vars, NEW t \in Slot
             PROVE  Cardinality(sem'[t]) <= MaxConcurrent
    BY DEF SemCap
<1>0. /\ sem \in [Slot -> SUBSET Proc]
      /\ sem[t] \in SUBSET Proc
      /\ Cardinality(sem[t]) \in Nat
      /\ Cardinality(sem[t]) <= MaxConcurrent
      BY ProcSets DEF SemInv, TypeOK, SemCap
<1>1. ASSUME NEW p \in Proc, SemTake(p)
      PROVE  Cardinality(sem'[t]) <= MaxConcurrent
  <2>1. sem'[t] = sem[t] \/ (HasRoom(t) /\ sem'[t] = sem[t] \cup {p})
        BY <1>0, <1>1 DEF SemTake
  <2>2. /\ Cardinality(sem[t] \cup {p}) \in Nat
        /\ Cardinality(sem[t] \cup {p}) <= Cardinality(sem[t]) + 1
        BY <1>0, ProcCount
  <2> QED  BY <1>0, <2>1, <2>2, MaxConcurrentNat DEF HasRoom
<1>2. ASSUME NEW p \in Proc, SemLeave(p)
      PROVE  Cardinality(sem'[t]) <= MaxConcurrent
  <2>1. sem'[t] = sem[t] \/ sem'[t] = sem[t] \ {p}
        BY <1>0, <1>2 DEF SemLeave
  <2>2. /\ Cardinality(sem[t] \ {p}) \in Nat
        /\ Cardinality(sem[t] \ {p}) <= Cardinality(sem[t])
        BY <1>0, ProcCount
  <2> QED  BY <1>0, <2>1, <2>2, MaxConcurrentNat
<1>3. ASSUME NEW p \in Proc, SemHandOff(p)
      PROVE  Cardinality(sem'[t]) <= MaxConcurrent
  <2> DEFINE q == Head(queue[slot[p]])
  <2>1. sem'[t] = sem[t] \/ (slot[p] = t /\ sem'[t] = (sem[t] \ {p}) \cup {q})
        BY <1>0, <1>3 DEF SemHandOff
  <2>2. slot[p] = t => p \in sem[t]
        BY <1>3 DEF SemHandOff, SemInv, SemAgrees, InSem
  <2> HIDE DEF q
  <2>3. p \in sem[t] => /\ Cardinality((sem[t] \ {p}) \cup {q}) \in Nat
                         /\ Cardinality((sem[t] \ {p}) \cup {q}) <= Cardinality(sem[t])
        BY <1>0, ProcCount
  <2> QED  BY <1>0, <2>1, <2>2, <2>3, MaxConcurrentNat
<1>4. CASE sem' = sem
      BY <1>0, <1>4
<1> QED  BY <1>1, <1>2, <1>3, <1>4
         DEF Next, Step, SlotFor, SemBlock, ReadLastSend, AcquireReturn, Stamp, Tick, vars

\* Every step keeps the queues made of blocked goroutines, each once.
LEMMA QueueStep == SemInv /\ [Next]_vars => QueueAgrees'
<1> SUFFICES ASSUME SemInv, [Next]_vars
             PROVE  QueueAgrees'
    OBVIOUS
<1>0. /\ pc \in [Proc -> PC] /\ slot \in [Proc -> Slot \cup {NoSlot}]
      /\ queue \in [Slot -> Seq(Proc)]
      /\ SlotsAgree /\ QueueAgrees
      BY DEF SemInv, TypeOK
<1>1. ASSUME UNCHANGED queue,
             \A r \in Proc : pc[r] = "blocked" => pc'[r] = pc[r] /\ slot'[r] = slot[r]
      PROVE  QueueAgrees'
  <2> SUFFICES ASSUME NEW u \in Slot
               PROVE  (/\ \A i \in 1..Len(queue[u]) :
                            pc[queue[u][i]] = "blocked" /\ slot[queue[u][i]] = u
                       /\ \A i, j \in 1..Len(queue[u]) :
                            queue[u][i] = queue[u][j] => i = j)'
      BY DEF QueueAgrees
  <2>1. queue'[u] = queue[u]
        BY <1>1
  <2>2. /\ \A i \in 1..Len(queue[u]) :
             queue[u][i] \in Proc /\ pc[queue[u][i]] = "blocked" /\ slot[queue[u][i]] = u
        /\ \A i, j \in 1..Len(queue[u]) : queue[u][i] = queue[u][j] => i = j
        BY <1>0 DEF QueueAgrees
  <2>3. \A i \in 1..Len(queue[u]) :
          pc'[queue[u][i]] = "blocked" /\ slot'[queue[u][i]] = u
    <3> TAKE i \in 1..Len(queue[u])
    <3>1. queue[u][i] \in Proc /\ pc[queue[u][i]] = "blocked" /\ slot[queue[u][i]] = u
          BY <2>2
    <3> QED  BY <1>1, <3>1
  <2> QED  BY <2>1, <2>2, <2>3
<1>2. ASSUME NEW p \in Proc, SemBlock(p)
      PROVE  QueueAgrees'
  <2> SUFFICES ASSUME NEW u \in Slot
               PROVE  (/\ \A i \in 1..Len(queue[u]) :
                            pc[queue[u][i]] = "blocked" /\ slot[queue[u][i]] = u
                       /\ \A i, j \in 1..Len(queue[u]) :
                            queue[u][i] = queue[u][j] => i = j)'
      BY DEF QueueAgrees
  <2>1. /\ queue[u] \in Seq(Proc)
        /\ \A i \in 1..Len(queue[u]) :
             queue[u][i] \in Proc /\ pc[queue[u][i]] = "blocked" /\ slot[queue[u][i]] = u
        /\ \A i, j \in 1..Len(queue[u]) : queue[u][i] = queue[u][j] => i = j
        BY <1>0 DEF QueueAgrees
  <2>2. pc[p] = "enter" /\ pc' = [pc EXCEPT ![p] = "blocked"] /\ slot' = slot
        BY <1>2 DEF SemBlock
  <2>3. CASE u = slot[p]
    <3>1. queue'[u] = Append(queue[u], p)
          BY <1>0, <1>2, <2>3 DEF SemBlock
    <3> QED  BY <1>0, <2>1, <2>2, <2>3, <3>1
  <2>4. CASE u # slot[p]
    <3>1. queue'[u] = queue[u]
          BY <1>0, <1>2, <2>4 DEF SemBlock
    <3> QED  BY <1>0, <2>1, <2>2, <3>1
  <2> QED  BY <2>3, <2>4
<1>3. ASSUME NEW p \in Proc, SemHandOff(p)
      PROVE  QueueAgrees'
  <2> SUFFICES ASSUME NEW u \in Slot
               PROVE  (/\ \A i \in 1..Len(queue[u]) :
                            pc[queue[u][i]] = "blocked" /\ slot[queue[u][i]] = u
                       /\ \A i, j \in 1..Len(queue[u]) :
                            queue[u][i] = queue[u][j] => i = j)'
      BY DEF QueueAgrees
  <2> DEFINE q == Head(queue[slot[p]])
  <2>0. slot[p] \in Slot /\ queue[slot[p]] # <<>> /\ queue[slot[p]] \in Seq(Proc)
        BY <1>0, <1>3 DEF SemHandOff, SlotsAgree
  <2>1. /\ queue[u] \in Seq(Proc)
        /\ \A i \in 1..Len(queue[u]) :
             queue[u][i] \in Proc /\ pc[queue[u][i]] = "blocked" /\ slot[queue[u][i]] = u
        /\ \A i, j \in 1..Len(queue[u]) : queue[u][i] = queue[u][j] => i = j
        BY <1>0 DEF QueueAgrees
  <2>2. q = queue[slot[p]][1] /\ q \in Proc /\ pc[q] = "blocked" /\ slot[q] = slot[p]
        BY <1>0, <2>0 DEF QueueAgrees
  <2>3. /\ pc[p] = "stamped"
        /\ pc' = [pc EXCEPT ![p] = "idle", ![q] = "admitted"]
        /\ slot' = [slot EXCEPT ![p] = NoSlot]
        BY <1>3 DEF SemHandOff
  <2> HIDE DEF q
  <2>4. CASE u = slot[p]
    <3>1. queue'[u] = Tail(queue[u])
          BY <1>0, <1>3, <2>4 DEF SemHandOff
    <3>2. /\ Len(Tail(queue[u])) = Len(queue[u]) - 1
          /\ \A i \in 1..Len(Tail(queue[u])) : Tail(queue[u])[i] = queue[u][i+1]
          BY <2>0, <2>1, <2>4
    <3>3. /\ Len(queue'[u]) = Len(queue[u]) - 1
          /\ \A i \in 1..Len(queue'[u]) :
               queue'[u][i] = queue[u][i+1] /\ i+1 \in 1..Len(queue[u]) /\ i+1 # 1
          BY <2>1, <3>1, <3>2
    <3>4. \A i \in 1..Len(queue'[u]) : queue'[u][i] # q
      <4> TAKE i \in 1..Len(queue'[u])
      <4>1. i+1 \in 1..Len(queue[u]) /\ 1 \in 1..Len(queue[u]) /\ i+1 # 1
            BY <3>3
      <4>2. queue[u][i+1] # queue[u][1]
            BY <2>1, <4>1
      <4> QED  BY <2>2, <2>4, <3>3, <4>2
    <3>5. \A i \in 1..Len(queue'[u]) :
            pc'[queue'[u][i]] = "blocked" /\ slot'[queue'[u][i]] = u
      <4> TAKE i \in 1..Len(queue'[u])
      <4>1. i+1 \in 1..Len(queue[u]) /\ queue'[u][i] = queue[u][i+1] /\ queue'[u][i] # q
            BY <3>3, <3>4
      <4>2. /\ queue[u][i+1] \in Proc
            /\ pc[queue[u][i+1]] = "blocked"
            /\ slot[queue[u][i+1]] = u
            BY <2>1, <4>1
      <4> QED  BY <1>0, <2>2, <2>3, <4>1, <4>2
    <3>6. \A i, j \in 1..Len(queue'[u]) : queue'[u][i] = queue'[u][j] => i = j
      <4> TAKE i, j \in 1..Len(queue'[u])
      <4>1. /\ i+1 \in 1..Len(queue[u]) /\ queue'[u][i] = queue[u][i+1]
            /\ j+1 \in 1..Len(queue[u]) /\ queue'[u][j] = queue[u][j+1]
            BY <3>3
      <4>2. queue[u][i+1] = queue[u][j+1] => i+1 = j+1
            BY <2>1, <4>1
      <4> QED  BY <4>1, <4>2
    <3> QED  BY <3>5, <3>6
  <2>5. CASE u # slot[p]
    <3>1. queue'[u] = queue[u]
          BY <1>0, <1>3, <2>5 DEF SemHandOff
    <3>2. \A i \in 1..Len(queue[u]) :
            pc'[queue[u][i]] = "blocked" /\ slot'[queue[u][i]] = u
      <4> TAKE i \in 1..Len(queue[u])
      <4>1. queue[u][i] \in Proc /\ pc[queue[u][i]] = "blocked" /\ slot[queue[u][i]] = u
            BY <2>1
      <4>2. queue[u][i] # p /\ queue[u][i] # q
            BY <2>2, <2>3, <2>5, <4>1
      <4> QED  BY <1>0, <2>3, <4>1, <4>2
    <3> QED  BY <2>1, <3>1, <3>2
  <2> QED  BY <2>4, <2>5
<1>4. ASSUME NEW p \in Proc, SemLeave(p)
      PROVE  QueueAgrees'
  <2>1. UNCHANGED queue
        BY <1>4 DEF SemLeave
  <2>2. \A r \in Proc : pc[r] = "blocked" => pc'[r] = pc[r] /\ slot'[r] = slot[r]
        BY <1>0, <1>4 DEF SemLeave
  <2> QED  BY <1>1, <2>1, <2>2
<1>5. ASSUME NEW p \in Proc, NEW h \in Host, SlotFor(p, h)
      PROVE  QueueAgrees'
  <2>1. UNCHANGED queue
        BY <1>5 DEF SlotFor
  <2>2. \A r \in Proc : pc[r] = "blocked" => pc'[r] = pc[r] /\ slot'[r] = slot[r]
        BY <1>0, <1>5 DEF SlotFor
  <2> QED  BY <1>1, <2>1, <2>2
<1>6. ASSUME NEW p \in Proc, SemTake(p) \/ ReadLastSend(p) \/ AcquireReturn(p) \/ Stamp(p)
      PROVE  QueueAgrees'
  <2>1. UNCHANGED queue
        BY <1>6 DEF SemTake, ReadLastSend, AcquireReturn, Stamp
  <2>2. \A r \in Proc : pc[r] = "blocked" => pc'[r] = pc[r] /\ slot'[r] = slot[r]
        BY <1>0, <1>6 DEF SemTake, ReadLastSend, AcquireReturn, Stamp
  <2> QED  BY <1>1, <2>1, <2>2
<1>7. CASE Tick \/ UNCHANGED vars
      BY <1>1, <1>7 DEF Tick, vars
<1> QED  BY <1>2, <1>3, <1>4, <1>5, <1>6, <1>7 DEF Next, Step

\* Every step keeps the early acquisitions of a slot below the capacity.
LEMMA EarlyStep == IInv /\ [Next]_vars => EarlyBound'
<1> SUFFICES ASSUME IInv, [Next]_vars, NEW t \in Slot
             PROVE  LET n == burst'[t] + Cardinality(Early(t)') IN n > 0 => n < MaxConcurrent
    BY DEF EarlyBound
<1>0. TypeOK /\ TypeOK' /\ SlotsAgree /\ SemAgrees /\ SemCap
      BY TypeStep DEF IInv, SemInv
<1> USE DelayNat
<1>1. /\ Early(t) \in SUBSET Proc /\ Cardinality(Early(t)) \in Nat
      /\ Early(t)' \in SUBSET Proc /\ Cardinality(Early(t)') \in Nat
      /\ burst[t] \in Nat /\ burst'[t] \in Nat
      /\ burst[t] + Cardinality(Early(t)) > 0 =>
           burst[t] + Cardinality(Early(t)) < MaxConcurrent
  <2>1. Early(t) \in SUBSET Proc /\ Early(t)' \in SUBSET Proc
        BY DEF Early
  <2> QED  BY <1>0, <2>1, ProcSets DEF TypeOK, IInv, EarlyBound
\* It is enough that the sum does not grow, which it does only in Stamp.
<1>2. ASSUME burst'[t] + Cardinality(Early(t)') <= burst[t] + Cardinality(Early(t))
      PROVE  LET n == burst'[t] + Cardinality(Early(t)') IN n > 0 => n < MaxConcurrent
      BY <1>1, <1>2, MaxConcurrentNat
<1>3. ASSUME burst'[t] = burst[t], Early(t)' \subseteq Early(t)
      PROVE  burst'[t] + Cardinality(Early(t)') <= burst[t] + Cardinality(Early(t))
  <2>1. Cardinality(Early(t)') <= Cardinality(Early(t))
        BY <1>1, <1>3, ProcSets
  <2> QED  BY <1>1, <1>3, <2>1
<1>4. ASSUME NEW p \in Proc, NEW h \in Host, SlotFor(p, h)
      PROVE  burst' = burst /\ Early(t)' \subseteq Early(t)
      BY <1>0, <1>4 DEF SlotFor, Early, TypeOK
<1>5. ASSUME NEW p \in Proc, SemTake(p) \/ SemBlock(p) \/ SemLeave(p)
      PROVE  burst' = burst /\ Early(t)' \subseteq Early(t)
      BY <1>0, <1>5 DEF SemTake, SemBlock, SemLeave, Early, TypeOK
<1>6. ASSUME NEW p \in Proc, SemHandOff(p)
      PROVE  burst' = burst /\ Early(t)' \subseteq Early(t)
  <2> DEFINE q == Head(queue[slot[p]])
  <2>1. /\ pc' = [pc EXCEPT ![p] = "idle", ![q] = "admitted"]
        /\ slot' = [slot EXCEPT ![p] = NoSlot]
        /\ UNCHANGED <<since, wait, burst>>
        BY <1>6 DEF SemHandOff
  <2> HIDE DEF q
  <2> QED  BY <1>0, <2>1 DEF Early, TypeOK
<1>7. ASSUME NEW p \in Proc, ReadLastSend(p)
      PROVE  burst' = burst /\ Early(t)' \subseteq Early(t)
  <2>1. slot[p] \in Slot
        BY <1>0, <1>7 DEF ReadLastSend, SlotsAgree, TypeOK
  <2>2. \A d \in Delays(slot[p]) : d + since[slot[p]] >= MinDelay
        BY <1>0, <2>1 DEF Delays, TypeOK
  <2>3. wait'[p] + since[slot[p]] >= MinDelay
        BY <1>0, <1>7, <2>2 DEF ReadLastSend, TypeOK
  <2>4. /\ UNCHANGED <<slot, since, burst>>
        /\ \A r \in Proc : r # p => wait'[r] = wait[r] /\ pc'[r] = pc[r]
        BY <1>0, <1>7 DEF ReadLastSend, TypeOK
  <2>5. ASSUME NEW r \in Early(t)'
        PROVE  r \in Early(t)
    <3>1. r # p
          BY <1>0, <2>1, <2>3, <2>4, <2>5 DEF Early, TypeOK
    <3> QED  BY <2>4, <2>5, <3>1 DEF Early
  <2> QED  BY <2>4, <2>5
<1>8. ASSUME NEW p \in Proc, AcquireReturn(p)
      PROVE  burst'[t] + Cardinality(Early(t)') <= burst[t] + Cardinality(Early(t))
  <2>1. CASE slot[p] = t /\ since[t] < MinDelay
    <3>1. p \in Early(t)
          BY <1>0, <1>8, <2>1 DEF AcquireReturn, Early, TypeOK
    <3>2. Early(t)' = Early(t) \ {p}
          BY <1>0, <1>8, <2>1 DEF AcquireReturn, Early, TypeOK
    <3>3. burst'[t] = burst[t] + 1
          BY <1>0, <1>8, <2>1 DEF AcquireReturn, TypeOK
    <3>4. Cardinality(Early(t) \ {p}) = Cardinality(Early(t)) - 1
          BY <1>1, <3>1, ProcCount
    <3> QED  BY <1>1, <3>2, <3>3, <3>4
  <2>2. CASE ~(slot[p] = t /\ since[t] < MinDelay)
    <3>1. burst'[t] = burst[t]
          BY <1>0, <1>8, <2>2 DEF AcquireReturn, TypeOK
    <3>2. Early(t)' \subseteq Early(t)
          BY <1>0, <1>8 DEF AcquireReturn, Early, TypeOK
    <3> QED  BY <1>3, <3>1, <3>2
  <2> QED  BY <2>1, <2>2
<1>9. ASSUME NEW p \in Proc, Stamp(p)
      PROVE  LET n == burst'[t] + Cardinality(Early(t)') IN n > 0 => n < MaxConcurrent
  <2>1. CASE slot[p] = t
    <3>1. burst'[t] = 0
          BY <1>0, <1>9, <2>1 DEF Stamp, TypeOK
    <3>2. p \in sem[t] /\ sem[t] \in SUBSET Proc /\ Cardinality(sem[t]) <= MaxConcurrent
          BY <1>0, <1>9, <2>1 DEF Stamp, SemAgrees, SemCap, InSem, TypeOK
    <3>3. Early(t)' \subseteq sem[t] \ {p}
          BY <1>0, <1>9, <2>1 DEF Stamp, Early, SemAgrees, InSem, TypeOK
    <3>4. /\ Cardinality(sem[t] \ {p}) = Cardinality(sem[t]) - 1
          /\ Cardinality(sem[t]) \in Nat
          BY <3>2, ProcCount, ProcSets
    <3>5. sem[t] \ {p} \in SUBSET Proc
          BY <3>2
    <3>6. Cardinality(Early(t)') <= Cardinality(sem[t] \ {p})
          BY <3>3, <3>5, ProcSets
    <3> QED  BY <1>1, <3>1, <3>2, <3>4, <3>6, MaxConcurrentNat
  <2>2. CASE slot[p] # t
    <3>1. burst'[t] = burst[t]
          BY <1>0, <1>9, <2>2 DEF Stamp, TypeOK
    <3>2. Early(t)' \subseteq Early(t)
          BY <1>0, <1>9, <2>2 DEF Stamp, Early, TypeOK
    <3> QED  BY <1>2, <1>3, <3>1, <3>2
  <2> QED  BY <2>1, <2>2
<1>10. CASE Tick
  <2>1. burst' = burst
        BY <1>10 DEF Tick
  <2>2. ASSUME NEW r \in Early(t)'
        PROVE  r \in Early(t)
    <3>1. /\ r \in Proc /\ pc[r] = "delay" /\ slot[r] = t
          /\ wait'[r] + since'[t] < MinDelay
          BY <1>10, <2>2 DEF Tick, Early
    <3>2. /\ since'[t] = IF since[t] < MinDelay THEN since[t] + 1 ELSE since[t]
          /\ wait'[r] = IF wait[r] > 0 THEN wait[r] - 1 ELSE 0
          /\ since[t] \in 0..MinDelay /\ wait[r] \in Nat
          BY <1>0, <1>10, <3>1 DEF Tick, TypeOK
    <3>3. wait[r] + since[t] < MinDelay
          BY <3>1, <3>2
    <3> QED  BY <3>1, <3>3 DEF Early
  <2> QED  BY <1>2, <1>3, <2>1, <2>2
<1>11. CASE UNCHANGED vars
  <2>1. burst' = burst /\ Early(t)' = Early(t)
        BY <1>11 DEF vars, Early
  <2> QED  BY <1>2, <1>3, <2>1
<1> QED  BY <1>2, <1>3, <1>4, <1>5, <1>6, <1>7, <1>8, <1>9, <1>10, <1>11 DEF Next, Step

\* The inductive invariant holds in the initial state.
LEMMA InitIInv == Init => IInv
<1> SUFFICES ASSUME Init
             PROVE  IInv
    OBVIOUS
<1>1. TypeOK
      BY DelayNat DEF Init, TypeOK, PC
<1>2. SlotsAgree /\ QueueAgrees
      BY DEF Init, SlotsAgree, QueueAgrees
<1>3. SemAgrees
      BY DEF Init, SemAgrees, InSem
<1>4. SemCap
      BY FS_EmptySet, MaxConcurrentNat DEF Init, SemCap
<1>5. EarlyBound
  <2> SUFFICES ASSUME NEW s \in Slot
               PROVE  burst[s] + Cardinality(Early(s)) = 0
      BY DEF EarlyBound
  <2>1. Early(s) = {}
        BY DEF Init, Early
  <2> QED  BY <2>1, FS_EmptySet DEF Init
<1> QED  BY <1>1, <1>2, <1>3, <1>4, <1>5 DEF IInv, SemInv

\* The inductive invariant is kept by every step.
LEMMA NextIInv == IInv /\ [Next]_vars => IInv'
BY TypeStep, SlotsStep, SemAgreesStep, SemCapStep, QueueStep, EarlyStep DEF IInv, SemInv

\* The inductive invariant always holds.
THEOREM Invariance == Spec => []IInv
BY InitIInv, NextIInv, PTL DEF Spec

\* The limiter's state stays in its types.
THEOREM TypeCorrect == Spec => []TypeOK
<1>1. IInv => TypeOK
      BY DEF IInv, SemInv
<1> QED  BY <1>1, Invariance, PTL

\* At most MaxConcurrent goroutines crawl one host at a time: they all hold a
\* token of the one slot stored for the host.
THEOREM ConcurrencyCapped == Spec => []ConcurrencyCap
<1>1. ASSUME IInv, NEW h \in Host
      PROVE  Cardinality(InFlight(h)) <= MaxConcurrent
  <2>0. TypeOK /\ SlotsAgree /\ SemAgrees /\ SemCap
        BY <1>1 DEF IInv, SemInv
  <2>1. CASE InFlight(h) = {}
        BY <2>1, FS_EmptySet, MaxConcurrentNat
  <2>2. CASE InFlight(h) # {}
    <3>1. \A p \in InFlight(h) : p \in Proc /\ slot[p] = limits[h] /\ slot[p] \in Slot
          BY <2>0 DEF InFlight, SlotsAgree, TypeOK, PC
    <3>2. limits[h] \in Slot
          BY <2>2, <3>1
    <3>3. sem[limits[h]] \in SUBSET Proc /\ Cardinality(sem[limits[h]]) <= MaxConcurrent
          BY <2>0, <3>2 DEF TypeOK, SemCap
    <3>4. InFlight(h) \subseteq sem[limits[h]]
          BY <2>0, <3>1, <3>2 DEF InFlight, SemAgrees, InSem
    <3>5. Cardinality(InFlight(h)) <= Cardinality(sem[limits[h]])
          BY <3>3, <3>4, ProcSets
    <3>6. Cardinality(InFlight(h)) \in Nat /\ Cardinality(sem[limits[h]]) \in Nat
          BY <3>3, <3>4, ProcSets
    <3> QED  BY <3>3, <3>5, <3>6, MaxConcurrentNat
  <2> QED  BY <2>1, <2>2
<1>2. IInv => ConcurrencyCap
      BY <1>1 DEF ConcurrencyCap
<1> QED  BY <1>2, Invariance, PTL

\* Fewer than MaxConcurrent acquisitions complete within minDelay of the last
\* release of their host.
THEOREM BurstBounded == Spec => []BurstBound
<1>1. ASSUME IInv, NEW s \in Slot, burst[s] > 0
      PROVE  burst[s] < MaxConcurrent
  <2>1. Early(s) \in SUBSET Proc
        BY DEF Early
  <2>2. Cardinality(Early(s)) \in Nat
        BY <2>1, ProcSets
  <2>3. burst[s] \in Nat
        BY <1>1 DEF IInv, SemInv, TypeOK
  <2>4. burst[s] + Cardinality(Early(s)) > 0 =>
          burst[s] + Cardinality(Early(s)) < MaxConcurrent
        BY <1>1 DEF IInv, EarlyBound
  <2> QED  BY <1>1, <2>2, <2>3, <2>4, MaxConcurrentNat
<1>2. IInv => BurstBound
      BY <1>1 DEF BurstBound
<1> QED  BY <1>2, Invariance, PTL

\* With one request per host at a time, the documented delay is kept: no
\* acquisition completes within minDelay of the last release.
THEOREM MinDelayKept == MaxConcurrent = 1 => (Spec => []MinDelayElapsed)
<1> SUFFICES ASSUME MaxConcurrent = 1
             PROVE  Spec => []MinDelayElapsed
    OBVIOUS
<1>1. ASSUME TypeOK, BurstBound, NEW s \in Slot
      PROVE  burst[s] = 0
  <2>1. burst[s] \in Nat
        BY <1>1 DEF TypeOK
  <2> QED  BY <1>1, <2>1 DEF BurstBound
<1>2. TypeOK /\ BurstBound => MinDelayElapsed
      BY <1>1 DEF MinDelayElapsed
<1> QED  BY <1>2, TypeCorrect, BurstBounded, PTL

-----------------------------------------------------------------------------
(* The limiter implements HostGate. *)

\* What each state of a goroutine looks like from outside.
LEMMA GateView ==
  ASSUME TypeOK, NEW p \in Proc
  PROVE  /\ pc[p] = "idle" => GatePhase[p] = "idle"
         /\ pc[p] \in {"holding", "stamped"} => GatePhase[p] = "granted"
         /\ pc[p] \in {"enter", "blocked", "admitted", "delay"} => GatePhase[p] = "waiting"
BY DEF TypeOK, PC, GatePhase

\* A goroutine about to return from Acquire leaves room for itself: the ones
\* that crawl its host hold the other tokens of its slot.
LEMMA GateRoom ==
  ASSUME IInv, NEW p \in Proc, pc[p] = "delay"
  PROVE  Cardinality(Gate!Granted(GateWants[p])) < MaxConcurrent
<1> DEFINE s == slot[p]
           h == s[2]
           G == Gate!Granted(GateWants[p])
<1>0. TypeOK /\ SlotsAgree /\ SemAgrees /\ SemCap
      BY DEF IInv, SemInv
<1>1. s \in Slot /\ h \in Host /\ GateWants[p] = h /\ s = limits[h] /\ h # NoHost
      BY <1>0, NoSlotFresh, NoHostFresh DEF SlotsAgree, TypeOK, PC, GateWants, Slot
<1>2. \A r \in G : r \in Proc /\ pc[r] \in {"holding", "stamped"} /\ slot[r] = s
  <2> TAKE r \in G
  <2>1. r \in Proc /\ GatePhase[r] = "granted" /\ GateWants[r] = h
        BY <1>1 DEF Gate!Granted
  <2>2. pc[r] \in {"holding", "stamped"}
        BY <1>0, <2>1, GateView DEF TypeOK, PC
  <2>3. slot[r] # NoSlot /\ slot[r][2] = h
        BY <1>1, <2>1 DEF GateWants
  <2> QED  BY <1>0, <1>1, <2>1, <2>2, <2>3 DEF SlotsAgree
<1>3. /\ sem[s] \in SUBSET Proc /\ Cardinality(sem[s]) <= MaxConcurrent
      /\ sem[s] \ {p} \in SUBSET Proc /\ p \in sem[s]
      BY <1>0, <1>1 DEF TypeOK, SemCap, SemAgrees, InSem
<1>4. G \subseteq sem[s] \ {p}
      BY <1>0, <1>1, <1>2 DEF SemAgrees, InSem
<1> HIDE DEF G, s, h
<1>5. Cardinality(G) <= Cardinality(sem[s] \ {p})
      BY <1>3, <1>4, ProcSets
<1>6. G \in SUBSET Proc
      BY <1>3, <1>4
<1>7. Cardinality(G) \in Nat /\ Cardinality(sem[s]) \in Nat
      BY <1>3, <1>6, ProcSets
<1>8. Cardinality(sem[s] \ {p}) = Cardinality(sem[s]) - 1
      BY <1>3, ProcCount
<1>9. Cardinality(G) < MaxConcurrent
      BY <1>3, <1>5, <1>7, <1>8, MaxConcurrentNat
<1> QED  BY <1>9 DEF G

\* The limiter behaves as a HostGate: every step is a HostGate step or is not
\* visible through the mapping.
THEOREM Refinement == Spec => ImplementsGate
<1>1. Init => Gate!GateInit
      BY DEF Init, Gate!GateInit, GatePhase, GateWants
<1>2. IInv /\ TypeOK' /\ [Next]_vars => [Gate!GateNext]_(Gate!gateVars)
  <2> SUFFICES ASSUME IInv, TypeOK', [Next]_vars
               PROVE  [Gate!GateNext]_(Gate!gateVars)
      OBVIOUS
  <2>0. TypeOK /\ SlotsAgree
        BY DEF IInv, SemInv
  <2>1. ASSUME NEW p \in Proc, NEW h \in Host, SlotFor(p, h)
        PROVE  Gate!Ask(p, h)
    <3>1. pc[p] = "idle" /\ pc' = [pc EXCEPT ![p] = "enter"]
          BY <2>1 DEF SlotFor
    <3>2. LoadOrStore(p, h) \in Slot /\ LoadOrStore(p, h)[2] = h
          BY <2>0 DEF LoadOrStore, SlotsAgree, TypeOK, Slot
    <3>3. slot' = [slot EXCEPT ![p] = LoadOrStore(p, h)]
          BY <2>1 DEF SlotFor
    <3>4. GatePhase[p] = "idle" /\ GatePhase' = [GatePhase EXCEPT ![p] = "waiting"]
          BY <2>0, <3>1 DEF GatePhase, TypeOK
    <3>5. GateWants' = [GateWants EXCEPT ![p] = h]
          BY <2>0, <3>2, <3>3, NoSlotFresh DEF GateWants, TypeOK, Slot
    <3> QED  BY <3>4, <3>5 DEF Gate!Ask
  <2>2. ASSUME NEW p \in Proc, SemTake(p) \/ SemBlock(p) \/ ReadLastSend(p) \/ Stamp(p)
        PROVE  UNCHANGED <<GatePhase, GateWants>>
    <3>1. slot' = slot
          BY <2>2 DEF SemTake, SemBlock, ReadLastSend, Stamp
    <3>2. GatePhase' = GatePhase
          BY <2>0, <2>2 DEF SemTake, SemBlock, ReadLastSend, Stamp, GatePhase, TypeOK
    <3> QED  BY <3>1, <3>2 DEF GateWants
  <2>3. ASSUME NEW p \in Proc, AcquireReturn(p)
        PROVE  Gate!Grant(p)
    <3>1. /\ pc[p] = "delay" /\ pc' = [pc EXCEPT ![p] = "holding"]
          /\ slot' = slot
          BY <2>3 DEF AcquireReturn
    <3>2. Cardinality(Gate!Granted(GateWants[p])) < MaxConcurrent
          BY <3>1, GateRoom
    <3>3. GatePhase[p] = "waiting" /\ GatePhase' = [GatePhase EXCEPT ![p] = "granted"]
          BY <2>0, <3>1 DEF GatePhase, TypeOK
    <3>4. GateWants' = GateWants
          BY <3>1 DEF GateWants
    <3>5. Gate!Cardinality(Gate!Granted(GateWants[p])) < MaxConcurrent
          BY ONLY <3>2, Zenon DEF Cardinality, Gate!Cardinality
    <3> QED  BY ONLY <3>3, <3>4, <3>5, Zenon DEF Gate!Grant
  <2>4. ASSUME NEW p \in Proc, SemLeave(p) \/ SemHandOff(p)
        PROVE  Gate!GiveBack(p)
    <3>1. pc[p] = "stamped" /\ slot' = [slot EXCEPT ![p] = NoSlot]
          BY <2>4 DEF SemLeave, SemHandOff
    <3>2. GateWants' = [GateWants EXCEPT ![p] = NoHost]
          BY <2>0, <3>1 DEF GateWants, TypeOK
    <3>3. GatePhase' = [GatePhase EXCEPT ![p] = "idle"]
      <4>1. CASE SemLeave(p)
            BY <2>0, <3>1, <4>1 DEF SemLeave, GatePhase, TypeOK
      <4>2. CASE SemHandOff(p)
        <5> DEFINE q == Head(queue[slot[p]])
        <5>1. slot[p] \in Slot /\ queue[slot[p]] # <<>>
              BY <2>0, <3>1, <4>2 DEF SemHandOff, SlotsAgree, TypeOK
        <5>2. q \in Proc /\ pc[q] = "blocked"
          <6>1. queue[slot[p]] \in Seq(Proc)
                BY <2>0, <5>1 DEF TypeOK
          <6>2. q = queue[slot[p]][1] /\ q \in Proc /\ 1 \in 1..Len(queue[slot[p]])
                BY <5>1, <6>1
          <6> QED  BY <5>1, <6>2 DEF IInv, SemInv, QueueAgrees
        <5>3. pc' = [pc EXCEPT ![p] = "idle", ![q] = "admitted"]
              BY <4>2 DEF SemHandOff
        <5> HIDE DEF q
        <5> QED  BY <2>0, <3>1, <5>2, <5>3 DEF GatePhase, TypeOK
      <4> QED  BY <2>4, <4>1, <4>2
    <3>4. GatePhase[p] = "granted"
          BY <2>0, <3>1 DEF GatePhase
    <3> QED  BY <3>2, <3>3, <3>4 DEF Gate!GiveBack
  <2>5. CASE Tick \/ UNCHANGED vars
        BY <2>5 DEF Tick, vars, GatePhase, GateWants, Gate!gateVars
  <2> QED  BY <2>1, <2>2, <2>3, <2>4, <2>5 DEF Next, Step, Gate!GateNext, Gate!gateVars
<1>3. IInv => TypeOK
      BY DEF IInv, SemInv
<1> QED  BY <1>1, <1>2, <1>3, Invariance, PTL DEF Spec, ImplementsGate, Gate!GateSpec

=============================================================================
