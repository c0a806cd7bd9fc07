------------------------- MODULE SharedFileProofs --------------------------
(***************************************************************************)
(* Two files that processes share under a lock of their own.               *)
(*                                                                         *)
(* Lease, for any processes, offers, amounts and times: with at most one   *)
(* process that steals, and no holder that stands still, no unexpired      *)
(* lease is lost, and what is leased never exceeds the ceiling.            *)
(*                                                                         *)
(* ActionLog, for any workers, tools and bounds: what can be read of the   *)
(* log verifies, what was answered stays, and no altered document passes a *)
(* published anchor.                                                       *)
(***************************************************************************)
EXTENDS Lease, ActionLog, SumTheorems, SequenceTheorems

-----------------------------------------------------------------------------
(* Leases and time *)

\* Later, fewer leases of the same rows are live.
LEMMA LiveShrinks ==
  ASSUME NEW rows \in SUBSET LeaseRecord, NEW t \in Int, NEW u \in Int, t <= u
  PROVE  Live(rows, u) \subseteq Live(rows, t)
  <1> SUFFICES ASSUME NEW l \in Live(rows, u) PROVE l \in Live(rows, t)
    OBVIOUS
  <1>1. l \in rows /\ u - l.ts < Ttl /\ l.ts \in Nat /\ Ttl \in Nat
    BY TimesAssumption DEF Live, LeaseRecord
  <1> QED BY <1>1 DEF Live

\* Live is a filter: it keeps inclusions and is never larger than its rows.
LEMMA LiveFilters ==
  ASSUME NEW rows, NEW more, NEW t
  PROVE  /\ Live(rows, t) \subseteq rows
         /\ Live(rows \cup more, t) = Live(rows, t) \cup Live(more, t)
         /\ \A S : Live(rows, t) \subseteq S => Live(rows, t) \subseteq Live(S, t)
  BY Zenon DEF Live

\* The lease that answers an offer is a well-formed one.
LEMMA LeasedTyped ==
  ASSUME TypeOK, UpToDate, NEW p \in Process, pc[p] # "idle"
  PROVE  Leased(p) \subseteq LeaseRecord
  <1>1. job[p].offer \in Offer /\ job[p].at \in Nat /\ job[p].read \subseteq LeaseRecord
    BY DEF TypeOK, UpToDate, Job
  <1>2. Asked(p) \in LeaseRecord
    BY <1>1 DEF Asked, LeaseRecord
  <1>3. Held(p) \subseteq LeaseRecord
    BY <1>1 DEF Held
  <1> QED BY <1>2, <1>3, Zenon DEF Leased

-----------------------------------------------------------------------------
(* The initial states and the steps *)

LEMMA LeaseInit == Init => LeaseInvariant
  <1> SUFFICES ASSUME Init PROVE LeaseInvariant
    OBVIOUS
  <1> USE DEF Init
  <1>1. NoJob \in Job
    BY DEF NoJob, Task, Job
  <1>2. TypeOK
    BY <1>1, TimesAssumption DEF TypeOK, Stages
  <1>3. Exclusive
    BY NamesAssumption DEF Exclusive, Holding, NoLock
  <1>4. UpToDate
    BY DEF UpToDate, NoJob, Task
  <1>5. LeaseKept
    BY DEF LeaseKept, Live
  <1> QED BY <1>2, <1>3, <1>4, <1>5 DEF LeaseInvariant

\* A task with typed parts is one a process can have.
LEMMA TaskTyped ==
  ASSUME NEW o \in Offer \cup {NoOffer}, NEW at \in Nat,
         NEW read \in SUBSET LeaseRecord, NEW answer \in SUBSET LeaseRecord
  PROVE  /\ Task(o, at, read, answer) \in Job
         /\ Task(o, at, read, answer).offer = o /\ Task(o, at, read, answer).at = at
         /\ Task(o, at, read, answer).read = read
         /\ Task(o, at, read, answer).answer = answer
  BY DEF Task, Job

\* At most one process holds the lock, and none while one is about to steal.
LEMMA OneHolder ==
  ASSUME LimitedStealing, LeaseInvariant, NEW p \in Process, NEW q \in Process, p # q
  PROVE  /\ ~(Holding(p) /\ Holding(q))
         /\ ~(Holding(p) /\ pc[q] = "steal")
         /\ ~(pc[p] = "steal" /\ pc[q] = "steal")
  BY NamesAssumption DEF LimitedStealing, LeaseInvariant, Exclusive

LEMMA AcceptKeeps ==
  ASSUME LeaseInvariant, NEW p \in Process, NEW o \in Offer, Accept(p, o)
  PROVE  LeaseInvariant'
  <1> USE DEF LeaseInvariant, Accept, Goto
  <1>1. TypeOK'
    BY TaskTyped DEF TypeOK, Stages
  <1>2. Exclusive'
    BY DEF Exclusive, Holding, Locked, TypeOK
  <1>3. UpToDate'
    BY DEF UpToDate, Live, TypeOK, Task
  <1>4. LeaseKept'
    BY DEF LeaseKept, Live
  <1> QED BY <1>1, <1>2, <1>3, <1>4

LEMMA CreateKeeps ==
  ASSUME LeaseInvariant, NEW p \in Process, Create(p)
  PROVE  LeaseInvariant'
  <1> USE DEF LeaseInvariant, Create, Goto
  <1>1. TypeOK'
    BY DEF TypeOK, Stages, Lock
  <1>2. Exclusive'
    BY NamesAssumption DEF Exclusive, Holding, Locked, TypeOK, NoLock
  <1>3. UpToDate'
    BY DEF UpToDate, Live, TypeOK
  <1>4. LeaseKept'
    BY DEF LeaseKept, Live
  <1> QED BY <1>1, <1>2, <1>3, <1>4

\* With limited stealing the lock that looks stale is an orphan's: a live
\* holder's was made at this time.
LEMMA SeeStaleKeeps ==
  ASSUME LimitedStealing, LeaseInvariant, NEW p \in Process, SeeStale(p)
  PROVE  LeaseInvariant'
  <1> USE DEF LeaseInvariant, SeeStale, Goto
  <1>1. TypeOK'
    BY DEF TypeOK, Stages
  <1>2. lock.owner = NoProcess
    <2>1. Prompt /\ p \in Stealing /\ now - lock.at >= Stale
      BY DEF LimitedStealing, LooksStale
    <2>2. ~\E q \in Process : lock.owner = q
      BY <2>1, TimesAssumption DEF Exclusive, TypeOK
    <2> QED BY <2>2 DEF TypeOK, Lock, Locked
  <1>3. Exclusive'
    BY <1>2 DEF Exclusive, Holding, Locked, TypeOK, LooksStale
  <1>4. UpToDate'
    BY DEF UpToDate, Live, TypeOK
  <1>5. LeaseKept'
    BY DEF LeaseKept, Live
  <1> QED BY <1>1, <1>3, <1>4, <1>5

LEMMA StealKeeps ==
  ASSUME LimitedStealing, LeaseInvariant, NEW p \in Process, Steal(p)
  PROVE  LeaseInvariant'
  <1> USE DEF LeaseInvariant, Steal, Goto
  <1>1. TypeOK'
    BY DEF TypeOK, Stages
  <1>2. Exclusive'
    <2>1. \A q \in Process : q # p => ~Holding(q) /\ pc[q] # "steal"
      BY OneHolder
    <2> QED BY <2>1, NamesAssumption DEF Exclusive, Holding, TypeOK, NoLock
  <1>3. UpToDate'
    BY DEF UpToDate, Live, TypeOK
  <1>4. LeaseKept'
    BY DEF LeaseKept, Live
  <1> QED BY <1>1, <1>2, <1>3, <1>4

LEMMA GiveUpKeeps ==
  ASSUME LeaseInvariant, NEW p \in Process, GiveUp(p)
  PROVE  LeaseInvariant'
  <1> USE DEF LeaseInvariant, GiveUp, Leave, Goto, NoJob
  <1>1. TypeOK'
    BY TaskTyped DEF TypeOK, Stages
  <1>2. Exclusive'
    BY DEF Exclusive, Holding, Locked, TypeOK
  <1>3. UpToDate'
    BY DEF UpToDate, Live, TypeOK, Task
  <1>4. LeaseKept'
    BY DEF LeaseKept, Live
  <1> QED BY <1>1, <1>2, <1>3, <1>4

-----------------------------------------------------------------------------
(* Steps of the holder *)

\* What is read covers what is live now, although it is pruned by an older time.
LEMMA ReadKeeps ==
  ASSUME LeaseInvariant, NEW p \in Process, Read(p)
  PROVE  LeaseInvariant'
  <1> USE DEF LeaseInvariant, Read, Goto
  <1>1. /\ job[p].offer \in Offer /\ job[p].at \in Nat /\ job[p].at <= now
        /\ now \in Nat /\ leases \in SUBSET LeaseRecord
    BY DEF TypeOK, UpToDate, Job
  <1>2. Live(leases, job[p].at) \in SUBSET LeaseRecord
    BY <1>1, LiveFilters
  <1>3. TypeOK'
    BY <1>1, <1>2, TaskTyped DEF TypeOK, Stages
  <1>4. Exclusive'
    BY DEF Exclusive, Holding, Locked, TypeOK
  <1>5. UpToDate'
    <2>1. Live(leases, now) \subseteq Live(leases, job[p].at)
      BY <1>1, LiveShrinks
    <2>2. job'[p].offer = job[p].offer /\ job'[p].at = job[p].at
          /\ job'[p].read = Live(leases, job[p].at)
      BY <1>1, <1>2, TaskTyped DEF TypeOK
    <2>3. pc'[p] = "write" /\ \A q \in Process : q # p => pc'[q] = pc[q] /\ job'[q] = job[q]
      BY DEF TypeOK
    <2>4. leases' = leases /\ now' = now
      OBVIOUS
    <2> QED BY <1>1, <2>1, <2>2, <2>3, <2>4 DEF UpToDate, Live
  <1>6. LeaseKept'
    BY DEF LeaseKept, Live
  <1> QED BY <1>3, <1>4, <1>5, <1>6

\* The file is replaced by what was read, which lacks no live lease, and the answer.
LEMMA WriteKeeps ==
  ASSUME LimitedStealing, LeaseInvariant, NEW p \in Process, Write(p)
  PROVE  LeaseInvariant'
  <1> USE DEF LeaseInvariant
  <1>1. /\ job[p].offer \in Offer /\ job[p].at \in Nat /\ job[p].at <= now
        /\ job[p].read \in SUBSET LeaseRecord /\ Leased(p) \in SUBSET LeaseRecord
    BY LeasedTyped DEF TypeOK, UpToDate, Job, Write
  <1>2. /\ leases' = job[p].read \cup Leased(p) /\ now' = now /\ lock' = lock
        /\ granted' = granted /\ crashes' = crashes
        /\ pc' = [pc EXCEPT ![p] = "unlock"] /\ pc[p] = "write"
        /\ job' = [job EXCEPT ![p] = Task(job[p].offer, job[p].at, {}, Leased(p))]
    BY DEF Write, Goto
  <1>3. TypeOK'
    BY <1>1, <1>2, TaskTyped DEF TypeOK, Stages
  <1>4. Exclusive'
    BY <1>2 DEF Exclusive, Holding, Locked, TypeOK
  <1>5. UpToDate'
    <2>1. \A q \in Process : q # p => ~Holding(q)
      BY <1>2, OneHolder DEF Holding
    <2>2. job'[p].offer = job[p].offer /\ job'[p].at = job[p].at /\ job'[p].answer = Leased(p)
      BY <1>1, <1>2, TaskTyped DEF TypeOK
    <2>3. pc'[p] = "unlock" /\ \A q \in Process : q # p => pc'[q] = pc[q] /\ job'[q] = job[q]
      BY <1>2 DEF TypeOK
    <2>4. Live(Leased(p), now) \subseteq leases'
      BY <1>2, LiveFilters
    <2> QED BY <1>1, <1>2, <2>1, <2>2, <2>3, <2>4 DEF UpToDate, Holding, Live
  <1>6. LeaseKept'
    <2>1. Live(granted, now) \subseteq leases /\ Live(leases, now) \subseteq job[p].read
      BY <1>2 DEF LeaseKept, UpToDate
    <2>2. Live(granted, now) \subseteq Live(leases, now)
      BY <2>1, LiveFilters
    <2> QED BY <1>2, <2>1, <2>2, Zenon DEF LeaseKept, Live
  <1> QED BY <1>3, <1>4, <1>5, <1>6

LEMMA FailKeeps ==
  ASSUME LeaseInvariant, NEW p \in Process, Fail(p)
  PROVE  LeaseInvariant'
  <1> USE DEF LeaseInvariant, Fail, Goto
  <1>1. job[p].offer \in Offer /\ job[p].at \in Nat /\ job[p].at <= now
    BY DEF TypeOK, UpToDate, Job
  <1>2. TypeOK'
    BY <1>1, TaskTyped DEF TypeOK, Stages
  <1>3. Exclusive'
    BY DEF Exclusive, Holding, Locked, TypeOK
  <1>4. UpToDate'
    BY <1>1 DEF UpToDate, Live, TypeOK, Task
  <1>5. LeaseKept'
    BY DEF LeaseKept, Live
  <1> QED BY <1>2, <1>3, <1>4, <1>5

\* The grant's lease is in the file when the accept returns.
LEMMA UnlockKeeps ==
  ASSUME LimitedStealing, LeaseInvariant, NEW p \in Process, Unlock(p)
  PROVE  LeaseInvariant'
  <1> USE DEF LeaseInvariant, Unlock, Leave, Goto, NoJob
  <1>1. job[p].answer \in SUBSET LeaseRecord
    BY DEF TypeOK, Job
  <1>2. TypeOK'
    BY <1>1, TaskTyped DEF TypeOK, Stages
  <1>3. Exclusive'
    <2>1. \A q \in Process : q # p => ~Holding(q) /\ pc[q] # "steal"
      BY OneHolder DEF Holding
    <2> QED BY <2>1, NamesAssumption DEF Exclusive, Holding, TypeOK, NoLock
  <1>4. UpToDate'
    BY DEF UpToDate, Live, TypeOK, Task
  <1>5. LeaseKept'
    <2>1. Live(granted \cup job[p].answer, now) = Live(granted, now) \cup Live(job[p].answer, now)
      BY LiveFilters
    <2>2. Live(granted, now) \subseteq leases /\ Live(job[p].answer, now) \subseteq leases
      BY DEF LeaseKept, UpToDate
    <2> QED BY <2>1, <2>2 DEF LeaseKept, Live
  <1> QED BY <1>2, <1>3, <1>4, <1>5

-----------------------------------------------------------------------------
(* Crashes and time *)

LEMMA CrashKeeps ==
  ASSUME LeaseInvariant, NEW p \in Process, Crash(p)
  PROVE  LeaseInvariant'
  <1> USE DEF LeaseInvariant
  <1>1. /\ lock' = [owner |-> NoProcess, at |-> lock.at] \/ (lock' = lock /\ lock.owner # p)
        /\ lock.owner = p \/ lock' = lock
    BY NamesAssumption DEF Crash, TypeOK, Lock, NoLock
  <1>2. /\ pc' = [pc EXCEPT ![p] = "idle"] /\ job' = [job EXCEPT ![p] = NoJob]
        /\ now' = now /\ leases' = leases /\ granted' = granted /\ crashes' = crashes + 1
    BY DEF Crash, Leave, Goto
  <1>3. NoJob \in Job /\ NoJob.at = 0 /\ lock.owner = p => lock.at \in Nat
    BY TaskTyped, NamesAssumption DEF NoJob, TypeOK, Lock, NoLock
  <1>4. TypeOK'
    <2>1. NoJob \in Job
      BY TaskTyped DEF NoJob
    <2>2. lock' \in Lock \cup {NoLock}
      BY <1>1, NamesAssumption DEF TypeOK, Lock, NoLock
    <2> QED BY <1>2, <2>1, <2>2 DEF TypeOK, Stages
  <1>5. Exclusive'
    <2>1. lock.owner # NoProcess => Locked
      BY DEF Locked, NoLock
    <2>2. Locked => Locked'
      BY <1>1, NamesAssumption DEF Locked, TypeOK, Lock, NoLock
    <2> QED BY <1>1, <1>2, <2>2, NamesAssumption DEF Exclusive, Holding, TypeOK
  <1>6. UpToDate'
    BY <1>2 DEF UpToDate, Live, TypeOK, NoJob, Task
  <1>7. LeaseKept'
    BY <1>2 DEF LeaseKept, Live
  <1> QED BY <1>4, <1>5, <1>6, <1>7

LEMMA TickKeeps ==
  ASSUME LeaseInvariant, Tick
  PROVE  LeaseInvariant'
  <1> USE DEF LeaseInvariant, Tick
  <1>1. now \in Nat /\ now' = now + 1 /\ leases \in SUBSET LeaseRecord
        /\ granted \in SUBSET LeaseRecord
        /\ \A p \in Process : job[p].answer \in SUBSET LeaseRecord /\ job[p].at \in Nat
    BY DEF TypeOK, Job
  <1>2. \A rows \in SUBSET LeaseRecord : Live(rows, now') \subseteq Live(rows, now)
    BY <1>1, LiveShrinks
  <1>3. TypeOK'
    BY DEF TypeOK
  <1>4. Exclusive'
    BY DEF Exclusive, Holding, Locked, TypeOK
  <1>5. UpToDate'
    <2>1. \A p \in Process : job[p].at <= now'
      BY <1>1 DEF UpToDate
    <2>2. \A p \in Process : pc[p] = "write" => Live(leases, now') \subseteq job[p].read
      BY <1>1, <1>2 DEF UpToDate
    <2>3. \A p \in Process : pc[p] = "unlock" => Live(job[p].answer, now') \subseteq leases
      BY <1>1, <1>2 DEF UpToDate
    <2>4. leases' = leases /\ pc' = pc /\ job' = job
      OBVIOUS
    <2> QED BY <2>1, <2>2, <2>3, <2>4 DEF UpToDate, Live
  <1>6. LeaseKept'
    <2>1. Live(granted, now') \subseteq leases
      BY <1>1, <1>2 DEF LeaseKept
    <2>2. leases' = leases /\ granted' = granted
      OBVIOUS
    <2> QED BY <2>1, <2>2 DEF LeaseKept, Live
  <1> QED BY <1>3, <1>4, <1>5, <1>6

-----------------------------------------------------------------------------
(* The theorem *)

LEMMA LeaseStep ==
  ASSUME LimitedStealing, LeaseInvariant, [Next]_vars
  PROVE  LeaseInvariant'
  <1>1. CASE UNCHANGED vars
    BY <1>1 DEF vars, LeaseInvariant, TypeOK, Exclusive, Holding, Locked, UpToDate, Live, LeaseKept
  <1>2. ASSUME NEW p \in Process, Step(p) PROVE LeaseInvariant'
    BY <1>2, CreateKeeps, SeeStaleKeeps, StealKeeps, GiveUpKeeps, ReadKeeps, WriteKeeps,
       FailKeeps, UnlockKeeps DEF Step
  <1> QED BY <1>1, <1>2, AcceptKeeps, CrashKeeps, TickKeeps DEF Next

\* Whatever crashes and fails, no unexpired lease an accept was granted on
\* is lost, if at most one process steals and no holder is slow.
THEOREM LeasesAreKept ==
  ASSUME LimitedStealing
  PROVE  Spec => []LeaseKept
  <1>1. LeaseInvariant => LeaseKept
    BY DEF LeaseInvariant
  <1>2. LeaseInvariant /\ [Next]_vars => LeaseInvariant'
    BY LeaseStep
  <1> QED BY <1>1, <1>2, LeaseInit, PTL DEF Spec

-----------------------------------------------------------------------------
(* What is reserved *)

\* Fewer leases reserve no more.
LEMMA FewerReserveLess ==
  ASSUME NEW rows \in SUBSET LeaseRecord, IsFiniteSet(rows), NEW some \in SUBSET rows
  PROVE  /\ IsFiniteSet(some) /\ Reserved(some) \in Nat /\ Reserved(rows) \in Nat
         /\ Reserved(some) <= Reserved(rows)
  <1> DEFINE f == [l \in rows |-> Amount[l.nonce]]
             g == [l \in some |-> Amount[l.nonce]]
  <1>1. IsFiniteSet(some)
    BY FS_Subset
  <1>2. \A l \in rows : f[l] \in Nat
    BY AmountsAssumption DEF LeaseRecord
  <1>3. \A l \in some : f[l] = g[l]
    OBVIOUS
  <1>4. Reserved(rows) = SumFunctionOnSet(f, rows) /\ Reserved(some) = SumFunctionOnSet(g, some)
    BY DEF Reserved
  <1> HIDE DEF f, g
  <1>5. /\ SumFunctionOnSet(f, some) <= SumFunctionOnSet(f, rows)
        /\ SumFunctionOnSet(f, some) \in Nat /\ SumFunctionOnSet(f, rows) \in Nat
    BY <1>2, SumOfPart
  <1>6. SumFunctionOnSet(f, some) = SumFunctionOnSet(g, some)
    BY <1>1, <1>3, SumSame
  <1> QED BY <1>1, <1>4, <1>5, <1>6

\* One more lease reserves at most its amount.
LEMMA OneMoreReserves ==
  ASSUME NEW rows \in SUBSET LeaseRecord, IsFiniteSet(rows), NEW l \in LeaseRecord
  PROVE  /\ IsFiniteSet(rows \cup {l})
         /\ Reserved(rows \cup {l}) <= Reserved(rows) + Amount[l.nonce]
  <1>1. Reserved(rows) \in Nat /\ Amount[l.nonce] \in Nat
    BY FewerReserveLess, AmountsAssumption DEF LeaseRecord
  <1>2. CASE l \in rows
    <2>1. rows \cup {l} = rows
      BY <1>2
    <2>2. Reserved(rows \cup {l}) = Reserved(rows)
      BY <2>1
    <2>3. Reserved(rows) <= Reserved(rows) + Amount[l.nonce]
      BY <1>1
    <2> QED BY <2>1, <2>2, <2>3
  <1>3. CASE l \notin rows
    <2> DEFINE f == [k \in rows |-> Amount[k.nonce]]
               g == [k \in rows \cup {l} |-> Amount[k.nonce]]
    <2>1. /\ Reserved(rows) = SumFunctionOnSet(f, rows)
          /\ Reserved(rows \cup {l}) = SumFunctionOnSet(g, rows \cup {l})
      BY DEF Reserved
    <2>2. \A k \in rows \cup {l} : g[k] \in Int
      BY AmountsAssumption DEF LeaseRecord
    <2>3. g[l] = Amount[l.nonce] /\ \A k \in rows : f[k] = g[k]
      OBVIOUS
    <2> HIDE DEF f, g
    <2>4. /\ SumFunctionOnSet(g, rows \cup {l}) = g[l] + SumFunctionOnSet(g, rows)
          /\ IsFiniteSet(rows \cup {l})
      BY <1>3, <2>2, SumInsert
    <2>5. SumFunctionOnSet(f, rows) = SumFunctionOnSet(g, rows)
      BY <2>3, SumSame
    <2> QED BY <1>1, <2>1, <2>3, <2>4, <2>5
  <1> QED BY <1>2, <1>3

LEMMA ReservedInit == Init => ReservedFits
  <1> SUFFICES ASSUME Init PROVE ReservedFits
    OBVIOUS
  <1>1. IsFiniteSet({}) /\ Reserved({}) = 0
    BY FS_EmptySet, SumEmpty DEF Reserved
  <1>2. leases = {} /\ \A p \in Process : job[p].read = {} /\ pc[p] = "idle"
    BY DEF Init, NoJob, Task
  <1>3. IsFiniteSet(leases) /\ Reserved(leases) <= Ceiling
    BY <1>1, <1>2, AmountsAssumption
  <1>4. \A p \in Process : IsFiniteSet(job[p].read) /\ pc[p] # "write"
    BY <1>1, <1>2
  <1> QED BY <1>3, <1>4 DEF ReservedFits

\* A step that leaves the file alone and reads nothing.
LEMMA ReservedStays ==
  ASSUME LeaseInvariant, ReservedFits, leases' = leases, NEW p \in Process, NEW s, NEW j,
         pc' = [pc EXCEPT ![p] = s], job' = [job EXCEPT ![p] = j], s # "write",
         IsFiniteSet(j.read)
  PROVE  ReservedFits'
  <1>1. /\ pc'[p] = s /\ job'[p] = j
        /\ \A q \in Process : q # p => pc'[q] = pc[q] /\ job'[q] = job[q]
    BY DEF LeaseInvariant, TypeOK
  <1>2. IsFiniteSet(leases') /\ Reserved(leases)' <= Ceiling
    BY DEF ReservedFits, Reserved
  <1>3. ASSUME NEW q \in Process
        PROVE  IsFiniteSet(job'[q].read) /\ (pc'[q] = "write" => Reserved(job'[q].read) <= Ceiling)
    BY <1>1 DEF ReservedFits
  <1> QED BY <1>2, <1>3 DEF ReservedFits, Reserved

\* What is read is part of the file.
LEMMA ReadFits ==
  ASSUME LeaseInvariant, ReservedFits, NEW p \in Process, Read(p)
  PROVE  ReservedFits'
  <1>1. /\ pc' = [pc EXCEPT ![p] = "write"] /\ leases' = leases
        /\ job' = [job EXCEPT ![p] = Task(job[p].offer, job[p].at, Live(leases, job[p].at), {})]
    BY DEF Read, Goto
  <1>2. /\ job'[p].read = Live(leases, job[p].at)
        /\ \A q \in Process : q # p => pc'[q] = pc[q] /\ job'[q] = job[q]
    BY <1>1 DEF LeaseInvariant, TypeOK, Task
  <1>3. leases \in SUBSET LeaseRecord /\ Live(leases, job[p].at) \in SUBSET leases
    BY LiveFilters DEF LeaseInvariant, TypeOK
  <1>4. IsFiniteSet(leases) /\ Reserved(leases) <= Ceiling /\ Ceiling \in Nat
    BY AmountsAssumption DEF ReservedFits
  <1>5. IsFiniteSet(job'[p].read) /\ Reserved(job'[p].read) <= Ceiling
    BY <1>2, <1>3, <1>4, FewerReserveLess
  <1>6. ASSUME NEW q \in Process
        PROVE  IsFiniteSet(job'[q].read) /\ (pc'[q] = "write" => Reserved(job'[q].read) <= Ceiling)
    BY <1>2, <1>5 DEF ReservedFits
  <1> QED BY <1>1, <1>4, <1>6 DEF ReservedFits, Reserved

\* What is written is what was read, and a lease that fits.
LEMMA WriteFits ==
  ASSUME LeaseInvariant, ReservedFits, NEW p \in Process, Write(p)
  PROVE  ReservedFits'
  <1>1. /\ pc[p] = "write" /\ pc' = [pc EXCEPT ![p] = "unlock"]
        /\ leases' = job[p].read \cup Leased(p)
        /\ job' = [job EXCEPT ![p] = Task(job[p].offer, job[p].at, {}, Leased(p))]
    BY DEF Write, Goto
  <1>2. /\ pc'[p] = "unlock" /\ job'[p].read = {}
        /\ \A q \in Process : q # p => pc'[q] = pc[q] /\ job'[q] = job[q]
    BY <1>1 DEF LeaseInvariant, TypeOK, Task
  <1>3. /\ job[p].read \in SUBSET LeaseRecord /\ IsFiniteSet(job[p].read)
        /\ Reserved(job[p].read) <= Ceiling /\ Ceiling \in Nat
    BY <1>1, AmountsAssumption DEF ReservedFits, LeaseInvariant, TypeOK, Job
  <1>4. IsFiniteSet(leases') /\ Reserved(leases') <= Ceiling
    <2>1. CASE Held(p) # {} \/ ~Fits(p)
      <3>1. job[p].read \cup Leased(p) = job[p].read
        BY <2>1 DEF Leased, Held
      <3> QED BY <1>1, <1>3, <3>1
    <2>2. CASE Held(p) = {} /\ Fits(p)
      <3>1. leases' = job[p].read \cup {Asked(p)}
        BY <1>1, <2>2 DEF Leased
      <3>2. Asked(p) \in LeaseRecord /\ Asked(p).nonce = job[p].offer
        BY <1>1 DEF Asked, LeaseRecord, LeaseInvariant, UpToDate, TypeOK, Job
      <3>3. /\ IsFiniteSet(leases')
            /\ Reserved(leases') <= Reserved(job[p].read) + Amount[job[p].offer]
        BY <1>3, <3>1, <3>2, OneMoreReserves
      <3>4. Reserved(leases') \in Nat /\ Reserved(job[p].read) \in Nat /\ Amount[job[p].offer] \in Nat
        <4>1. leases' \in SUBSET LeaseRecord
          BY <1>3, <3>1, <3>2
        <4>2. Amount[job[p].offer] \in Nat
          BY <3>2, AmountsAssumption DEF LeaseRecord
        <4> QED BY <1>3, <3>3, <4>1, <4>2, FewerReserveLess
      <3> QED BY <1>3, <2>2, <3>3, <3>4 DEF Fits
    <2> QED BY <2>1, <2>2
  <1>5. IsFiniteSet({})
    BY FS_EmptySet
  <1>6. ASSUME NEW q \in Process
        PROVE  IsFiniteSet(job'[q].read) /\ (pc'[q] = "write" => Reserved(job'[q].read) <= Ceiling)
    BY <1>2, <1>5 DEF ReservedFits
  <1> QED BY <1>4, <1>6 DEF ReservedFits, Reserved

LEMMA ReservedStep ==
  ASSUME LeaseInvariant, ReservedFits, [Next]_vars
  PROVE  ReservedFits'
  <1>1. NoJob.read = {} /\ IsFiniteSet({})
    BY FS_EmptySet DEF NoJob, Task
  <1>2. CASE Tick \/ UNCHANGED vars
    <2>1. UNCHANGED <<leases, pc, job>>
      BY <1>2 DEF Tick, vars
    <2> QED BY <2>1 DEF ReservedFits, Reserved
  <1>3. ASSUME NEW p \in Process, GiveUp(p) \/ Unlock(p) \/ Crash(p) PROVE ReservedFits'
    <2>1. /\ leases' = leases /\ pc' = [pc EXCEPT ![p] = "idle"]
          /\ job' = [job EXCEPT ![p] = NoJob]
      BY <1>3 DEF GiveUp, Unlock, Crash, Leave, Goto
    <2> QED BY <1>1, <2>1, ReservedStays
  <1>4. ASSUME NEW p \in Process, NEW o \in Offer, Accept(p, o) PROVE ReservedFits'
    <2> DEFINE j == Task(o, now, {}, {})
    <2>1. /\ leases' = leases /\ pc' = [pc EXCEPT ![p] = "lock"]
          /\ job' = [job EXCEPT ![p] = j] /\ j.read = {}
      BY <1>4 DEF Accept, Goto, Task
    <2> HIDE DEF j
    <2> QED BY <1>1, <2>1, ReservedStays
  <1>5. ASSUME NEW p \in Process, Create(p) \/ SeeStale(p) \/ Steal(p) PROVE ReservedFits'
    <2>1. /\ leases' = leases /\ job' = [job EXCEPT ![p] = job[p]]
          /\ \E s \in {"read", "steal", "lock"} : pc' = [pc EXCEPT ![p] = s]
      BY <1>5 DEF Create, SeeStale, Steal, Goto, LeaseInvariant, TypeOK
    <2>2. IsFiniteSet(job[p].read)
      BY DEF ReservedFits
    <2> QED BY <2>1, <2>2, ReservedStays
  <1>6. ASSUME NEW p \in Process, Fail(p) PROVE ReservedFits'
    <2> DEFINE j == Task(job[p].offer, job[p].at, {}, {})
    <2>1. /\ leases' = leases /\ pc' = [pc EXCEPT ![p] = "unlock"]
          /\ job' = [job EXCEPT ![p] = j] /\ j.read = {}
      BY <1>6 DEF Fail, Goto, Task
    <2> HIDE DEF j
    <2> QED BY <1>1, <2>1, ReservedStays
  <1> QED BY <1>2, <1>3, <1>4, <1>5, <1>6, ReadFits, WriteFits DEF Next, Step

\* With at most one process that steals and no slow holder, the unexpired
\* leases that accepts were granted on never exceed the party's ceiling: they
\* are all in the file, and what the file reserves fits, expired or not.
THEOREM LeasesKeepTheCeiling ==
  ASSUME LimitedStealing
  PROVE  Spec => []ActiveWithinCeiling
  <1>1. LeaseInvariant /\ ReservedFits => ActiveWithinCeiling
    <2> SUFFICES ASSUME LeaseInvariant, ReservedFits PROVE ActiveWithinCeiling
      OBVIOUS
    <2>1. leases \in SUBSET LeaseRecord /\ Live(granted, now) \in SUBSET leases
      BY DEF LeaseInvariant, TypeOK, LeaseKept
    <2>2. IsFiniteSet(leases) /\ Reserved(leases) <= Ceiling /\ Ceiling \in Nat
      BY AmountsAssumption DEF ReservedFits
    <2> QED BY <2>1, <2>2, FewerReserveLess DEF ActiveWithinCeiling
  <1>2. LeaseInvariant /\ ReservedFits /\ [Next]_vars => LeaseInvariant' /\ ReservedFits'
    BY LeaseStep, ReservedStep
  <1> QED BY <1>1, <1>2, LeaseInit, ReservedInit, PTL DEF Spec

-----------------------------------------------------------------------------
(* The log of actions *)

Line == [id : Nat, body : Bodies, receipt : Bodies,
         chain : Seq(Bodies)]

\* The lines are what record() makes of their bodies, one after the other.
Chained(lines) ==
  /\ lines \in Seq(Line)
  /\ \A i \in 1..Len(lines) :
       lines[i] = Receipt(i, Prior(lines, i), lines[i].body)

NextLine(lines, b) == Receipt(Len(lines) + 1, Tip(lines), b)

LEMMA TipTyped ==
  ASSUME NEW lines \in Seq(Line)
  PROVE  /\ Tip(lines) \in Seq(Bodies)
         /\ Tip(lines) = IF Len(lines) = 0 THEN << >> ELSE lines[Len(lines)].chain
  <1>1. CASE lines = << >>
    BY <1>1 DEF Tip, GENESIS
  <1>2. CASE lines # << >>
    <2>1. Len(lines) \in 1..Len(lines) /\ lines[Len(lines)] \in Line
      BY <1>2
    <2> QED BY <1>2, <2>1 DEF Tip, Last, Line
  <1> QED BY <1>1, <1>2

LEMMA ReceiptTyped ==
  ASSUME NEW n \in Nat, NEW prev \in Seq(Bodies), NEW b \in Bodies
  PROVE  /\ Receipt(n, prev, b) \in Line
         /\ Receipt(n, prev, b).id = n
         /\ Receipt(n, prev, b).body = b
         /\ Receipt(n, prev, b).receipt = b
         /\ Receipt(n, prev, b).chain = Append(prev, b)
  BY DEF Receipt, ChainHash, Line

LEMMA ChainGrows ==
  ASSUME NEW lines, Chained(lines), NEW b \in Bodies
  PROVE  Chained(Append(lines, NextLine(lines, b)))
  <1> DEFINE r == NextLine(lines, b)
             n == Len(lines)
             more == Append(lines, r)
  <1>1. lines \in Seq(Line) /\ n \in Nat
    BY DEF Chained
  <1>2. r \in Line /\ r.body = b
    BY <1>1, TipTyped, ReceiptTyped DEF NextLine
  <1> HIDE DEF r
  <1>3. /\ more \in Seq(Line) /\ Len(more) = n + 1 /\ more[n + 1] = r
        /\ \A i \in 1..n : more[i] = lines[i]
    BY <1>1, <1>2
  <1>4. \A i \in 1..n : Prior(more, i) = Prior(lines, i)
    BY <1>1, <1>3 DEF Prior
  <1>5. Prior(more, n + 1) = Tip(lines)
    BY <1>1, <1>3, TipTyped DEF Prior, GENESIS
  <1>6. more[n + 1] = Receipt(n + 1, Prior(more, n + 1), more[n + 1].body)
    BY <1>2, <1>3, <1>5 DEF r, NextLine
  <1>7. \A i \in 1..n : more[i] = Receipt(i, Prior(more, i), more[i].body)
    BY <1>3, <1>4 DEF Chained
  <1> HIDE DEF more
  <1> QED BY <1>1, <1>3, <1>6, <1>7 DEF Chained, more, r

LEMMA ChainShortens ==
  ASSUME NEW lines, Chained(lines), NEW n \in 0..Len(lines)
  PROVE  /\ Chained(SubSeq(lines, 1, n)) /\ Len(SubSeq(lines, 1, n)) = n
         /\ \A i \in 1..n : SubSeq(lines, 1, n)[i] = lines[i]
  <1> DEFINE less == SubSeq(lines, 1, n)
  <1>1. lines \in Seq(Line) /\ Len(lines) \in Nat
    BY DEF Chained
  <1>2. less \in Seq(Line) /\ Len(less) = n /\ \A i \in 1..n : less[i] = lines[i]
    BY <1>1
  <1>3. \A i \in 1..n : Prior(less, i) = Prior(lines, i)
    BY <1>1, <1>2 DEF Prior
  <1> HIDE DEF less
  <1>4. \A i \in 1..n : less[i] = Receipt(i, Prior(less, i), less[i].body)
    BY <1>1, <1>2, <1>3 DEF Chained
  <1> QED BY <1>1, <1>2, <1>4 DEF Chained, less

\* The tip of a prefix of a chain.
LEMMA TipOfPrefix ==
  ASSUME NEW lines, Chained(lines), NEW n \in 0..Len(lines)
  PROVE  Tip(SubSeq(lines, 1, n)) = IF n = 0 THEN << >> ELSE lines[n].chain
  <1> DEFINE less == SubSeq(lines, 1, n)
  <1>1. less \in Seq(Line) /\ Len(less) = n /\ \A i \in 1..n : less[i] = lines[i]
    BY ChainShortens DEF Chained
  <1>2. n \in Nat /\ (n = 0 \/ n \in 1..n)
    BY DEF Chained
  <1> HIDE DEF less
  <1>3. Tip(less) = IF n = 0 THEN << >> ELSE lines[n].chain
    BY <1>1, <1>2, TipTyped
  <1> QED BY <1>3 DEF less

-----------------------------------------------------------------------------
(* The invariant *)

\* What a worker inside record() is about to write, or has written.
CallOf(p) ==
  /\ ~At(p, "idle") => holder = p
  /\ At(p, "loaded") =>
       tail = "clean" /\ \E b \in Bodies : call[p].receipt = NextLine(log, b)
  /\ At(p, "written") => log # << >> /\ call[p].receipt = log[Len(log)]

\* What was answered lies in the part of the chain that no power failure takes.
Kept ==
  /\ \A r \in returned : r.count \in 1..synced /\ log[r.count].chain = r.chain
  /\ \A a \in anchors : a.durable =>
       a.count \in 0..synced /\ a.tip = IF a.count = 0 THEN << >> ELSE log[a.count].chain

ActionInvariant ==
  /\ Chained(log) /\ synced \in 0..Len(log)
  /\ DOMAIN call = Worker
  /\ \A p \in Worker : CallOf(p)
  /\ \A a \in anchors : a.count \in Nat
  /\ lost = TRUE \/ Kept

LEMMA InitialActions == ActionInit => ActionInvariant
  <1> SUFFICES ASSUME ActionInit PROVE ActionInvariant
    OBVIOUS
  <1>1. Chained(log) /\ synced \in 0..Len(log)
    BY DEF ActionInit, Chained
  <1>2. DOMAIN call = Worker /\ \A p \in Worker : CallOf(p)
    BY DEF ActionInit, Idle, At, CallOf
  <1> QED BY <1>1, <1>2 DEF ActionInit, ActionInvariant, Kept

\* A call that ends, and the lines stay.
LEMMA CallEnds ==
  ASSUME ActionInvariant, NEW p \in Worker, ~At(p, "idle"),
         call' = [call EXCEPT ![p] = Idle], UNCHANGED log
  PROVE  DOMAIN call' = Worker /\ \A q \in Worker : CallOf(q)'
  <1> SUFFICES ASSUME NEW q \in Worker PROVE DOMAIN call' = Worker /\ CallOf(q)'
    OBVIOUS
  <1>1. \A o \in Worker : call'[o] = IF o = p THEN Idle ELSE call[o]
    BY DEF ActionInvariant
  <1>2. q # p => At(q, "idle")
    BY DEF ActionInvariant, CallOf
  <1> QED BY <1>1, <1>2 DEF ActionInvariant, At, Idle, CallOf

\* The lines and what was answered stay.
LEMMA KeptStays ==
  ASSUME ActionInvariant, UNCHANGED <<log, synced, returned, anchors, lost>>
  PROVE  /\ Chained(log)' /\ (synced \in 0..Len(log))'
         /\ (\A a \in anchors : a.count \in Nat)' /\ (lost = TRUE \/ Kept)'
  BY DEF ActionInvariant, Chained, Kept

LEMMA BeginKeeps ==
  ASSUME ActionInvariant, NEW p \in Worker, NEW b \in Bodies, Begin(p, b)
  PROVE  ActionInvariant'
  <1>1. Created(b) \in Bodies
    BY DEF Created, Bodies
  <1>2. /\ \A q \in Worker : q # p => call'[q] = call[q] /\ At(q, "idle")
        /\ call'[p].at = "loaded" /\ call'[p].receipt = NextLine(log, Created(b))
        /\ DOMAIN call' = Worker
    BY WorkerAssumption DEF ActionInvariant, CallOf, Begin, NextLine
  <1>3. holder' = p /\ tail' = "clean" /\ UNCHANGED <<log, synced, returned, anchors, lost>>
    BY DEF Begin
  <1>4. \A q \in Worker : CallOf(q)'
    <2>1. CallOf(p)'
      BY <1>1, <1>2, <1>3 DEF CallOf, At, NextLine
    <2>2. ASSUME NEW q \in Worker, q # p PROVE CallOf(q)'
      BY <1>2, <2>2 DEF CallOf, At
    <2> QED BY <2>1, <2>2
  <1> QED BY <1>2, <1>3, <1>4, KeptStays DEF ActionInvariant

\* A line is added, and nothing is answered.
LEMMA LineAdded ==
  ASSUME ActionInvariant, NEW p \in Worker, At(p, "loaded"),
         log' = Append(log, call[p].receipt), UNCHANGED <<synced, returned, anchors, lost>>
  PROVE  /\ Chained(log)' /\ (synced \in 0..Len(log))'
         /\ (\A a \in anchors : a.count \in Nat)' /\ (lost = TRUE \/ Kept)'
         /\ log' # << >> /\ call[p].receipt = log'[Len(log')]
  <1>1. PICK b \in Bodies : call[p].receipt = NextLine(log, b)
    BY DEF ActionInvariant, CallOf
  <1>2. Chained(log)'
    <2>1. Chained(Append(log, NextLine(log, b)))
      BY ChainGrows DEF ActionInvariant
    <2> QED BY <1>1, <2>1 DEF Chained
  <1>3. NextLine(log, b) \in Line
    BY TipTyped, ReceiptTyped DEF NextLine, ActionInvariant, Chained
  <1>4. /\ Len(log') = Len(log) + 1 /\ log'[Len(log')] = call[p].receipt /\ log' # << >>
        /\ \A i \in 1..Len(log) : log'[i] = log[i]
    BY <1>1, <1>3 DEF ActionInvariant, Chained
  <1>5. log \in Seq(Line) /\ Len(log) \in Nat /\ synced \in 0..Len(log)
    BY DEF ActionInvariant, Chained
  <1>6. Kept => Kept'
    BY <1>4, <1>5 DEF Kept
  <1> QED BY <1>2, <1>4, <1>5, <1>6 DEF ActionInvariant

LEMMA WriteLineKeeps ==
  ASSUME ActionInvariant, NEW p \in Worker, WriteLine(p)
  PROVE  ActionInvariant'
  <1>1. At(p, "loaded") /\ holder = p /\ call[p].at = "loaded"
    BY DEF WriteLine, ActionInvariant, CallOf, At
  <1>2. /\ \A q \in Worker : q # p => call'[q] = call[q] /\ At(q, "idle")
        /\ call'[p].at = "written" /\ call'[p].receipt = call[p].receipt
        /\ DOMAIN call' = Worker
    BY <1>1 DEF ActionInvariant, CallOf, WriteLine, At
  <1>3. \A q \in Worker : CallOf(q)'
    <2>1. CallOf(p)'
      BY <1>1, <1>2, LineAdded DEF CallOf, At, WriteLine
    <2>2. ASSUME NEW q \in Worker, q # p PROVE CallOf(q)'
      BY <1>2, <2>2 DEF CallOf, At
    <2> QED BY <2>1, <2>2
  <1> QED BY <1>1, <1>2, <1>3, LineAdded DEF ActionInvariant, WriteLine

LEMMA ReturnKeeps ==
  ASSUME ActionInvariant, NEW p \in Worker, Return(p)
  PROVE  ActionInvariant'
  <1>1. DOMAIN call' = Worker /\ \A q \in Worker : CallOf(q)'
    BY CallEnds DEF Return, At
  <1>2. /\ log \in Seq(Line) /\ Len(log) \in 1..Len(log) /\ synced \in 0..Len(log)
        /\ call[p].receipt = log[Len(log)]
    BY DEF Return, ActionInvariant, CallOf, Chained
  <1>3. log[Len(log)].id = Len(log)
    <2>1. log[Len(log)] = Receipt(Len(log), Prior(log, Len(log)),
                                          log[Len(log)].body)
      BY <1>2 DEF ActionInvariant, Chained
    <2> QED BY <2>1 DEF Receipt
  <1>4. Kept => Kept'
    BY <1>2, <1>3 DEF Kept, Return
  <1>5. Chained(log)' /\ (synced \in 0..Len(log))'
    BY <1>2 DEF Return, ActionInvariant, Chained
  <1> QED BY <1>1, <1>4, <1>5 DEF ActionInvariant, Return

LEMMA FailWriteKeeps ==
  ASSUME ActionInvariant, NEW p \in Worker, FailWrite(p)
  PROVE  ActionInvariant'
  <1>1. At(p, "loaded") /\ ~At(p, "idle")
    BY DEF FailWrite, At
  <1>2. DOMAIN call' = Worker /\ \A q \in Worker : CallOf(q)'
    <2>1. \A q \in Worker : call'[q] = IF q = p THEN Idle ELSE call[q]
      BY DEF ActionInvariant, FailWrite
    <2>2. \A q \in Worker : q # p => At(q, "idle")
      BY <1>1 DEF ActionInvariant, CallOf
    <2> QED BY <2>1, <2>2 DEF ActionInvariant, FailWrite, At, Idle, CallOf
  <1>3. UNCHANGED <<synced, returned, anchors, lost>>
    BY DEF FailWrite
  <1>4. log' = log \/ log' = Append(log, call[p].receipt)
    BY DEF FailWrite
  <1> QED BY <1>1, <1>2, <1>3, <1>4, KeptStays, LineAdded DEF ActionInvariant

LEMMA FailSyncKeeps ==
  ASSUME ActionInvariant, NEW p \in Worker, FailSync(p)
  PROVE  ActionInvariant'
  <1>1. DOMAIN call' = Worker /\ \A q \in Worker : CallOf(q)'
    BY CallEnds DEF FailSync, At
  <1> QED BY <1>1, KeptStays DEF ActionInvariant, FailSync

LEMMA ExportKeeps ==
  ASSUME ActionInvariant, ExportAnchor
  PROVE  ActionInvariant'
  <1>1. /\ log \in Seq(Line) /\ Len(log) \in Nat /\ synced \in 0..Len(log)
        /\ Tip(log) = IF Len(log) = 0 THEN << >> ELSE log[Len(log)].chain
    BY TipTyped DEF ActionInvariant, Chained
  <1>2. ASSUME Kept PROVE Kept'
    <2>1. ASSUME NEW a \in anchors', a.durable, a \notin anchors
          PROVE  a.count \in 0..synced
                 /\ a.tip = IF a.count = 0 THEN << >> ELSE log[a.count].chain
      <3>1. a = [count |-> Len(log), tip |-> Tip(log), durable |-> Len(log) <= synced]
        BY <2>1 DEF ExportAnchor
      <3>2. Len(log) <= synced
        BY <2>1, <3>1
      <3>3. a.count = Len(log) /\ a.tip = Tip(log)
        BY <3>1
      <3> QED BY <1>1, <3>2, <3>3
    <2> QED BY <1>2, <2>1 DEF Kept, ExportAnchor
  <1>3. DOMAIN call' = Worker /\ \A q \in Worker : CallOf(q)'
    BY DEF ExportAnchor, ActionInvariant, CallOf, At, NextLine
  <1>4. (\A a \in anchors : a.count \in Nat)'
    BY <1>1 DEF ExportAnchor, ActionInvariant
  <1> QED BY <1>2, <1>3, <1>4 DEF ActionInvariant, ExportAnchor, Chained

LEMMA RecoverKeeps ==
  ASSUME ActionInvariant, Recover
  PROVE  ActionInvariant'
  <1>1. \A q \in Worker : At(q, "idle")
    BY WorkerAssumption DEF Recover, ActionInvariant, CallOf
  <1>2. \A q \in Worker : CallOf(q)'
    BY <1>1 DEF Recover, CallOf, At
  <1> QED BY <1>2, KeptStays DEF ActionInvariant, Recover

LEMMA PowerFailKeeps ==
  ASSUME ActionInvariant, PowerFail
  PROVE  ActionInvariant'
  <1>1. DOMAIN call' = Worker /\ \A q \in Worker : CallOf(q)'
    BY DEF PowerFail, CallOf, At, Idle
  <1>2. log \in Seq(Line) /\ Len(log) \in Nat /\ synced \in 0..Len(log) /\ Chained(log)
    BY DEF ActionInvariant, Chained
  <1>3. CASE \E n \in synced..Len(log) :
               log' = SubSeq(log, 1, n) /\ synced' = n /\ lost' = lost
    <2>1. PICK n \in synced..Len(log) :
                log' = SubSeq(log, 1, n) /\ synced' = n /\ lost' = lost
      BY <1>3
    <2>2. n \in 0..Len(log)
      BY <1>2
    <2>3. Chained(log') /\ Len(log') = n /\ \A i \in 1..n : log'[i] = log[i]
      BY <1>2, <2>1, <2>2, ChainShortens
    <2>4. Kept => Kept'
      BY <1>2, <2>1, <2>2, <2>3 DEF Kept, PowerFail
    <2>5. Chained(log)'
      BY <2>3 DEF Chained
    <2> QED BY <1>1, <2>1, <2>2, <2>3, <2>4, <2>5 DEF ActionInvariant, PowerFail
  <1>4. CASE log' = << >> /\ synced' = 0 /\ lost' = TRUE
    BY <1>1, <1>4 DEF ActionInvariant, Chained, PowerFail
  <1> QED BY <1>3, <1>4 DEF PowerFail

LEMMA ActionStep == ActionInvariant /\ [ActionNext]_actionVars => ActionInvariant'
  <1> SUFFICES ASSUME ActionInvariant, [ActionNext]_actionVars PROVE ActionInvariant'
    OBVIOUS
  <1>1. CASE UNCHANGED actionVars
    <2>1. \A q \in Worker : CallOf(q)'
      BY <1>1 DEF actionVars, ActionInvariant, CallOf, At, NextLine
    <2> QED BY <1>1, <2>1, KeptStays DEF actionVars, ActionInvariant
  <1>2. CASE ActionNext
    BY <1>2, BeginKeeps, WriteLineKeeps, ReturnKeeps, FailWriteKeeps, FailSyncKeeps, ExportKeeps,
       RecoverKeeps, PowerFailKeeps DEF ActionNext
  <1> QED BY <1>1, <1>2

LEMMA ActionsHold == ActionSpec => []ActionInvariant
  BY InitialActions, ActionStep, PTL DEF ActionSpec

-----------------------------------------------------------------------------
(* What a chain says *)

LEMMA ChainVerifies ==
  ASSUME NEW lines, Chained(lines)
  PROVE  /\ Derives(lines)
         /\ \A i, j \in DOMAIN lines : lines[i].id = lines[j].id => i = j
  <1>1. lines \in Seq(Line) /\ DOMAIN lines = 1..Len(lines)
    BY DEF Chained
  <1>2. ASSUME NEW i \in DOMAIN lines
        PROVE  /\ lines[i].id = i /\ lines[i].receipt = lines[i].body
               /\ lines[i].chain
                    = ChainHash(Prior(lines, i), lines[i].receipt)
    <2>1. lines[i] = Receipt(i, Prior(lines, i), lines[i].body)
      BY <1>1 DEF Chained
    <2>2. \A n, prev, b : LET r == Receipt(n, prev, b)
                          IN  r.id = n /\ r.receipt = b /\ r.body = b
                              /\ r.chain = ChainHash(prev, b)
      BY DEF Receipt
    <2> QED BY <2>1, <2>2
  <1> QED BY <1>2 DEF Derives

LEMMA CountsWitnessed ==
  ASSUME NEW links
  PROVE  AnchoredActions(links) = Cardinality(Witnessed(links))
  <1>1. \A b : EffectiveTier(b) \in Anchored
               <=> b.tier \in Anchored /\ b.witness
    BY DEF EffectiveTier, Anchored
  <1>2. {i \in DOMAIN links : EffectiveTier(links[i].body) \in Anchored} = Witnessed(links)
    BY <1>1 DEF Witnessed
  <1> QED BY <1>2 DEF AnchoredActions

LEMMA WitnessedIsNat ==
  ASSUME NEW S, NEW links \in Seq(S)
  PROVE  Cardinality(Witnessed(links)) \in Nat
  <1>1. Witnessed(links) \subseteq 1..Len(links) /\ Len(links) \in Nat
    BY DEF Witnessed
  <1>2. IsFiniteSet(1..Len(links))
    BY <1>1, FS_Interval
  <1> QED BY <1>1, <1>2, FS_Subset, FS_CardinalityType

\* A declared share is within half a unit of the true one.
LEMMA ShareIsRounded ==
  ASSUME NEW part \in Nat, NEW total \in Nat
  PROVE  /\ Share(part, total) \in Nat
         /\ total # 0 => /\ 2 * (Share(part, total) * total) <= 2 * (Units * part) + total
                         /\ 2 * (Units * part) <= 2 * (Share(part, total) * total) + total
  <1>1. CASE total = 0
    BY <1>1 DEF Share
  <1>2. CASE total # 0
    <2> DEFINE a == 2 * Units * part + total
               b == 2 * total
               q == a \div b
    <2>1. a \in Nat /\ b \in Nat /\ b > 0
      BY <1>2 DEF Units
    <2>2. q \in Nat /\ q * b <= a /\ a < q * b + b
      <3> HIDE DEF a, b
      <3> QED BY <2>1
    <2>3. q * b = 2 * (q * total)
      <3> HIDE DEF q
      <3> QED BY <2>2
    <2>4. Share(part, total) = q
      BY <1>2 DEF Share
    <2> QED BY <2>2, <2>3, <2>4 DEF Units
  <1> QED BY <1>1, <1>2

\* What is close to the declared share is close to the true one.
LEMMA CloseToTheShare ==
  ASSUME NEW w \in Nat, NEW n \in Nat, NEW f \in Nat, Close(f, Share(w, n))
  PROVE  /\ n # 0 => f * n <= Units * w + (Tolerance + 1) * n
         /\ n # 0 => Units * w <= f * n + (Tolerance + 1) * n
  <1> DEFINE g == Share(w, n)
  <1>1. /\ g \in Nat
        /\ n # 0 => /\ 2 * (g * n) <= 2 * (Units * w) + n
                    /\ 2 * (Units * w) <= 2 * (g * n) + n
    BY ShareIsRounded
  <1>2. f <= g + 100 /\ g <= f + 100
    BY DEF Close, Tolerance
  <1> HIDE DEF g
  <1>3. f * n <= g * n + 100 * n /\ g * n <= f * n + 100 * n
    <2>1. ASSUME NEW c \in Nat, NEW d \in Nat, c <= d + 100 PROVE c * n <= d * n + 100 * n
      <3>1. c * n <= (d + 100) * n
        BY <2>1
      <3> QED BY <3>1
    <2> QED BY <1>1, <1>2, <2>1
  <1>4. (Tolerance + 1) * n = 101 * n /\ Units * w = 10000 * w
    BY DEF Tolerance, Units
  <1>5. f * n \in Nat /\ g * n \in Nat
    BY <1>1
  <1> QED BY <1>1, <1>3, <1>4, <1>5 DEF Units

LEMMA FloorIsNat ==
  ASSUME NEW S, NEW links \in Seq(S)
  PROVE  Floor(links) \in Nat
  <1>1. AnchoredActions(links) \in Nat /\ Len(links) \in Nat
    BY CountsWitnessed, WitnessedIsNat
  <1> QED BY <1>1, ShareIsRounded DEF Floor

\* What the readers of the log make of it at any moment verifies, inside the
\* package and for a stranger: record() under its locks, whatever fails.
THEOREM ActionsVerify == ActionSpec => []BuiltVerifies
  <1>1. ActionInvariant => BuiltVerifies
    <2> SUFFICES ASSUME ActionInvariant
                 PROVE  VerifyActionChain(log)
                        /\ VerifyAttestation(Attestation(log))
      BY DEF BuiltVerifies
    <2>1. Derives(log) /\ \A i, j \in DOMAIN log : log[i].id = log[j].id => i = j
      BY ChainVerifies DEF ActionInvariant
    <2>2. Floor(log) \in Nat
      BY FloorIsNat DEF ActionInvariant, Chained
    <2>3. FloorHolds(Attestation(log))
      BY <2>2 DEF FloorHolds, Attestation, Close, Tolerance
    <2> QED BY <2>1, <2>3 DEF VerifyActionChain, VerifyAttestation,
                              Attestation
  <1> QED BY <1>1, ActionsHold, PTL

\* Nothing is taken back: what record() answered and what a durable anchor
\* says stay true of the log, unless the file itself was lost.
THEOREM AnswersStay == ActionSpec => []HistoryKept
  <1>1. ActionInvariant => HistoryKept
    <2> SUFFICES ASSUME ActionInvariant, lost # TRUE
                 PROVE  /\ \A r \in returned : r.count <= Len(log) /\ log[r.count].chain = r.chain
                        /\ \A a \in anchors : a.durable =>
                             VerifyAgainstAnchor(Attestation(log), a)
      BY DEF HistoryKept
    <2>1. Kept
      BY DEF ActionInvariant
    <2>2. Chained(log) /\ synced \in 0..Len(log)
      BY DEF ActionInvariant
    <2>3. Len(log) \in Nat
      BY <2>2 DEF Chained
    <2>4. ASSUME NEW a \in anchors, a.durable
          PROVE  VerifyAgainstAnchor(Attestation(log), a)
      <3>1. a.count \in 0..Len(log) /\ a.tip = IF a.count = 0 THEN << >> ELSE log[a.count].chain
        BY <2>1, <2>2, <2>3, <2>4 DEF Kept
      <3>2. Tip(SubSeq(log, 1, a.count)) = a.tip
        BY <2>2, <3>1, TipOfPrefix
      <3> QED BY <3>1, <3>2 DEF VerifyAgainstAnchor, Attestation
    <2> QED BY <2>1, <2>2, <2>3, <2>4 DEF Kept
  <1> QED BY <1>1, ActionsHold, PTL

-----------------------------------------------------------------------------
(* What passes a published anchor *)

\* Chain hashes that are derived from genesis are the bodies themselves.
LEMMA DerivedChain ==
  ASSUME NEW S, NEW links \in Seq(S), Derives(links)
  PROVE  \A n \in 1..Len(links) : links[n].chain = [i \in 1..n |-> links[i].body]
  <1> DEFINE Bodied(n) == [i \in 1..n |-> links[i].body]
             T == {n \in Nat : n \in 1..Len(links) => links[n].chain = Bodied(n)}
  <1>1. 0 \in T
    OBVIOUS
  <1>2. ASSUME NEW n \in Nat, n \in T PROVE n + 1 \in T
    <2> SUFFICES ASSUME n + 1 \in 1..Len(links) PROVE links[n + 1].chain = Bodied(n + 1)
      OBVIOUS
    <2>1. links[n + 1].chain = Append(Prior(links, n + 1), links[n + 1].body)
      BY DEF Derives, ChainHash
    <2>2. Prior(links, n + 1) = Bodied(n)
      <3>1. CASE n = 0
        BY <3>1 DEF Prior, GENESIS
      <3>2. CASE n # 0
        <4>1. n \in 1..Len(links) /\ links[n].chain = Bodied(n)
          BY <1>2, <3>2
        <4> QED BY <3>2, <4>1 DEF Prior
      <3> QED BY <3>1, <3>2
    <2>3. Append(Bodied(n), links[n + 1].body) = Bodied(n + 1)
      <3> DEFINE B == {links[i].body : i \in 1..(n + 1)}
      <3>1. Bodied(n) \in Seq(B) /\ Len(Bodied(n)) = n /\ links[n + 1].body \in B
        OBVIOUS
      <3>2. /\ Append(Bodied(n), links[n + 1].body) \in Seq(B)
            /\ Len(Append(Bodied(n), links[n + 1].body)) = n + 1
            /\ Append(Bodied(n), links[n + 1].body)[n + 1] = links[n + 1].body
            /\ \A i \in 1..n : Append(Bodied(n), links[n + 1].body)[i] = links[i].body
        BY <3>1
      <3> QED BY <3>2
    <2> QED BY <2>1, <2>2, <2>3
  <1>3. Nat \subseteq T
    <2> HIDE DEF T
    <2> QED BY <1>1, <1>2, SetInduction
  <1> QED BY <1>3

LEMMA Removed ==
  ASSUME NEW S, NEW s \in Seq(S), NEW i \in 1..Len(s)
  PROVE  RemoveAt(s, i) \in Seq(S)
  <1>1. SubSeq(s, 1, i - 1) \in Seq(S)
    OBVIOUS
  <1>2. SubSeq(s, i + 1, Len(s)) \in Seq(S)
    OBVIOUS
  <1> QED BY <1>1, <1>2, ConcatProperties DEF RemoveAt

\* An altered document holds a sequence of links and declares floors that are numbers.
LEMMA AlteredLinks ==
  ASSUME NEW lines, Chained(lines), NEW x \in Altered(lines)
  PROVE  (\E S : x.links \in Seq(S)) /\ x.floor \subseteq Nat
  <1>1. lines \in Seq(Line) /\ DOMAIN lines = 1..Len(lines) /\ Len(lines) \in Nat
    BY DEF Chained
  <1>2. ASSUME NEW l \in Edited(lines) PROVE \E S : l \in Seq(S)
    <2>1. CASE \E i \in DOMAIN lines, b \in Bodies : l \in EditedAt(lines, i, b)
      <3>1. PICK i \in DOMAIN lines, b \in Bodies :
                   l \in {[lines EXCEPT ![i].body = b],
                         [lines EXCEPT ![i].body = b, ![i].receipt = b],
                         RemoveAt(lines, i), Append(lines, lines[i])}
        BY <2>1 DEF EditedAt
      <3>0. lines[i] \in Line /\ i \in 1..Len(lines)
        BY <1>1
      <3>2. CASE l = RemoveAt(lines, i)
        BY <1>1, <3>0, <3>2, Removed
      <3>3. CASE l = Append(lines, lines[i])
        BY <1>1, <3>3
      <3>4. CASE l = [lines EXCEPT ![i].body = b]
        <4>1. [lines[i] EXCEPT !.body = b] \in Line
          BY <3>0 DEF Line
        <4> QED BY <1>1, <3>4, <4>1
      <3>5. CASE l = [lines EXCEPT ![i].body = b, ![i].receipt = b]
        <4> DEFINE one == [lines[i] EXCEPT !.body = b]
        <4>1. one \in Line
          BY <3>0 DEF Line
        <4>2. [one EXCEPT !.receipt = b] \in Line
          BY <4>1 DEF Line
        <4>3. l = [lines EXCEPT ![i] = [one EXCEPT !.receipt = b]]
          BY <1>1, <3>5
        <4> HIDE DEF one
        <4> QED BY <1>1, <4>2, <4>3
      <3> QED BY <3>1, <3>2, <3>3, <3>4, <3>5
    <2>2. CASE \E i \in 1..Len(lines) - 1 : l = Swapped(lines, i)
      BY <1>1, <2>2 DEF Swapped
    <2> QED BY <2>1, <2>2 DEF Edited
  <1>3. ASSUME NEW l \in Reminted(lines) PROVE \E S : l \in Seq(S)
    <2> DEFINE bodies == [i \in DOMAIN lines |-> lines[i].body]
    <2>1. bodies \in Seq(Bodies)
      <3>1. ASSUME NEW i \in 1..Len(lines) PROVE lines[i].body \in Bodies
        <4>1. lines[i] \in Line
          BY <1>1
        <4> QED BY <4>1 DEF Line
      <3> QED BY <1>1, <3>1
    <2>2. ASSUME NEW bs \in Seq(Bodies) PROVE \E S : Chain(bs) \in Seq(S)
      <3> DEFINE row(i) == [id |-> i, body |-> bs[i], receipt |-> bs[i],
                            chain |-> SubSeq(bs, 1, i)]
                 S == {row(i) : i \in DOMAIN bs}
      <3>1. Chain(bs) = [i \in 1..Len(bs) |-> row(i)] /\ Len(bs) \in Nat
        BY DEF Chain
      <3>2. \A i \in 1..Len(bs) : row(i) \in S
        <4>1. DOMAIN bs = 1..Len(bs)
          OBVIOUS
        <4> HIDE DEF row
        <4> QED BY <4>1
      <3> HIDE DEF S, row
      <3>3. Chain(bs) \in Seq(S)
        BY <3>1, <3>2
      <3> QED BY <3>3
    <2>3. \/ \E i \in DOMAIN lines, b \in Bodies :
               l = Chain([bodies EXCEPT ![i] = b])
          \/ \E i \in DOMAIN lines : l = Chain(RemoveAt(bodies, i))
      BY DEF Reminted
    <2>4. \A i \in DOMAIN lines, b \in Bodies :
            [bodies EXCEPT ![i] = b] \in Seq(Bodies)
      BY <2>1
    <2>5. \A i \in DOMAIN lines : RemoveAt(bodies, i) \in Seq(Bodies)
      <3>1. DOMAIN lines = 1..Len(bodies)
        BY <1>1
      <3> HIDE DEF bodies
      <3> QED BY <2>1, <3>1, Removed
    <2> HIDE DEF bodies
    <2> QED BY <2>2, <2>3, <2>4, <2>5
  <1>4. CASE \E l \in Edited(lines) \cup Reminted(lines) : x = Attestation(l)
    <2>1. PICK l \in Edited(lines) \cup Reminted(lines) : x = Attestation(l)
      BY <1>4
    <2>2. PICK S : l \in Seq(S)
      BY <1>2, <1>3, <2>1
    <2>3. x.links = l /\ x.floor = {Floor(l)}
      BY <2>1 DEF Attestation
    <2>4. Floor(l) \in Nat
      BY <2>2, FloorIsNat
    <2> QED BY <2>2, <2>3, <2>4
  <1>5. CASE \E f \in Floors(lines) : x = [Attestation(lines) EXCEPT !.floor = f]
    <2>1. PICK f \in Floors(lines) : x = [Attestation(lines) EXCEPT !.floor = f]
      BY <1>5
    <2>2. x.links = lines /\ x.floor = f
      BY <2>1 DEF Attestation
    <2>3. \A k \in 0..Len(lines) : Share(k, Len(lines)) \in Nat
      BY <1>1, ShareIsRounded
    <2>4. f \subseteq Nat
      BY <2>3 DEF Floors
    <2> QED BY <1>1, <2>2, <2>4
  <1> QED BY <1>4, <1>5 DEF Altered

\* Whoever holds a published anchor accepts nothing but a continuation of the
\* actions it was published over, of whatever somebody makes of the log, and
\* no declared floor that is a hundredth and a rounding away from the share of
\* the actions with a witness.
THEOREM TamperIsCaught == ActionSpec => []TamperCaught
  <1>1. ActionInvariant => TamperCaught
    <2> SUFFICES ASSUME ActionInvariant, NEW a \in anchors, NEW x \in Altered(log),
                        Valid(x, a)
                 PROVE  /\ [i \in 1..a.count |-> x.links[i].body] = a.tip
                        /\ \A f \in x.floor :
                             LET n == Len(x.links)
                                 share == Units * Cardinality(Witnessed(x.links))
                                 slack == (Tolerance + 1) * n
                             IN  f * n <= share + slack /\ share <= f * n + slack
      BY Zenon DEF TamperCaught
    <2>0. (\E S : x.links \in Seq(S)) /\ x.floor \subseteq Nat
      BY AlteredLinks DEF ActionInvariant
    <2>1. PICK S : x.links \in Seq(S)
      BY <2>0
    <2>2. /\ Derives(x.links) /\ a.count <= Len(x.links)
          /\ a.tip = Tip(SubSeq(x.links, 1, a.count))
          /\ FloorHolds(x)
      BY DEF Valid, VerifyAttestation, VerifyAgainstAnchor
    <2>3. a.count \in Nat
      BY DEF ActionInvariant
    <2>6. ASSUME NEW f \in x.floor
          PROVE  LET n == Len(x.links)
                     share == Units * Cardinality(Witnessed(x.links))
                     slack == (Tolerance + 1) * n
                 IN  f * n <= share + slack /\ share <= f * n + slack
      <3> DEFINE n == Len(x.links)
                 w == Cardinality(Witnessed(x.links))
      <3>1. n \in Nat /\ w \in Nat /\ f \in Nat
        BY <2>0, <2>1, WitnessedIsNat
      <3>2. Close(f, Share(w, n))
        BY <2>2, CountsWitnessed DEF FloorHolds, Floor
      <3>3. CASE n # 0
        <4> HIDE DEF n, w
        <4>1. f * n <= Units * w + (Tolerance + 1) * n /\ Units * w <= f * n + (Tolerance + 1) * n
          BY <3>1, <3>2, <3>3, CloseToTheShare
        <4> QED BY <4>1 DEF n, w
      <3>4. CASE n = 0
        <4>1. Witnessed(x.links) = {}
          BY <2>1, <3>4 DEF Witnessed
        <4>2. w = 0
          BY <4>1, FS_EmptySet
        <4> HIDE DEF n, w
        <4>3. f * n <= Units * w + (Tolerance + 1) * n /\ Units * w <= f * n + (Tolerance + 1) * n
          BY <3>1, <3>4, <4>2 DEF Units, Tolerance
        <4> QED BY <4>3 DEF n, w
      <3> QED BY <3>1, <3>3, <3>4
    <2>4. CASE a.count = 0
      <3>1. SubSeq(x.links, 1, a.count) = << >>
        BY <2>1, <2>4
      <3>2. a.tip = << >>
        BY <2>2, <3>1 DEF Tip, GENESIS
      <3>3. [i \in 1..0 |-> x.links[i].body] = << >>
        OBVIOUS
      <3> QED BY <2>4, <2>6, <3>2, <3>3
    <2>5. CASE a.count # 0
      <3> DEFINE less == SubSeq(x.links, 1, a.count)
      <3>1. /\ less \in Seq(S) /\ Len(less) = a.count /\ a.count \in 1..Len(x.links)
            /\ less[a.count] = x.links[a.count]
        BY <2>1, <2>2, <2>3, <2>5
      <3>2. a.tip = less[a.count].chain
        <4> HIDE DEF less
        <4>1. less # << >>
          BY <2>5, <3>1
        <4>2. a.tip = Tip(less)
          BY <2>2 DEF less
        <4> QED BY <3>1, <4>1, <4>2 DEF Tip, Last
      <3>3. x.links[a.count].chain = [i \in 1..a.count |-> x.links[i].body]
        BY <2>1, <2>2, <3>1, DerivedChain
      <3> QED BY <2>6, <3>1, <3>2, <3>3
    <2> QED BY <2>4, <2>5
  <1> QED BY <1>1, ActionsHold, PTL
=============================================================================
