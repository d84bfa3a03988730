-------------------------- MODULE Transfers_proofs --------------------------
(***************************************************************************)
(* Proofs that every invariant of IsoStream holds for any set of streams   *)
(* and transfers, that the streams implement TransferPool, and that the    *)
(* emulation of libusb loses no transfer, for any endpoints and any number *)
(* of transfers.                                                           *)
(***************************************************************************)
EXTENDS MCTransfers, FiniteSetTheorems, TLAPS

\* A call is half way through starting or stopping stream cur.
Busy == pc \in {"regs", "stopregs", "wait", "crashed"}

\* The transfers t of a stream are allocated and freed together.
Freed(t) == \A x \in Xfers : t[x] = "free"

\* Which streams are running, given what the caller is doing.
Steady(s) ==
    IF Busy /\ s = cur
    THEN ~running[s] /\ Allocated(xfer[s])
    ELSE running[s] <=> Allocated(xfer[s])

\* The dead flag is set exactly from cancellation on.
DeadFlag(s) ==
    Allocated(xfer[s]) => (dead[s] <=> pc \in {"wait", "crashed"} /\ s = cur)

CullBound ==
    /\ pc \in {"stopregs", "wait"} => cull <= Len(StopOrder)
    /\ pc \in {"user", "events", "regs"} => cull = 0
    /\ pc = "cull" => cull >= 1

\* The inductive invariant: RetiredCounted alone does not survive a start, which
\* overwrites the transfers, unless a stream that is not running has none.
IInv ==
    /\ TypeOK
    /\ RetiredCounted
    /\ CullBound
    /\ \A s \in Streams : Allocated(xfer[s]) \/ Freed(xfer[s])
    /\ \A s \in Streams : Steady(s)
    /\ \A s \in Streams : DeadFlag(s)

-----------------------------------------------------------------------------
LEMMA NumXfersNat == num_xfers \in Nat
BY XfersAssumption, FS_CardinalityType DEF num_xfers

LEMMA LenNat == Len(StopOrder) \in Nat
BY StreamsAssumption

LEMMA GoneFinite ==
    ASSUME NEW t
    PROVE  /\ IsFiniteSet(GoneXfers(t))
           /\ Cardinality(GoneXfers(t)) \in Nat
           /\ Cardinality(GoneXfers(t)) <= num_xfers
           /\ Cardinality(GoneXfers(t)) = num_xfers => GoneXfers(t) = Xfers
<1>1. GoneXfers(t) \in SUBSET Xfers
  BY DEF GoneXfers
<1> QED
  BY <1>1, XfersAssumption, FS_Subset, FS_CardinalityType DEF num_xfers

\* Retiring a transfer in flight adds one to the transfers that are gone.
LEMMA RetireOne ==
    ASSUME NEW t \in [Xfers -> XferState], NEW x \in Flying(t), NEW u,
           u = [t EXCEPT ![x] = "retired"], Allocated(t)
    PROVE  /\ u \in [Xfers -> XferState]
           /\ Allocated(u)
           /\ Flying(u) = Flying(t) \ {x}
           /\ Cardinality(GoneXfers(u)) = Cardinality(GoneXfers(t)) + 1
<1>1. x \in Xfers /\ t[x] \in InFlight
  BY DEF Flying
<1>2. u[x] = "retired" /\ \A y \in Xfers \ {x} : u[y] = t[y]
  BY <1>1
<1>3. u \in [Xfers -> XferState]
  BY <1>1 DEF XferState
<1>4. Allocated(u)
  BY <1>2 DEF Allocated
<1>5. Flying(u) = Flying(t) \ {x}
  BY <1>2 DEF Flying, InFlight
<1>6. GoneXfers(u) = GoneXfers(t) \cup {x} /\ x \notin GoneXfers(t)
  BY <1>1, <1>2 DEF GoneXfers, Gone, InFlight
<1> QED
  BY <1>3, <1>4, <1>5, <1>6, GoneFinite, FS_AddElement

LEMMA InitInv == Init => IInv
<1> SUFFICES ASSUME Init PROVE IInv
  OBVIOUS
<1>1. PICK x \in Xfers : TRUE
  BY XfersAssumption
<1>2. \A s \in Streams : ~Allocated(xfer[s]) /\ Freed(xfer[s])
  BY <1>1 DEF Init, Allocated, Freed
<1>3. xfer \in [Streams -> [Xfers -> XferState]]
  BY DEF Init, XferState
<1>4. cull \in 0..(Len(StopOrder) + 1)
  BY LenNat DEF Init
<1>5. TypeOK
  BY <1>3, <1>4 DEF Init, TypeOK
<1>6. RetiredCounted /\ CullBound
  BY <1>2 DEF Init, RetiredCounted, CullBound
<1>7. \A s \in Streams : Steady(s) /\ DeadFlag(s)
  BY <1>2 DEF Init, Steady, Busy, DeadFlag
<1> QED
  BY <1>2, <1>5, <1>6, <1>7 DEF IInv

-----------------------------------------------------------------------------
\* The steps that leave every transfer alone.
LEMMA CallerSteps ==
    ASSUME IInv,
           \/ \E s \in Streams : UserStop(s)
           \/ \E s \in Streams, x \in Xfers : Resubmit(s, x)
           \/ FinishStart \/ ProcessEvents \/ EventsDone
           \/ CullStop \/ CullSkip \/ CullDone
           \/ Unplug \/ Crashed \/ UNCHANGED vars
    PROVE  IInv'
<1> USE LenNat
<1>1. UNCHANGED <<xfer, dead_xfers, dead>>
  BY DEF UserStop, Resubmit, FinishStart, ProcessEvents, EventsDone, CullStop,
         CullSkip, CullDone, Unplug, Crashed, vars
<1>2. RetiredCounted' /\ \A s \in Streams : (Allocated(xfer[s]) \/ Freed(xfer[s]))'
  BY <1>1 DEF IInv, RetiredCounted
<1>3. CASE \E s \in Streams : UserStop(s)
  BY <1>1, <1>2, <1>3 DEF UserStop, BeginStop, IInv, TypeOK, CullBound, Steady, Busy, DeadFlag
<1>4. CASE FinishStart
  BY <1>1, <1>2, <1>4 DEF FinishStart, IInv, TypeOK, CullBound, Steady, Busy, DeadFlag
<1>5. CASE ProcessEvents
  BY <1>1, <1>2, <1>5 DEF ProcessEvents, IInv, TypeOK, CullBound, Steady, Busy, DeadFlag
<1>6. CASE EventsDone
  BY <1>1, <1>2, <1>6 DEF EventsDone, IInv, TypeOK, CullBound, Steady, Busy, DeadFlag
<1>7. CASE CullStop
  <2>1. StopOrder[cull] \in Streams
    BY <1>7, StreamsAssumption DEF CullStop, IInv, CullBound, TypeOK
  <2> QED
    BY <1>1, <1>2, <1>7, <2>1 DEF CullStop, BeginStop, IInv, TypeOK, CullBound, Steady, Busy, DeadFlag
<1>8. CASE CullSkip
  BY <1>1, <1>2, <1>8 DEF CullSkip, IInv, TypeOK, CullBound, Steady, Busy, DeadFlag
<1>9. CASE CullDone
  BY <1>1, <1>2, <1>9 DEF CullDone, IInv, TypeOK, CullBound, Steady, Busy, DeadFlag
<1>10. CASE Unplug
  BY <1>1, <1>2, <1>10 DEF Unplug, IInv, TypeOK, CullBound, Steady, Busy, DeadFlag
<1>11. CASE Crashed \/ UNCHANGED vars \/ \E s \in Streams, x \in Xfers : Resubmit(s, x)
  BY <1>1, <1>2, <1>11 DEF Crashed, Resubmit, vars, IInv, TypeOK, CullBound, Steady, Busy, DeadFlag
<1> QED
  BY <1>3, <1>4, <1>5, <1>6, <1>7, <1>8, <1>9, <1>10, <1>11

\* iso_callback retires a transfer.
LEMMA RetireSteps ==
    ASSUME IInv, NEW s \in Streams, NEW x \in Flying(xfer[s]), Retire(s, x),
           device_dead' \in BOOLEAN,
           UNCHANGED <<plugged, running, dead, pc, cur, cull>>
    PROVE  /\ IInv'
           /\ Flying(xfer'[s]) = Flying(xfer[s]) \ {x}
           /\ \A r \in Streams \ {s} : xfer'[r] = xfer[r]
           /\ \A r \in Streams : Allocated(xfer'[r]) <=> Allocated(xfer[r])
<1>1. Allocated(xfer[s])
  BY DEF IInv, Freed, Flying, InFlight
<1>2. /\ xfer[s] \in [Xfers -> XferState]
      /\ xfer'[s] = [xfer[s] EXCEPT ![x] = "retired"]
      /\ \A r \in Streams \ {s} : xfer'[r] = xfer[r]
      /\ dead_xfers'[s] = dead_xfers[s] + 1
      /\ \A r \in Streams \ {s} : dead_xfers'[r] = dead_xfers[r]
  BY DEF IInv, TypeOK, Retire
<1>3. /\ xfer'[s] \in [Xfers -> XferState]
      /\ Allocated(xfer'[s])
      /\ Flying(xfer'[s]) = Flying(xfer[s]) \ {x}
      /\ Cardinality(GoneXfers(xfer'[s])) = Cardinality(GoneXfers(xfer[s])) + 1
  BY <1>1, <1>2, RetireOne
<1>4. \A r \in Streams : Allocated(xfer'[r]) <=> Allocated(xfer[r])
  BY <1>1, <1>2, <1>3
<1>5. xfer' \in [Streams -> [Xfers -> XferState]] /\ dead_xfers' \in [Streams -> Nat]
  <2>1. xfer' = [xfer EXCEPT ![s] = xfer'[s]]
    BY DEF IInv, TypeOK, Retire
  <2> QED
    BY <1>3, <2>1 DEF IInv, TypeOK, Retire
<1>6. RetiredCounted'
  BY <1>1, <1>2, <1>3 DEF IInv, RetiredCounted
<1>7. \A r \in Streams : (Allocated(xfer[r]) \/ Freed(xfer[r]))'
  BY <1>2, <1>3 DEF IInv
<1>8. \A r \in Streams : Steady(r)' /\ DeadFlag(r)'
  BY <1>4 DEF IInv, Steady, Busy, DeadFlag
<1>9. TypeOK' /\ CullBound'
  BY <1>5 DEF IInv, TypeOK, CullBound
<1> QED
  BY <1>2, <1>3, <1>4, <1>6, <1>7, <1>8, <1>9 DEF IInv

\* A start finds no transfer of the stream allocated and allocates all of them.
LEMMA StartIsoStep ==
    ASSUME IInv, NEW s \in Streams, StartIso(s)
    PROVE  /\ IInv'
           /\ ~Allocated(xfer[s]) /\ Allocated(xfer'[s]) /\ ~dead'[s]
           /\ \A r \in Streams \ {s} : xfer'[r] = xfer[r] /\ dead'[r] = dead[r]
<1>1. ~Busy /\ ~running[s]
  BY DEF StartIso, Busy
<1>2. ~Allocated(xfer[s])
  BY <1>1 DEF IInv, Steady
<1>3. PICK sub \in Submissions :
        /\ xfer' = [xfer EXCEPT ![s] = sub]
        /\ dead_xfers' = [dead_xfers EXCEPT ![s] = Cardinality(GoneXfers(sub))]
  BY DEF StartIso
<1>4. sub \in [Xfers -> XferState] /\ Allocated(sub)
  BY DEF Submissions, XferState, Allocated
<1>5. /\ xfer' \in [Streams -> [Xfers -> XferState]]
      /\ dead_xfers' \in [Streams -> Nat]
  BY <1>3, <1>4, GoneFinite DEF IInv, TypeOK
<1>6. /\ xfer'[s] = sub
      /\ dead_xfers'[s] = Cardinality(GoneXfers(sub))
      /\ dead'[s] = FALSE
      /\ \A r \in Streams \ {s} :
            xfer'[r] = xfer[r] /\ dead_xfers'[r] = dead_xfers[r] /\ dead'[r] = dead[r]
  BY <1>3 DEF StartIso, IInv, TypeOK
<1>7. RetiredCounted'
  BY <1>6 DEF IInv, RetiredCounted
<1>8. \A r \in Streams : (Allocated(xfer[r]) \/ Freed(xfer[r]))'
  BY <1>4, <1>6 DEF IInv
<1>9. \A r \in Streams : Steady(r)' /\ DeadFlag(r)'
  BY <1>1, <1>4, <1>6 DEF StartIso, IInv, Steady, Busy, DeadFlag
<1>10. TypeOK' /\ CullBound'
  BY <1>5 DEF StartIso, IInv, TypeOK, CullBound
<1> QED
  BY <1>2, <1>4, <1>6, <1>7, <1>8, <1>9, <1>10 DEF IInv

\* Cancelling leaves every transfer as lent, or as gone, as it was.
LEMMA CancelAllStep ==
    ASSUME IInv, CancelAll
    PROVE  /\ IInv'
           /\ ~dead[cur] /\ dead' = [dead EXCEPT ![cur] = TRUE]
           /\ \A r \in Streams : Flying(xfer'[r]) = Flying(xfer[r])
           /\ \A r \in Streams : Allocated(xfer'[r]) <=> Allocated(xfer[r])
           /\ Allocated(xfer[cur])
<1> DEFINE t == xfer[cur]
           u == [x \in Xfers |-> IF t[x] = "queued" THEN "cancelling" ELSE t[x]]
<1>1. cur \in Streams /\ t \in [Xfers -> XferState]
  BY DEF IInv, TypeOK
<1>2. u \in [Xfers -> XferState]
  BY <1>1 DEF XferState
<1>3. GoneXfers(u) = GoneXfers(t) /\ Flying(u) = Flying(t)
  BY DEF GoneXfers, Flying, Gone, InFlight
<1>4. Allocated(u) <=> Allocated(t)
  BY DEF Allocated
<1>5. Freed(t) => Freed(u)
  BY DEF Freed
<1>6. /\ xfer' = [xfer EXCEPT ![cur] = u]
      /\ xfer'[cur] = u
      /\ \A r \in Streams \ {cur} : xfer'[r] = xfer[r]
  BY <1>1 DEF CancelAll, IInv, TypeOK
<1>7. Allocated(t) /\ ~dead[cur]
  BY <1>1 DEF CancelAll, IInv, Steady, Busy, DeadFlag
<1> HIDE DEF u, t
<1>8. \A r \in Streams : /\ Allocated(xfer'[r]) <=> Allocated(xfer[r])
                         /\ Flying(xfer'[r]) = Flying(xfer[r])
                         /\ GoneXfers(xfer'[r]) = GoneXfers(xfer[r])
                         /\ Freed(xfer[r]) => Freed(xfer'[r])
  BY <1>3, <1>4, <1>5, <1>6 DEF t
<1>9. RetiredCounted'
  BY <1>8 DEF CancelAll, IInv, RetiredCounted
<1>10. \A r \in Streams : (Allocated(xfer[r]) \/ Freed(xfer[r]))'
  BY <1>8 DEF IInv
<1>11. \A r \in Streams : Steady(r)' /\ DeadFlag(r)'
  BY <1>1, <1>8 DEF CancelAll, IInv, TypeOK, Steady, Busy, DeadFlag
<1>12. TypeOK' /\ CullBound'
  BY <1>2, <1>6 DEF CancelAll, IInv, TypeOK, CullBound
<1> QED
  BY <1>7, <1>8, <1>9, <1>10, <1>11, <1>12 DEF CancelAll, IInv, t

\* The wait loop ends only when no transfer is lent any more.
LEMMA ReleaseStep ==
    ASSUME IInv, Release
    PROVE  /\ IInv'
           /\ Flying(xfer[cur]) = {} /\ Allocated(xfer[cur]) /\ dead[cur]
           /\ ~Allocated(xfer'[cur]) /\ Flying(xfer'[cur]) = {}
           /\ \A r \in Streams \ {cur} : xfer'[r] = xfer[r]
<1> DEFINE free == [x \in Xfers |-> "free"]
<1>1. cur \in Streams /\ Allocated(xfer[cur]) /\ dead[cur]
  BY DEF Release, IInv, TypeOK, Steady, Busy, DeadFlag
<1>2. Cardinality(GoneXfers(xfer[cur])) = num_xfers
  BY <1>1, GoneFinite, NumXfersNat DEF Release, IInv, RetiredCounted
<1>3. Flying(xfer[cur]) = {}
  BY <1>2, GoneFinite DEF GoneXfers, Flying, Gone, InFlight
<1>4. free \in [Xfers -> XferState] /\ Freed(free) /\ ~Allocated(free) /\ Flying(free) = {}
  BY XfersAssumption DEF XferState, Freed, Allocated, Flying, InFlight
<1>5. /\ xfer' = [xfer EXCEPT ![cur] = free]
      /\ xfer'[cur] = free
      /\ \A r \in Streams \ {cur} : xfer'[r] = xfer[r]
  BY <1>1 DEF Release, IInv, TypeOK
<1> HIDE DEF free
<1>6. RetiredCounted'
  BY <1>4, <1>5 DEF Release, IInv, RetiredCounted
<1>7. \A r \in Streams : (Allocated(xfer[r]) \/ Freed(xfer[r]))'
  BY <1>4, <1>5 DEF IInv
<1>8. \A r \in Streams : Steady(r)' /\ DeadFlag(r)'
  BY <1>1, <1>4, <1>5 DEF Release, IInv, Steady, Busy, DeadFlag
<1>9. TypeOK' /\ CullBound'
  BY <1>4, <1>5, LenNat DEF Release, IInv, TypeOK, CullBound
<1> QED
  BY <1>1, <1>3, <1>4, <1>5, <1>6, <1>7, <1>8, <1>9 DEF IInv

-----------------------------------------------------------------------------
LEMMA CallbackSteps ==
    ASSUME IInv, NEW s \in Streams, NEW x \in Xfers,
           CompleteDead(s, x) \/ ResubmitFails(s, x) \/ DeviceLost(s, x)
    PROVE  /\ x \in Flying(xfer[s])
           /\ Retire(s, x)
           /\ device_dead' \in BOOLEAN
           /\ UNCHANGED <<plugged, running, dead, pc, cur, cull>>
BY DEF CompleteDead, ResubmitFails, DeviceLost, Callback, IInv, TypeOK

LEMMA StepInv == IInv /\ [Next]_vars => IInv'
<1> SUFFICES ASSUME IInv, [Next]_vars PROVE IInv'
  OBVIOUS
<1>1. CASE \E s \in Streams : StartIso(s)
  BY <1>1, StartIsoStep
<1>2. CASE \E s \in Streams, x \in Xfers :
             CompleteDead(s, x) \/ ResubmitFails(s, x) \/ DeviceLost(s, x)
  BY <1>2, CallbackSteps, RetireSteps
<1>3. CASE CancelAll
  BY <1>3, CancelAllStep
<1>4. CASE Release
  BY <1>4, ReleaseStep
<1>5. CASE \/ \E s \in Streams : UserStop(s)
           \/ \E s \in Streams, x \in Xfers : Resubmit(s, x)
           \/ FinishStart \/ ProcessEvents \/ EventsDone
           \/ CullStop \/ CullSkip \/ CullDone
           \/ Unplug \/ Crashed \/ UNCHANGED vars
  BY <1>5, CallerSteps
<1> QED
  BY <1>1, <1>2, <1>3, <1>4, <1>5 DEF Next, Library, IsoCallback

\* The inductive invariant holds in every reachable state.
THEOREM Invariant == Spec => []IInv
<1>1. Init => IInv
  BY InitInv
<1>2. IInv /\ [Next]_vars => IInv'
  BY StepInv
<1> QED
  BY <1>1, <1>2, PTL DEF Spec

\* Every variable of usb_libusb10.c's streams keeps its type.
THEOREM TypeCorrect == Spec => []TypeOK
<1>1. IInv => TypeOK
  BY DEF IInv
<1> QED
  BY <1>1, Invariant, PTL

\* dead_xfers is exactly the number of transfers that will not come back.
THEOREM DeadXfersExact == Spec => []RetiredCounted
<1>1. IInv => RetiredCounted
  BY DEF IInv
<1> QED
  BY <1>1, Invariant, PTL

\* Between calls the running streams are the ones that hold transfers.
THEOREM RunningHoldsTransfers == Spec => []RunningIffAllocated
<1>1. IInv => RunningIffAllocated
  BY DEF IInv, RunningIffAllocated, Steady, Busy
<1> QED
  BY <1>1, Invariant, PTL

-----------------------------------------------------------------------------
\* The streams implement TransferPool.
LEMMA PoolInit == Init => Pool!Init
<1> SUFFICES ASSUME Init PROVE Pool!Init
  OBVIOUS
<1>1. PICK x \in Xfers : TRUE
  BY XfersAssumption
<1>2. \A s \in Streams : ~Allocated(xfer[s]) /\ Flying(xfer[s]) = {}
  BY <1>1 DEF Init, Allocated, Flying, InFlight
<1> QED
  BY <1>2 DEF Pool!Init, Init, phase, lent

\* A step that moves the transfers of one stream at most, seen as a function.
LEMMA PoolChange ==
    ASSUME NEW s \in Streams,
           \A r \in Streams \ {s} : phase'[r] = phase[r] /\ lent'[r] = lent[r]
    PROVE  /\ phase' = [phase EXCEPT ![s] = phase'[s]]
           /\ lent' = [lent EXCEPT ![s] = lent'[s]]
BY DEF phase, lent

LEMMA PoolStep == IInv /\ [Next]_vars => [Pool!Next]_<<phase, lent>>
<1> SUFFICES ASSUME IInv, [Next]_vars PROVE [Pool!Next]_<<phase, lent>>
  OBVIOUS
<1> USE DEF IInv
<1>1. ASSUME NEW s \in Streams, StartIso(s)
      PROVE  Pool!Lend(s)
  <2>1. phase[s] = "off" /\ phase'[s] = "on" /\ lent'[s] \in SUBSET Xfers
    BY <1>1, StartIsoStep DEF phase, lent, Flying
  <2>2. \A r \in Streams \ {s} : phase'[r] = phase[r] /\ lent'[r] = lent[r]
    BY <1>1, StartIsoStep DEF phase, lent
  <2> QED
    BY <2>1, <2>2, PoolChange DEF Pool!Lend
<1>2. ASSUME NEW s \in Streams, NEW x \in Xfers,
             CompleteDead(s, x) \/ ResubmitFails(s, x) \/ DeviceLost(s, x)
      PROVE  Pool!Return(s, x)
  <2>1. /\ x \in Flying(xfer[s]) /\ Flying(xfer'[s]) = Flying(xfer[s]) \ {x}
        /\ \A r \in Streams \ {s} : xfer'[r] = xfer[r]
        /\ \A r \in Streams : Allocated(xfer'[r]) <=> Allocated(xfer[r])
        /\ dead' = dead
    BY <1>2, CallbackSteps, RetireSteps
  <2>2. phase' = phase
    BY <2>1 DEF phase
  <2>3. lent'[s] = lent[s] \ {x} /\ x \in lent[s]
    BY <2>1 DEF lent
  <2>4. \A r \in Streams \ {s} : lent'[r] = lent[r]
    BY <2>1 DEF lent
  <2> QED
    BY <2>2, <2>3, <2>4, PoolChange DEF Pool!Return
<1>3. ASSUME CancelAll
      PROVE  Pool!Drain(cur)
  <2>1. cur \in Streams
    BY DEF TypeOK
  <2>2. lent' = lent
    BY <1>3, CancelAllStep DEF lent
  <2>3. phase[cur] = "on" /\ phase'[cur] = "draining"
    BY <1>3, <2>1, CancelAllStep DEF phase, TypeOK
  <2>4. \A r \in Streams \ {cur} : phase'[r] = phase[r]
    BY <1>3, <2>1, CancelAllStep DEF phase, TypeOK
  <2> QED
    BY <2>1, <2>2, <2>3, <2>4, PoolChange DEF Pool!Drain
<1>4. ASSUME Release
      PROVE  Pool!Reclaim(cur)
  <2>1. cur \in Streams /\ dead' = dead
    BY <1>4 DEF TypeOK, Release
  <2>2. /\ phase[cur] = "draining" /\ phase'[cur] = "off"
        /\ lent[cur] = {} /\ lent'[cur] = {}
    BY <1>4, <2>1, ReleaseStep DEF phase, lent
  <2>3. \A r \in Streams \ {cur} : phase'[r] = phase[r] /\ lent'[r] = lent[r]
    BY <1>4, <2>1, ReleaseStep DEF phase, lent
  <2>4. lent' = lent
    BY <2>1, <2>2, <2>3 DEF lent
  <2> QED
    BY <2>1, <2>2, <2>3, <2>4, PoolChange DEF Pool!Reclaim
<1>5. ASSUME \/ \E s \in Streams : UserStop(s)
             \/ \E s \in Streams, x \in Xfers : Resubmit(s, x)
             \/ FinishStart \/ ProcessEvents \/ EventsDone
             \/ CullStop \/ CullSkip \/ CullDone
             \/ Unplug \/ Crashed \/ UNCHANGED vars
      PROVE  UNCHANGED <<phase, lent>>
  <2>1. UNCHANGED <<xfer, dead>>
    BY <1>5 DEF UserStop, Resubmit, FinishStart, ProcessEvents, EventsDone, CullStop,
       CullSkip, CullDone, Unplug, Crashed, vars
  <2> QED
    BY <2>1 DEF phase, lent
<1>6. cur \in Streams
  BY DEF TypeOK
<1> QED
  BY <1>1, <1>2, <1>3, <1>4, <1>5, <1>6 DEF Next, Library, IsoCallback, Pool!Next

\* The detailed streams, counting in dead_xfers, implement the abstract pool.
THEOREM PoolRefinement == Spec => ImplementsPool
<1>1. Init => Pool!Init
  BY PoolInit
<1>2. IInv /\ [Next]_vars => [Pool!Next]_<<phase, lent>>
  BY PoolStep
<1> QED
  BY <1>1, <1>2, Invariant, PTL DEF Spec, ImplementsPool, Pool!Spec

-----------------------------------------------------------------------------
(***************************************************************************)
(* The emulation of libusb.                                                *)
(***************************************************************************)
Elems(q) == {q[n] : n \in 1..Len(q)}
Distinct(q) == \A i, j \in 1..Len(q) : q[i] = q[j] => i = j

UsbStatus == {"none", "pending", "cancelled", "completed", "no_device"}
UsbStream ==
    [phase : {"stopped", "running", "stopping"}, starts : Nat, dead : 0..Num,
     status : [usb!Transfers -> UsbStatus],
     listTransfers : Seq(usb!Transfers), ready : Seq(usb!Transfers),
     pc : {"none", "attach", "top", "deliver", "reap", "allow", "exit", "end"},
     requested : BOOLEAN, attached : BOOLEAN,
     want : BOOLEAN, allow : BOOLEAN, done : BOOLEAN]

\* Every transfer of a stream is in one of its lists, once, or has been counted.
Whole(s) ==
    /\ Len(s.listTransfers) + Len(s.ready) + s.dead = Num
    /\ Distinct(s.listTransfers) /\ Distinct(s.ready)
    /\ Elems(s.listTransfers) \cap Elems(s.ready) = {}

Empty(s) == s.listTransfers = <<>> /\ s.ready = <<>>

\* A stream that is stopped has empty lists, which is what makes its next start whole; one
\* that lost its device has empty lists too.
UsbStreamInv(s, g) ==
    /\ s \in UsbStream
    /\ IF s.phase = "stopped" THEN Empty(s) ELSE Whole(s) \/ (g /\ s.dead > 0 /\ Empty(s))

UsbRecordInv ==
    /\ record \in [refcount : Nat, lists : 0..1, handles : Nat]
    /\ record.refcount = record.lists + record.handles

\* The inductive invariant of the emulation
UsbInv ==
    /\ UsbRecordInv
    /\ gone \in BOOLEAN
    /\ usbStream \in [Endpoints -> UsbStream]
    /\ \A e \in Endpoints : UsbStreamInv(usbStream[e], gone)

LEMMA TailDistinct ==
    ASSUME NEW S, NEW q \in Seq(S), q # <<>>, Distinct(q)
    PROVE  /\ Head(q) \in S /\ Tail(q) \in Seq(S) /\ Len(q) = Len(Tail(q)) + 1
           /\ Distinct(Tail(q))
           /\ Elems(q) = {Head(q)} \cup Elems(Tail(q)) /\ Head(q) \notin Elems(Tail(q))
<1>1. /\ Head(q) = q[1] /\ Head(q) \in S /\ Tail(q) \in Seq(S)
      /\ Len(q) \in Nat /\ Len(q) > 0 /\ Len(Tail(q)) = Len(q) - 1
      /\ \A n \in 1..Len(Tail(q)) : Tail(q)[n] = q[n + 1]
  OBVIOUS
<1>2. Distinct(Tail(q))
  <2> SUFFICES ASSUME NEW i \in 1..Len(Tail(q)), NEW j \in 1..Len(Tail(q)), Tail(q)[i] = Tail(q)[j]
               PROVE  i = j
    BY DEF Distinct
  <2>1. i + 1 \in 1..Len(q) /\ j + 1 \in 1..Len(q) /\ q[i + 1] = q[j + 1]
    BY <1>1
  <2> QED
    BY <2>1 DEF Distinct
<1>3. Elems(q) = {Head(q)} \cup Elems(Tail(q))
  <2>1. ASSUME NEW x \in Elems(q) PROVE x \in {Head(q)} \cup Elems(Tail(q))
    <3>1. PICK n \in 1..Len(q) : x = q[n]
      BY DEF Elems
    <3>2. CASE n = 1
      BY <3>1, <3>2, <1>1
    <3>3. CASE n # 1
      <4>1. n - 1 \in 1..Len(Tail(q)) /\ Tail(q)[n - 1] = x
        BY <3>1, <3>3, <1>1
      <4> QED
        BY <4>1 DEF Elems
    <3> QED
      BY <3>2, <3>3
  <2>2. ASSUME NEW x \in {Head(q)} \cup Elems(Tail(q)) PROVE x \in Elems(q)
    <3>1. CASE x = Head(q)
      BY <3>1, <1>1 DEF Elems
    <3>2. CASE x \in Elems(Tail(q))
      <4>1. PICK n \in 1..Len(Tail(q)) : x = Tail(q)[n]
        BY <3>2 DEF Elems
      <4>2. n + 1 \in 1..Len(q) /\ q[n + 1] = x
        BY <4>1, <1>1
      <4> QED
        BY <4>2 DEF Elems
    <3> QED
      BY <2>2, <3>1, <3>2
  <2> QED
    BY <2>1, <2>2
<1>4. Head(q) \notin Elems(Tail(q))
  <2> SUFFICES ASSUME NEW n \in 1..Len(Tail(q)), Head(q) = Tail(q)[n] PROVE FALSE
    BY DEF Elems
  <2>1. n + 1 \in 1..Len(q) /\ 1 \in 1..Len(q) /\ q[n + 1] = q[1] /\ n + 1 # 1
    BY <1>1
  <2> QED
    BY <2>1 DEF Distinct
<1> QED
  BY <1>1, <1>2, <1>3, <1>4

LEMMA AppendDistinct ==
    ASSUME NEW S, NEW q \in Seq(S), NEW t \in S, Distinct(q), t \notin Elems(q)
    PROVE  /\ Append(q, t) \in Seq(S) /\ Len(Append(q, t)) = Len(q) + 1
           /\ Distinct(Append(q, t))
           /\ Elems(Append(q, t)) = Elems(q) \cup {t}
<1> DEFINE p == Append(q, t)
<1>1. /\ p \in Seq(S) /\ Len(q) \in Nat /\ Len(p) = Len(q) + 1
      /\ p[Len(q) + 1] = t /\ \A n \in 1..Len(q) : p[n] = q[n]
  OBVIOUS
<1>2. \A n \in 1..Len(p) : n \in 1..Len(q) \/ n = Len(q) + 1
  BY <1>1
<1>3. \A n \in 1..Len(q) : p[n] \in Elems(q) /\ p[n] # t
  BY <1>1 DEF Elems
<1>4. Distinct(p)
  <2> SUFFICES ASSUME NEW i \in 1..Len(p), NEW j \in 1..Len(p), p[i] = p[j]
               PROVE  i = j
    BY DEF Distinct
  <2>1. CASE i \in 1..Len(q) /\ j \in 1..Len(q)
    BY <2>1, <1>1 DEF Distinct
  <2>2. CASE i = Len(q) + 1 \/ j = Len(q) + 1
    BY <2>2, <1>1, <1>2, <1>3
  <2> QED
    BY <2>1, <2>2, <1>2
<1>5. Elems(p) = Elems(q) \cup {t}
  <2>1. ASSUME NEW x \in Elems(p) PROVE x \in Elems(q) \cup {t}
    BY <1>1, <1>2, <1>3 DEF Elems
  <2>2. ASSUME NEW x \in Elems(q) \cup {t} PROVE x \in Elems(p)
    <3>1. Len(q) + 1 \in 1..Len(p) /\ \A n \in 1..Len(q) : n \in 1..Len(p)
      BY <1>1
    <3> QED
      BY <1>1, <3>1 DEF Elems
  <2> QED
    BY <2>1, <2>2
<1> QED
  BY <1>1, <1>4, <1>5

\* What the thread that reaps does with its events leaves the transfers where they are.
LEMMA SameTransfers ==
    ASSUME NEW s, NEW u, NEW g \in BOOLEAN, UsbStreamInv(s, g), u \in UsbStream,
           u.phase = s.phase \/ {s.phase, u.phase} = {"running", "stopping"},
           u.dead = s.dead, u.listTransfers = s.listTransfers, u.ready = s.ready
    PROVE  UsbStreamInv(u, g)
<1>1. u.phase = "stopped" <=> s.phase = "stopped"
  OBVIOUS
<1> QED
  BY <1>1 DEF UsbStreamInv, Whole, Empty

\* The callback of a transfer that was taken out of its list
LEMMA CalledStep ==
    ASSUME NEW s \in UsbStream, NEW t \in usb!Transfers, NEW g \in BOOLEAN,
           s.phase # "stopped", Distinct(s.listTransfers), Distinct(s.ready),
           Elems(s.listTransfers) \cap Elems(s.ready) = {},
           t \notin Elems(s.listTransfers), t \notin Elems(s.ready),
           Len(s.listTransfers) + Len(s.ready) + s.dead + 1 = Num
    PROVE  UsbStreamInv(usb!called(s, t), g)
<1> DEFINE again == usb!submitted(s, t)
           counted == [s EXCEPT !.dead = @ + 1, !.status[t] = "none"]
<1> DEFINE n == Len(s.listTransfers)
           r == Len(s.ready)
           d == s.dead
<1>1. n \in Nat /\ r \in Nat /\ d \in Nat /\ Num \in Nat /\ n + r + d + 1 = Num
  BY UsbAssumption DEF usb!NumAssumption, UsbStream
<1> HIDE DEF n, r, d
<1>4. n + 1 + r + d = Num /\ n + r + (d + 1) = Num /\ d + 1 \in 0..Num
  BY <1>1
<1>2. CASE s.phase = "running" /\ s.status[t] = "completed"
  <2>1. usb!called(s, t) = again
    BY <1>2 DEF usb!called
  <2> DEFINE status == [s.status EXCEPT ![t] = "pending"]
  <2>5. /\ status \in [usb!Transfers -> UsbStatus]
        /\ Append(s.listTransfers, t) \in Seq(usb!Transfers)
    BY DEF UsbStream, UsbStatus
  <2>6. again = [s EXCEPT !.listTransfers = Append(s.listTransfers, t), !.status = status,
                          !.pc = IF s.pc = "none" THEN "attach" ELSE s.pc]
    BY DEF usb!submitted, UsbStream
  <2> HIDE DEF status
  <2>2. /\ again.listTransfers = Append(s.listTransfers, t) /\ again.ready = s.ready
        /\ again.dead = s.dead /\ again.phase = s.phase /\ again \in UsbStream
    BY <2>5, <2>6 DEF UsbStream
  <2> HIDE DEF again
  <2>3. /\ Len(again.listTransfers) = Len(s.listTransfers) + 1 /\ Distinct(again.listTransfers)
        /\ Elems(again.listTransfers) = Elems(s.listTransfers) \cup {t}
    BY <2>2, AppendDistinct DEF UsbStream
  <2>4. Whole(again)
    <3>1. Len(again.listTransfers) = n + 1 /\ Len(again.ready) = r /\ again.dead = d
      BY <2>2, <2>3 DEF n, r, d
    <3>2. Len(again.listTransfers) + Len(again.ready) + again.dead = Num
      BY <3>1, <1>4
    <3> QED
      BY <2>2, <2>3, <3>2 DEF Whole
  <2> QED
    BY <2>1, <2>2, <2>4 DEF UsbStreamInv
<1>3. CASE ~(s.phase = "running" /\ s.status[t] = "completed")
  <2>1. usb!called(s, t) = counted
    BY <1>3 DEF usb!called
  <2> DEFINE status == [s.status EXCEPT ![t] = "none"]
  <2>5. status \in [usb!Transfers -> UsbStatus] /\ s.dead + 1 \in 0..Num
    BY <1>4 DEF UsbStream, UsbStatus, d
  <2>6. counted = [s EXCEPT !.dead = s.dead + 1, !.status = status]
    BY DEF UsbStream
  <2> HIDE DEF status
  <2>2. /\ counted.listTransfers = s.listTransfers /\ counted.ready = s.ready
        /\ counted.dead = s.dead + 1 /\ counted.phase = s.phase
    BY <2>6 DEF UsbStream
  <2>3. counted \in UsbStream
    BY <2>5, <2>6 DEF UsbStream
  <2> HIDE DEF counted
  <2>4. Whole(counted)
    <3>1. Len(counted.listTransfers) = n /\ Len(counted.ready) = r /\ counted.dead = d + 1
      BY <2>2 DEF n, r, d
    <3>2. Len(counted.listTransfers) + Len(counted.ready) + counted.dead = Num
      BY <3>1, <1>4
    <3> QED
      BY <2>2, <3>2 DEF Whole
  <2> QED
    BY <2>1, <2>2, <2>3, <2>4 DEF UsbStreamInv
<1> QED
  BY <1>2, <1>3

LEMMA UsbInit == usb!Init => UsbInv
<1> SUFFICES ASSUME usb!Init PROVE UsbInv
  OBVIOUS
<1>1. Num \in Nat /\ 0 \in 0..Num
  BY UsbAssumption DEF usb!NumAssumption
<1> DEFINE status == [t \in usb!Transfers |-> "none"]
<1>2. status \in [usb!Transfers -> UsbStatus]
  BY DEF UsbStatus
<1> HIDE DEF status
<1>3. usb!NoStream \in UsbStream /\ usb!NoStream.phase = "stopped" /\ Empty(usb!NoStream)
  BY <1>1, <1>2 DEF usb!NoStream, UsbStream, Empty, status
<1>4. UsbStreamInv(usb!NoStream, gone)
  BY <1>3 DEF UsbStreamInv
<1>5. record \in [refcount : Nat, lists : 0..1, handles : Nat]
      /\ record.refcount = record.lists + record.handles
  BY DEF usb!Init
<1> QED
  BY <1>3, <1>4, <1>5 DEF usb!Init, UsbInv, UsbRecordInv

\* A step of one stream
LEMMA OneStream ==
    ASSUME UsbInv, NEW e \in Endpoints, NEW u, UsbStreamInv(u, gone),
           usbStream' = [usbStream EXCEPT ![e] = u], UNCHANGED <<record, gone>>
    PROVE  UsbInv'
<1>1. \A f \in Endpoints : UsbStreamInv(usbStream'[f], gone)
  BY DEF UsbInv
<1>2. usbStream' \in [Endpoints -> UsbStream]
  BY DEF UsbInv, UsbStreamInv
<1>3. gone' = gone /\ UsbRecordInv'
  BY DEF UsbInv, UsbRecordInv
<1>4. \A f \in Endpoints : UsbStreamInv(usbStream'[f], gone')
  BY <1>1, <1>3
<1> QED
  BY <1>2, <1>3, <1>4 DEF UsbInv

\* The steps that move no transfer: the client's with its lists and handles, the handler's
\* and the thread's with their events
LEMMA RecordSteps ==
    ASSUME UsbInv,
           \/ usb!libusb_get_device_list \/ usb!libusb_free_device_list
           \/ usb!libusb_open \/ usb!libusb_close
    PROVE  UsbInv'
<1>1. record \in [refcount : Nat, lists : 0..1, handles : Nat]
      /\ record.refcount = record.lists + record.handles
  BY DEF UsbInv, UsbRecordInv
<1> DEFINE Record == [refcount : Nat, lists : 0..1, handles : Nat]
           f == record.refcount
           l == record.lists
           h == record.handles
<1>5. f \in Nat /\ l \in 0..1 /\ h \in Nat /\ f = l + h /\ {0, 1} \subseteq 0..1
  BY <1>1
<1> HIDE DEF f, l, h
<1>6. ASSUME NEW x \in Nat, NEW y \in 0..1, NEW z \in Nat, x = y + z, record' \in Record,
             record'.refcount = x, record'.lists = y, record'.handles = z
      PROVE  UsbRecordInv'
  BY <1>6 DEF UsbRecordInv
<1>2. UsbRecordInv'
  <2>1. CASE usb!libusb_get_device_list
    <3>1. l = 0 /\ record' = [record EXCEPT !.refcount = f + 1, !.lists = 1]
      BY <2>1 DEF usb!libusb_get_device_list, f, l
    <3>2. f + 1 \in Nat /\ f + 1 = 1 + h /\ 1 \in 0..1
      BY <1>5, <3>1
    <3>3. record' \in Record /\ record'.refcount = f + 1 /\ record'.lists = 1 /\ record'.handles = h
      BY <1>1, <3>1, <3>2 DEF h
    <3> QED
      BY <1>5, <1>6, <3>2, <3>3
  <2>2. CASE usb!libusb_free_device_list
    <3>1. l = 1 /\ record' = [record EXCEPT !.refcount = f - 1, !.lists = 0]
      BY <2>2 DEF usb!libusb_free_device_list, f, l
    <3>2. f - 1 \in Nat /\ f - 1 = 0 + h /\ 0 \in 0..1
      BY <1>5, <3>1
    <3>3. record' \in Record /\ record'.refcount = f - 1 /\ record'.lists = 0 /\ record'.handles = h
      BY <1>1, <3>1, <3>2 DEF h
    <3> QED
      BY <1>5, <1>6, <3>2, <3>3
  <2>3. CASE usb!libusb_open
    <3>1. record' = [record EXCEPT !.refcount = f + 1, !.handles = h + 1]
      BY <2>3 DEF usb!libusb_open, f, h
    <3>2. f + 1 \in Nat /\ h + 1 \in Nat /\ f + 1 = l + (h + 1)
      BY <1>5
    <3>3. record' \in Record /\ record'.refcount = f + 1 /\ record'.lists = l /\ record'.handles = h + 1
      BY <1>1, <3>1, <3>2 DEF l
    <3> QED
      BY <1>5, <1>6, <3>2, <3>3
  <2>4. CASE usb!libusb_close
    <3>1. h > 0 /\ record' = [record EXCEPT !.refcount = f - 1, !.handles = h - 1]
      BY <2>4 DEF usb!libusb_close, f, h
    <3>2. f - 1 \in Nat /\ h - 1 \in Nat /\ f - 1 = l + (h - 1)
      BY <1>5, <3>1
    <3>3. record' \in Record /\ record'.refcount = f - 1 /\ record'.lists = l /\ record'.handles = h - 1
      BY <1>1, <3>1, <3>2 DEF l
    <3> QED
      BY <1>5, <1>6, <3>2, <3>3
  <2> QED
    BY <2>1, <2>2, <2>3, <2>4
<1>3. UNCHANGED <<usbStream, gone>>
  BY DEF usb!libusb_get_device_list, usb!libusb_free_device_list, usb!libusb_open,
         usb!libusb_close
<1> QED
  BY <1>2, <1>3 DEF UsbInv

Moved(s, u) ==
    /\ u \in UsbStream /\ u.phase = s.phase /\ u.dead = s.dead
    /\ u.listTransfers = s.listTransfers /\ u.ready = s.ready

LEMMA EventSteps ==
    ASSUME UsbInv, NEW e \in Endpoints,
           \/ usb!Attach(e) \/ usb!Top(e) \/ usb!NonePending(e)
           \/ usb!Allowed(e) \/ usb!Exit(e) \/ usb!End(e)
    PROVE  UsbInv'
<1> DEFINE s == usbStream[e]
<1>1. s \in UsbStream /\ UsbStreamInv(s, gone) /\ gone \in BOOLEAN
  BY DEF UsbInv
<1>2. PICK u : usb!Becomes(e, u) /\ Moved(s, u)
  <2>1. CASE usb!Attach(e)
    <3> DEFINE u == [s EXCEPT !.pc = "top", !.attached = TRUE, !.requested = FALSE,
                              !.want = FALSE, !.allow = FALSE, !.done = FALSE]
    <3>1. usb!Becomes(e, u)
      BY <2>1 DEF usb!Attach
    <3>2. Moved(s, u)
      BY <1>1 DEF UsbStream, Moved
    <3> QED
      BY <3>1, <3>2
  <2>2. Moved(s, usb!request(s))
    BY <1>1 DEF UsbStream, usb!request, Moved
  <2>3. ASSUME NEW l PROVE Moved(s, [usb!request(s) EXCEPT !.pc = "reap"])
                        /\ Moved(s, [usb!request(s) EXCEPT !.pc = "allow"])
    BY <2>2 DEF UsbStream, Moved
  <2>4. CASE usb!Top(e)
    <3> DEFINE u == IF s.ready = <<>>
                    THEN [s EXCEPT !.pc = IF s.listTransfers = <<>> THEN "exit" ELSE "reap"]
                    ELSE IF s.requested /\ s.allow
                    THEN [s EXCEPT !.pc = "deliver", !.requested = FALSE]
                    ELSE [usb!request(s) EXCEPT !.pc = "reap"]
    <3>1. usb!Becomes(e, u)
      BY <2>4 DEF usb!Top
    <3>2. Moved(s, [s EXCEPT !.pc = IF s.listTransfers = <<>> THEN "exit" ELSE "reap"])
          /\ Moved(s, [s EXCEPT !.pc = "deliver", !.requested = FALSE])
      BY <1>1 DEF UsbStream, Moved
    <3>3. Moved(s, u)
      BY <3>2, <2>3
    <3> QED
      BY <3>1, <3>3
  <2>5. CASE usb!NonePending(e)
    BY <2>5, <2>3 DEF usb!NonePending
  <2>6. CASE usb!Allowed(e)
    <3>1. Moved(s, [s EXCEPT !.pc = "top"])
      BY <1>1 DEF UsbStream, Moved
    <3> QED
      BY <2>6, <3>1 DEF usb!Allowed
  <2>7. CASE usb!Exit(e)
    <3> DEFINE u == IF usb!PoolFree THEN [s EXCEPT !.pc = "end", !.attached = FALSE]
                    ELSE [s EXCEPT !.want = TRUE, !.done = TRUE]
    <3>1. usb!Becomes(e, u)
      BY <2>7 DEF usb!Exit
    <3>2. Moved(s, u)
      BY <1>1 DEF UsbStream, Moved
    <3> QED
      BY <3>1, <3>2
  <2>8. CASE usb!End(e)
    <3>1. Moved(s, [s EXCEPT !.pc = "none"])
      BY <1>1 DEF UsbStream, Moved
    <3> QED
      BY <2>8, <3>1 DEF usb!End
  <2> QED
    BY <2>1, <2>4, <2>5, <2>6, <2>7, <2>8
<1> HIDE DEF s
<1>3. UsbStreamInv(u, gone)
  BY <1>1, <1>2, SameTransfers DEF Moved
<1> QED
  BY <1>2, <1>3, OneStream DEF usb!Becomes

\* fnusb_start_iso, fnusb_stop_iso
LEMMA ClientSteps ==
    ASSUME UsbInv, NEW e \in Endpoints, usb!Start(e) \/ usb!Stop(e) \/ usb!Stopped(e)
    PROVE  UsbInv'
<1> DEFINE s == usbStream[e]
<1>1. s \in UsbStream /\ UsbStreamInv(s, gone) /\ gone \in BOOLEAN /\ Num \in Nat
  BY UsbAssumption DEF UsbInv, usb!NumAssumption
<1>2. CASE usb!Start(e)
  <2> DEFINE list == [n \in usb!Transfers |-> n]
             status == [t \in usb!Transfers |-> "pending"]
             count == s.starts + 1
             at == IF s.pc = "none" THEN "attach" ELSE s.pc
             u == [s EXCEPT !.phase = "running", !.starts = count, !.dead = 0,
                            !.listTransfers = list, !.status = status, !.pc = at]
  <2>1. usb!Becomes(e, u) /\ s.phase = "stopped"
    BY <1>1, <1>2 DEF usb!Start, UsbStream
  <2>2. list \in Seq(usb!Transfers) /\ Len(list) = Num /\ \A n \in 1..Num : list[n] = n
    BY <1>1 DEF usb!Transfers
  <2>3. status \in [usb!Transfers -> UsbStatus]
    BY DEF UsbStatus
  <2>4. Distinct(list) /\ s.ready = <<>>
    BY <1>1, <2>1, <2>2 DEF Distinct, UsbStreamInv, Empty
  <2>8. /\ count \in Nat /\ 0 \in 0..Num
        /\ at \in {"none", "attach", "top", "deliver", "reap", "allow", "exit", "end"}
    BY <1>1 DEF UsbStream
  <2> HIDE DEF list, status, count, at
  <2>5. /\ u \in UsbStream /\ u.phase = "running" /\ u.dead = 0
        /\ u.listTransfers = list /\ u.ready = <<>>
    BY <1>1, <2>2, <2>3, <2>4, <2>8 DEF UsbStream
  <2> HIDE DEF u
  <2>6. Len(<<>>) = 0 /\ Elems(<<>>) = {} /\ Distinct(<<>>)
    BY DEF Elems, Distinct
  <2>7. Whole(u)
    BY <1>1, <2>2, <2>4, <2>5, <2>6 DEF Whole
  <2> QED
    BY <2>1, <2>5, <2>7, OneStream DEF UsbStreamInv, usb!Becomes
<1>3. CASE usb!Stop(e)
  <2> DEFINE status == [t \in usb!Transfers |-> "cancelled"]
             u == [s EXCEPT !.phase = "stopping", !.status = status]
  <2>1. usb!Becomes(e, u) /\ s.phase = "running"
    BY <1>3 DEF usb!Stop
  <2>2. status \in [usb!Transfers -> UsbStatus]
    BY DEF UsbStatus
  <2> HIDE DEF status
  <2>3. /\ u \in UsbStream /\ u.phase = "stopping" /\ u.dead = s.dead
        /\ u.listTransfers = s.listTransfers /\ u.ready = s.ready
    BY <1>1, <2>2 DEF UsbStream
  <2> HIDE DEF u, s
  <2>4. UsbStreamInv(u, gone)
    BY <1>1, <2>1, <2>3, SameTransfers
  <2> QED
    BY <2>1, <2>4, OneStream DEF usb!Becomes
<1>4. CASE usb!Stopped(e)
  <2> DEFINE u == [s EXCEPT !.phase = "stopped"]
  <2>1. usb!Becomes(e, u) /\ s.phase = "stopping" /\ s.dead = Num
    BY <1>4 DEF usb!Stopped
  <2>2. /\ u \in UsbStream /\ u.phase = "stopped"
        /\ u.listTransfers = s.listTransfers /\ u.ready = s.ready
    BY <1>1 DEF UsbStream
  <2>3. s.listTransfers \in Seq(usb!Transfers) /\ s.ready \in Seq(usb!Transfers)
    BY <1>1 DEF UsbStream
  <2> DEFINE n == Len(s.listTransfers)
             r == Len(s.ready)
  <2>7. n \in Nat /\ r \in Nat
    BY <2>3
  <2> HIDE DEF u, s, n, r
  <2>4. Whole(s) => Len(s.listTransfers) = 0 /\ Len(s.ready) = 0
    <3> SUFFICES ASSUME Whole(s) PROVE n = 0 /\ r = 0
      BY DEF n, r
    <3>1. n + r + Num = Num
      BY <2>1 DEF Whole, n, r
    <3> QED
      BY <1>1, <2>7, <3>1
  <2>5. Empty(s)
    BY <1>1, <2>1, <2>3, <2>4 DEF UsbStreamInv, Empty
  <2>6. UsbStreamInv(u, gone)
    BY <2>2, <2>5 DEF UsbStreamInv, Empty
  <2> QED
    BY <2>1, <2>6, OneStream DEF usb!Becomes
<1> QED
  BY <1>2, <1>3, <1>4

\* The head of the list, or of the ready transfers, is taken out and called back, or moved.
LEMMA TransferSteps ==
    ASSUME UsbInv, NEW e \in Endpoints,
           usb!libusbemu_deliver_transfer(e) \/ usb!ReapTransfer(e)
    PROVE  UsbInv'
<1> DEFINE s == usbStream[e]
           list == s.listTransfers
           ready == s.ready
           n == Len(list)
           r == Len(ready)
           d == s.dead
<1>1. s \in UsbStream /\ UsbStreamInv(s, gone) /\ gone \in BOOLEAN /\ Num \in Nat
  BY UsbAssumption DEF UsbInv, usb!NumAssumption
<1>2. list \in Seq(usb!Transfers) /\ ready \in Seq(usb!Transfers)
      /\ n \in Nat /\ r \in Nat /\ d \in Nat
  BY <1>1 DEF UsbStream
<1>3. ASSUME list # <<>> \/ ready # <<>>
      PROVE  /\ s.phase # "stopped" /\ n + r + d = Num
             /\ Distinct(list) /\ Distinct(ready) /\ Elems(list) \cap Elems(ready) = {}
  BY <1>1, <1>3 DEF UsbStreamInv, Whole, Empty
<1> HIDE DEF n, r, d
<1>4. CASE usb!libusbemu_deliver_transfer(e) /\ ready = <<>>
  <2> DEFINE u == [s EXCEPT !.pc = "reap", !.done = TRUE]
  <2>1. usb!Becomes(e, u)
    BY <1>4 DEF usb!libusbemu_deliver_transfer
  <2>2. u \in UsbStream /\ Moved(s, u)
    BY <1>1 DEF UsbStream, Moved
  <2> HIDE DEF s, u
  <2>3. UsbStreamInv(u, gone)
    BY <1>1, <2>2, SameTransfers DEF Moved
  <2> QED
    BY <2>1, <2>3, OneStream DEF usb!Becomes
<1>5. CASE usb!libusbemu_deliver_transfer(e) /\ ready # <<>>
  <2> DEFINE t == Head(ready)
             v == [s EXCEPT !.ready = Tail(ready)]
  <2>1. usb!Becomes(e, usb!called(v, t))
    BY <1>5 DEF usb!libusbemu_deliver_transfer
  <2>2. /\ t \in usb!Transfers /\ Tail(ready) \in Seq(usb!Transfers)
        /\ r = Len(Tail(ready)) + 1 /\ Distinct(Tail(ready))
        /\ Elems(ready) = {t} \cup Elems(Tail(ready)) /\ t \notin Elems(Tail(ready))
    BY <1>2, <1>3, <1>5, TailDistinct DEF r
  <2>3. /\ v \in UsbStream /\ v.phase = s.phase /\ v.dead = s.dead
        /\ v.listTransfers = list /\ v.ready = Tail(ready)
    BY <1>1, <2>2 DEF UsbStream
  <2> DEFINE k == Len(Tail(ready))
  <2>4. k \in Nat /\ r = k + 1
    BY <2>2
  <2> HIDE DEF k
  <2>5. n + k + d + 1 = Num
    BY <1>2, <1>3, <1>5, <2>4
  <2>6. Len(v.listTransfers) + Len(v.ready) + v.dead + 1 = Num
    BY <2>3, <2>5 DEF n, k, d
  <2> HIDE DEF s, v, t, list, ready
  <2>7. UsbStreamInv(usb!called(v, t), gone)
    BY <1>1, <1>3, <1>5, <2>2, <2>3, <2>6, CalledStep
  <2> QED
    BY <2>1, <2>7, OneStream DEF usb!Becomes
<1>6. CASE usb!ReapTransfer(e)
  <2> DEFINE t == Head(list)
  <2>0. list # <<>>
    BY <1>6 DEF usb!ReapTransfer, usb!Reaped, usb!TimedOut, usb!Lost
  <2>1. /\ t \in usb!Transfers /\ Tail(list) \in Seq(usb!Transfers)
        /\ n = Len(Tail(list)) + 1 /\ Distinct(Tail(list))
        /\ Elems(list) = {t} \cup Elems(Tail(list)) /\ t \notin Elems(Tail(list))
    BY <1>2, <1>3, <2>0, TailDistinct DEF n
  <2> DEFINE k == Len(Tail(list))
  <2>2. k \in Nat /\ n = k + 1
    BY <2>1
  <2> HIDE DEF k
  <2>3. k + r + d + 1 = Num /\ k + (r + 1) + d = Num /\ d + 1 \in 0..Num /\ d + 1 > 0
    BY <1>1, <1>2, <1>3, <2>0, <2>2
  <2>4. CASE usb!Reaped(e)
    <3> DEFINE status == [s.status EXCEPT ![t] = "completed"]
               u == [s EXCEPT !.pc = "top", !.status = status,
                              !.listTransfers = Tail(list), !.ready = Append(ready, t)]
    <3>1. usb!Becomes(e, u)
      BY <1>1, <2>4 DEF usb!Reaped, UsbStream
    <3>2. status \in [usb!Transfers -> UsbStatus]
      BY <1>1 DEF UsbStream, UsbStatus
    <3>3. /\ Append(ready, t) \in Seq(usb!Transfers) /\ Len(Append(ready, t)) = r + 1
          /\ Distinct(Append(ready, t)) /\ Elems(Append(ready, t)) = Elems(ready) \cup {t}
      <4> HIDE DEF status, t, s, list, ready, u
      <4>1. t \notin Elems(ready) /\ Distinct(ready)
        BY <1>3, <2>0, <2>1
      <4> QED
        BY <1>2, <2>1, <4>1, AppendDistinct DEF r
    <3> HIDE DEF status, t
    <3>4. /\ u \in UsbStream /\ u.phase = s.phase /\ u.dead = d
          /\ u.listTransfers = Tail(list) /\ u.ready = Append(ready, t)
      BY <1>1, <2>1, <3>2, <3>3 DEF UsbStream, d
    <3> HIDE DEF u, s, list, ready
    <3>5. Len(u.listTransfers) + Len(u.ready) + u.dead = Num
      BY <2>3, <3>3, <3>4 DEF k
    <3>6. Whole(u)
      BY <1>3, <2>0, <2>1, <3>3, <3>4, <3>5 DEF Whole
    <3>7. UsbStreamInv(u, gone)
      BY <1>3, <2>0, <3>4, <3>6 DEF UsbStreamInv
    <3> QED
      BY <3>1, <3>7, OneStream DEF usb!Becomes, s
  <2>5. CASE usb!TimedOut(e)
    <3> DEFINE v == [s EXCEPT !.pc = "top", !.listTransfers = Tail(list)]
               w == [s EXCEPT !.pc = "top"]
               u == IF s.status[t] = "cancelled" THEN usb!called(v, t) ELSE w
    <3>1. usb!Becomes(e, u)
      BY <2>5 DEF usb!TimedOut
    <3>2. Moved(s, w) /\ w \in UsbStream
      BY <1>1 DEF UsbStream, Moved
    <3>3. /\ v \in UsbStream /\ v.phase = s.phase /\ v.dead = d
          /\ v.listTransfers = Tail(list) /\ v.ready = ready
      BY <1>1, <2>1 DEF UsbStream, d
    <3> HIDE DEF s, t, v, w, list, ready
    <3>4. UsbStreamInv(w, gone)
      BY <1>1, <3>2, SameTransfers DEF Moved
    <3>5. Len(v.listTransfers) + Len(v.ready) + v.dead + 1 = Num
      BY <2>3, <3>3 DEF k, r
    <3>6. UsbStreamInv(usb!called(v, t), gone)
      BY <1>1, <1>3, <2>0, <2>1, <3>3, <3>5, CalledStep
    <3> QED
      BY <3>1, <3>4, <3>6, OneStream DEF usb!Becomes, s
  <2>6. CASE usb!Lost(e)
    <3> DEFINE status == [s.status EXCEPT ![t] = "no_device"]
               u == [s EXCEPT !.pc = "top", !.listTransfers = <<>>, !.ready = <<>>,
                              !.dead = d + 1, !.status = status]
    <3>1. usb!Becomes(e, u) /\ gone
      BY <1>1, <2>6 DEF usb!Lost, UsbStream, d
    <3>2. status \in [usb!Transfers -> UsbStatus]
      BY <1>1 DEF UsbStream, UsbStatus
    <3>6. <<>> \in Seq(usb!Transfers)
      OBVIOUS
    <3> HIDE DEF status
    <3>3. u \in UsbStream /\ u.phase = s.phase /\ u.dead = d + 1 /\ Empty(u)
      BY <1>1, <2>3, <3>2, <3>6 DEF UsbStream, Empty
    <3> HIDE DEF u, s
    <3>4. u.dead > 0
      BY <2>3, <3>3
    <3>5. UsbStreamInv(u, gone)
      BY <1>3, <2>0, <3>1, <3>3, <3>4 DEF UsbStreamInv
    <3> QED
      BY <3>1, <3>5, OneStream DEF usb!Becomes, s
  <2> QED
    BY <1>6, <2>4, <2>5, <2>6 DEF usb!ReapTransfer
<1> QED
  BY <1>4, <1>5, <1>6

\* libusb_handle_events changes no more of a stream than its events.
LEMMA HandlerSteps ==
    ASSUME UsbInv, usb!Handle
    PROVE  UsbInv'
<1>1. CASE UNCHANGED <<record, usbStream, gone>>
  BY <1>1 DEF UsbInv, UsbRecordInv
<1>2. ASSUME NEW e \in Endpoints, usb!Permit(e)
      PROVE  UsbInv'
  <2> DEFINE s == usbStream[e]
             u == [s EXCEPT !.allow = TRUE, !.want = FALSE]
  <2>1. usbStream' = [usbStream EXCEPT ![e] = u] /\ UNCHANGED <<record, gone>>
    BY <1>2 DEF usb!Permit, UsbInv
  <2>2. s \in UsbStream /\ UsbStreamInv(s, gone) /\ gone \in BOOLEAN
    BY DEF UsbInv
  <2>3. u \in UsbStream /\ Moved(s, u)
    BY <2>2 DEF UsbStream, Moved
  <2> HIDE DEF s, u
  <2>4. UsbStreamInv(u, gone)
    BY <2>2, <2>3, SameTransfers DEF Moved
  <2> QED
    BY <2>1, <2>4, OneStream
<1> QED
  BY <1>1, <1>2 DEF usb!Handle, usb!libusb_handle_events, usb!WaitAny, usb!Permitted, usb!WaitAll

LEMMA UsbStep == UsbInv /\ [usb!Next]_usbVars => UsbInv'
<1> SUFFICES ASSUME UsbInv, [usb!Next]_usbVars PROVE UsbInv'
  OBVIOUS
<1>1. CASE usb!libusb_get_device_list \/ usb!libusb_free_device_list
           \/ usb!libusb_open \/ usb!libusb_close
  BY <1>1, RecordSteps
<1>2. CASE usb!Handle
  BY <1>2, HandlerSteps
<1>3. CASE usb!Unplug
  <2>1. gone' = TRUE /\ UNCHANGED <<record, usbStream>>
    BY <1>3 DEF usb!Unplug
  <2>2. \A e \in Endpoints : UsbStreamInv(usbStream[e], TRUE)
    BY DEF UsbInv, UsbStreamInv
  <2> QED
    BY <2>1, <2>2 DEF UsbInv, UsbRecordInv
<1>4. ASSUME NEW e \in Endpoints,
             usb!Start(e) \/ usb!Stop(e) \/ usb!Stopped(e) \/ usb!ReapThreadProc(e)
      PROVE  UsbInv'
  BY <1>4, ClientSteps, EventSteps, TransferSteps DEF usb!ReapThreadProc
<1>5. CASE UNCHANGED usbVars
  BY <1>5 DEF UsbInv, UsbRecordInv, usbVars
<1> QED
  BY <1>1, <1>2, <1>3, <1>4, <1>5 DEF usb!Next

\* Every step of the two parts is one of the emulation, or leaves it alone.
LEMMA UsbPart == MCSpec => usb!Init /\ [][usb!Next]_usbVars
<1>1. MCInit => usb!Init
  BY DEF MCInit
<1>2. [MCNext]_allVars => [usb!Next]_usbVars
  BY DEF MCNext, allVars, usbVars
<1> QED
  BY <1>1, <1>2, PTL DEF MCSpec

\* The emulation loses no transfer: until its device is lost, each transfer of a stream
\* that runs is in one of the lists of its thread or has been counted by the client; and the
\* record of a device counts the list and the handles that refer to it.
THEOREM TransfersCorrect == MCSpec => []TransfersAccounted
<1>1. usb!Init => UsbInv
  BY UsbInit
<1>2. UsbInv /\ [usb!Next]_usbVars => UsbInv'
  BY UsbStep
<1>3. UsbInv => TransfersAccounted
  <2> SUFFICES ASSUME UsbInv PROVE TransfersAccounted
    OBVIOUS
  <2>1. \A e \in Endpoints : usbStream[e] \in UsbStream /\ UsbStreamInv(usbStream[e], gone)
    BY DEF UsbInv
  <2>2. usb!TypeOK
    BY <2>1 DEF usb!TypeOK, UsbInv, UsbRecordInv, UsbStream
  <2>3. usb!RecordKept
    BY DEF usb!RecordKept, UsbInv, UsbRecordInv
  <2>4. usb!TransfersAccounted
    <3> SUFFICES ASSUME NEW e \in Endpoints, usbStream[e].phase # "stopped",
                        gone => usbStream[e].dead = 0
                 PROVE  Whole(usbStream[e])
      BY DEF usb!TransfersAccounted, Whole, Elems
    <3>1. ASSUME usbStream[e].dead = 0 PROVE ~(usbStream[e].dead > 0)
      BY <3>1
    <3> QED
      BY <2>1, <3>1 DEF UsbStreamInv
  <2> QED
    BY <2>2, <2>3, <2>4 DEF TransfersAccounted
<1> QED
  BY <1>1, <1>2, <1>3, UsbPart, PTL
=============================================================================
