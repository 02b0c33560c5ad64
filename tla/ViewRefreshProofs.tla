------------------------- MODULE ViewRefreshProofs -------------------------
(***************************************************************************)
(* Theorems about ViewRefresh, for every set of publishers and queries.    *)
(***************************************************************************)
EXTENDS ViewRefresh, TLAPS

\* A refresher that is at rest, or not yet started, has emitted the current
\* version unless a signal is there or on its way.
RefreshInv ==
  /\ init = "start" => rpc = "unborn"
  /\ rpc \in {"unborn", "wait"} /\ ~permit /\ init # "notify"
       /\ (\A p \in Publishers : pub[p] # "notify") => last = version

\* The flag is set exactly once the initial index is done, before the
\* waiters are notified.
ReadyInv == ready <=> init \notin {"start", "index", "flag"}

\* The records that pulls and reports take.
LEMMA RecordTypes ==
  /\ NoPull \in PullType
  /\ NoReport \in ReportType
  /\ EmptyReport \in ReportType
  /\ \A c \in 0 .. MaxContent : Report(c) \in ReportType
  /\ \A v \in Nat : [pc |-> "snap", version |-> v, content |-> 0] \in PullType
  /\ \A p \in PullType, c \in 0 .. MaxContent :
       [p EXCEPT !.pc = "reply", !.content = c] \in PullType
  /\ \A p \in PullType : p.content \in 0 .. MaxContent
  <1>0. MaxContent \in Nat
    BY MaxContentAssumption
  <1>1. /\ NoPull \in PullType
        /\ \A v \in Nat : [pc |-> "snap", version |-> v, content |-> 0] \in PullType
    BY <1>0 DEF PullType, NoPull
  <1>2. /\ NoReport \in ReportType
        /\ EmptyReport \in ReportType
        /\ \A c \in 0 .. MaxContent : Report(c) \in ReportType
    BY <1>0 DEF ReportType, NoReport, EmptyReport, Report
  <1>3. ASSUME NEW p \in PullType, NEW c \in 0 .. MaxContent
        PROVE  [p EXCEPT !.pc = "reply", !.content = c] \in PullType
    BY <1>3 DEF PullType
  <1>4. ASSUME NEW p \in PullType PROVE p.content \in 0 .. MaxContent
    BY <1>4 DEF PullType
  <1> QED
    BY <1>1, <1>2, <1>3, <1>4

LEMMA InitTypes == Init => TypeOK
  <1> SUFFICES ASSUME Init PROVE TypeOK
    OBVIOUS
  <1>1. pull \in PullType /\ report \in ReportType
    BY RecordTypes DEF Init
  <1>2. content \in 0 .. MaxContent /\ version \in Nat /\ last \in 0 .. version
    BY MaxContentAssumption DEF Init
  <1>3. \A p \in Publishers : lock = p <=> pub[p] # "idle"
    BY NoneAssumption DEF Init
  <1> QED
    BY <1>1, <1>2, <1>3 DEF Init, TypeOK

LEMMA NextTypes == TypeOK /\ [Next]_vars => TypeOK'
  <1> SUFFICES ASSUME TypeOK, [Next]_vars PROVE TypeOK'
    OBVIOUS
  <1> USE DEF TypeOK, publishing, client, queries
  <1>0. MaxContent \in Nat /\ None \notin Publishers
    BY MaxContentAssumption, NoneAssumption
  <1>1. ASSUME NEW p \in Publishers, Swap(p) PROVE TypeOK'
    BY <1>0, <1>1 DEF Swap
  <1>2. ASSUME NEW p \in Publishers, Bump(p) PROVE TypeOK'
    BY <1>2 DEF Bump
  <1>3. ASSUME NEW p \in Publishers, Notify(p) PROVE TypeOK'
    BY <1>0, <1>3 DEF Notify
  <1>4. CASE SpawnRefresher \/ IndexDone \/ SetReady
    BY <1>4 DEF SpawnRefresher, IndexDone, SetReady
  <1>5. CASE NotifyWaiters
    BY <1>5 DEF NotifyWaiters, Registered
  <1>6. CASE MarkBump \/ MarkNotify
    <2>1. CASE MarkBump
      BY <2>1 DEF MarkBump
    <2>2. CASE MarkNotify
      BY <2>2 DEF MarkNotify
    <2> QED
      BY <1>6, <2>1, <2>2
  <1>7. CASE RefresherWake
    BY <1>7 DEF RefresherWake
  <1>8. CASE RefresherEmit
    BY <1>8 DEF RefresherEmit
  <1>9. CASE PullStart
    BY <1>9, RecordTypes DEF PullStart
  <1>10. CASE PullSnap
    BY <1>10, RecordTypes DEF PullSnap
  <1>11. CASE PullReply
    BY <1>11, RecordTypes DEF PullReply
  <1>12. ASSUME NEW w \in Waiters, Waiting(w) PROVE TypeOK'
    BY <1>12 DEF Waiting, WaiterEnable, WaiterCheck, WaiterPark, WaiterResume
  <1>13. CASE UNCHANGED vars
    BY <1>13 DEF vars
  <1> QED
    BY <1>1, <1>2, <1>3, <1>4, <1>5, <1>6, <1>7, <1>8, <1>9, <1>10, <1>11, <1>12, <1>13
       DEF Next, Publish, Initialized, Refresher, Pull

\* Types, and that a publisher holds writer_lock from its swap until it has
\* signalled (publish_compilation).
THEOREM TypeCorrect == Spec => []TypeOK
  BY InitTypes, NextTypes, PTL DEF Spec

\* However signals coalesce, no change of state_version is slept through
\* (run_view_refresher, publish_compilation, mark_state_changed).
THEOREM NeverMissesRefresh == Spec => []NoMissedRefresh
  <1>1. Init => RefreshInv
    BY DEF Init, RefreshInv
  <1>2. TypeOK /\ RefreshInv /\ [Next]_vars => RefreshInv'
    <2> SUFFICES ASSUME TypeOK, RefreshInv, [Next]_vars PROVE RefreshInv'
      OBVIOUS
    <2> USE DEF RefreshInv, TypeOK, publishing, client, queries
    <2>1. ASSUME NEW p \in Publishers, Swap(p) \/ Publish(p) PROVE RefreshInv'
      <3>1. CASE Swap(p)
        BY <3>1 DEF Swap
      <3>2. CASE Bump(p)
        <4>1. pub'[p] = "notify" /\ UNCHANGED <<init, rpc>>
          BY <3>2 DEF Bump
        <4> QED
          BY <4>1
      <3>3. CASE Notify(p)
        BY <3>3 DEF Notify
      <3> QED
        BY <2>1, <3>1, <3>2, <3>3 DEF Publish
    <2>2. CASE Initialized
      <3>1. CASE SpawnRefresher \/ IndexDone \/ SetReady \/ NotifyWaiters
        <4>1. /\ UNCHANGED <<permit, version, last, pub>>
              /\ init # "notify" /\ init' \notin {"start", "notify"}
              /\ rpc' \in {"unborn", "wait"} => rpc \in {"unborn", "wait"}
          BY <3>1 DEF SpawnRefresher, IndexDone, SetReady, NotifyWaiters
        <4> QED
          BY <4>1
      <3>2. CASE MarkBump
        BY <3>2 DEF MarkBump
      <3>3. CASE MarkNotify
        BY <3>3 DEF MarkNotify
      <3> QED
        BY <2>2, <3>1, <3>2, <3>3 DEF Initialized
    <2>3. CASE Refresher
      BY <2>3 DEF Refresher, RefresherWake, RefresherEmit
    <2>4. CASE PullStart \/ Pull \/ (\E w \in Waiters : Waiting(w)) \/ UNCHANGED vars
      BY <2>4 DEF PullStart, Pull, PullSnap, PullReply, Waiting, WaiterEnable, WaiterCheck,
                  WaiterPark, WaiterResume, vars
    <2> QED
      BY <2>1, <2>2, <2>3, <2>4 DEF Next
  <1>3. RefreshInv => NoMissedRefresh
    BY DEF RefreshInv, NoMissedRefresh
  <1> QED
    BY <1>1, <1>2, <1>3, TypeCorrect, PTL DEF Spec

\* A query that waits for the initial index either sees the flag or is among
\* the waiters notify_waiters wakes, whatever the interleaving
\* (await_initial_index).
THEOREM NeverStrandsQuery == Spec => []NoStrandedQuery
  <1>1. Init => ReadyInv /\ NoStrandedQuery
    BY DEF Init, ReadyInv, NoStrandedQuery
  <1>2. TypeOK /\ ReadyInv /\ NoStrandedQuery /\ [Next]_vars => (ReadyInv /\ NoStrandedQuery)'
    <2> SUFFICES ASSUME TypeOK, ReadyInv, NoStrandedQuery, [Next]_vars
                 PROVE  ReadyInv' /\ NoStrandedQuery'
      OBVIOUS
    <2> USE DEF ReadyInv, NoStrandedQuery, TypeOK, publishing, client, queries
    <2>1. CASE Initialized
      BY <2>1 DEF Initialized, SpawnRefresher, IndexDone, SetReady, NotifyWaiters, Registered,
                  MarkBump, MarkNotify
    <2>2. ASSUME NEW w \in Waiters, Waiting(w) PROVE ReadyInv' /\ NoStrandedQuery'
      BY <2>2 DEF Waiting, WaiterEnable, WaiterCheck, WaiterPark, WaiterResume
    <2>3. CASE UNCHANGED <<init, ready, waiter, woken>>
      BY <2>3
    <2>4. CASE (\E p \in Publishers : Swap(p) \/ Publish(p)) \/ Refresher \/ PullStart \/ Pull
      BY <2>3, <2>4 DEF Swap, Publish, Bump, Notify, Refresher, RefresherWake, RefresherEmit,
                        PullStart, Pull, PullSnap, PullReply
    <2> QED
      BY <2>1, <2>2, <2>3, <2>4 DEF Next, vars
  <1> QED
    BY <1>1, <1>2, TypeCorrect, PTL DEF Spec
=============================================================================
