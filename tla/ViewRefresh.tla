---------------------------- MODULE ViewRefresh ----------------------------
(***************************************************************************)
(* How a change of the Compilation reaches the client: publishers bump     *)
(* state_version and signal views_dirty, the refresher task turns the      *)
(* signal into a refresh request, the client pulls again.  Also the start  *)
(* of the server: pulls are answered empty and symbol queries wait until   *)
(* the initial index is done.                                              *)
(*                                                                         *)
(* A tokio Notify is a permit (notify_one stores one, waking consumes it)  *)
(* and a set of registered waiters (notify_waiters wakes those registered  *)
(* and stores nothing).                                                    *)
(***************************************************************************)
EXTENDS Naturals, FiniteSets

CONSTANTS
  Publishers,  \* threads that publish a Compilation
  Waiters,     \* symbol queries blocked in await_initial_index
  None,        \* nobody
  MaxContent   \* bound on view-changing publishes

ASSUME MaxContentAssumption == MaxContent \in Nat \ {0}
ASSUME NoneAssumption == None \notin Publishers

VARIABLES
  content,   \* the published Compilation, counted by its view-changing swaps
  version,   \* state_version
  permit,    \* the permit of views_dirty
  lock,      \* holder of writer_lock
  pub,       \* pub[p]: "idle", "bump" or "notify"
  init,      \* progress of the initialized handler
  ready,     \* initial_index_done
  rpc,       \* the refresher: "unborn", "wait" or "load"
  last,      \* last_emitted
  due,       \* the client has a refresh request it has not acted on
  pull,      \* the pull in progress
  report,    \* what the client shows
  waiter,    \* waiter[w]: where a symbol query is
  woken      \* registered waiters notify_waiters has woken

vars == <<content, version, permit, lock, pub, init, ready, rpc, last, due,
          pull, report, waiter, woken>>
publishing == <<content, version, permit, lock, pub>>
client     == <<due, pull, report>>
queries    == <<waiter, woken>>

NoReport    == [kind |-> "none", content |-> 0]
EmptyReport == [kind |-> "empty", content |-> 0]
Report(c)   == [kind |-> "full", content |-> c]
NoPull      == [pc |-> "idle", version |-> 0, content |-> 0]

PullType   == [pc : {"idle", "snap", "reply"}, version : Nat, content : 0 .. MaxContent]
ReportType == [kind : {"none", "empty", "full"}, content : 0 .. MaxContent]

\* Types, and the lock: a publisher holds writer_lock from its swap until it
\* has signalled.
TypeOK ==
  /\ content \in 0 .. MaxContent
  /\ version \in Nat
  /\ last \in 0 .. version
  /\ permit \in BOOLEAN
  /\ pub \in [Publishers -> {"idle", "bump", "notify"}]
  /\ \A p \in Publishers : lock = p <=> pub[p] # "idle"
  /\ lock \in Publishers \cup {None}
  /\ init \in {"start", "index", "flag", "waiters", "bump", "notify", "done"}
  /\ ready \in BOOLEAN
  /\ rpc \in {"unborn", "wait", "load"}
  /\ due \in BOOLEAN
  /\ pull \in PullType
  /\ report \in ReportType
  /\ waiter \in [Waiters -> {"idle", "enabled", "checked", "parked", "answered"}]
  /\ woken \subseteq Waiters

Init ==
  /\ content = 0
  /\ version = 0
  /\ permit = FALSE
  /\ lock = None
  /\ pub = [p \in Publishers |-> "idle"]
  /\ init = "start"
  /\ ready = FALSE
  /\ rpc = "unborn"
  /\ last = 0
  /\ due = FALSE
  /\ pull = NoPull
  /\ report = NoReport
  /\ waiter = [w \in Waiters |-> "idle"]
  /\ woken = {}

-----------------------------------------------------------------------------
(* publish_compilation: swap, then bump, then signal, under writer_lock.   *)

Swap(p) ==
  /\ pub[p] = "idle"
  /\ lock = None
  /\ content < MaxContent
  /\ content' = content + 1
  /\ lock' = p
  /\ pub' = [pub EXCEPT ![p] = "bump"]
  /\ UNCHANGED <<version, permit, init, ready, rpc, last, client, queries>>

Bump(p) ==
  /\ pub[p] = "bump"
  /\ version' = version + 1
  /\ pub' = [pub EXCEPT ![p] = "notify"]
  /\ UNCHANGED <<content, permit, lock, init, ready, rpc, last, client, queries>>

\* Variant: the version moves and no signal is sent.
NotifySilently(p) ==
  /\ pub[p] = "notify"
  /\ lock' = None
  /\ pub' = [pub EXCEPT ![p] = "idle"]
  /\ UNCHANGED <<content, version, permit, init, ready, rpc, last, client, queries>>

\* Variant: writer_lock is left to the next publisher still held.
NotifyKeepsLock(p) ==
  /\ pub[p] = "notify"
  /\ permit' = TRUE
  /\ pub' = [pub EXCEPT ![p] = "idle"]
  /\ UNCHANGED <<content, version, lock, init, ready, rpc, last, client, queries>>

Notify(p) ==
  /\ pub[p] = "notify"
  /\ permit' = TRUE
  /\ lock' = None
  /\ pub' = [pub EXCEPT ![p] = "idle"]
  /\ UNCHANGED <<content, version, init, ready, rpc, last, client, queries>>

-----------------------------------------------------------------------------
(* The initialized handler.                                                *)

SpawnRefresher ==
  /\ init = "start"
  /\ rpc' = "wait"
  /\ init' = "index"
  /\ UNCHANGED <<publishing, ready, last, client, queries>>

(* index_workspace and index_base_scripts publish as any publisher does.   *)
IndexDone ==
  /\ init = "index"
  /\ init' = "flag"
  /\ UNCHANGED <<publishing, ready, rpc, last, client, queries>>

SetReady ==
  /\ init = "flag"
  /\ ready' = TRUE
  /\ init' = "waiters"
  /\ UNCHANGED <<publishing, rpc, last, client, queries>>

\* Variant: a query registers only when it parks.
RegisteredOnAwait == {w \in Waiters : waiter[w] = "parked"}

(* enable() registers a query before it looks at the flag.                 *)
Registered == {w \in Waiters : waiter[w] \in {"enabled", "checked", "parked"}}

NotifyWaiters ==
  /\ init = "waiters"
  /\ woken' = Registered
  /\ init' = "bump"
  /\ UNCHANGED <<publishing, ready, rpc, last, client, waiter>>

\* Variant: no refresh follows the flag.
MarkBumpSkipped ==
  /\ init = "bump"
  /\ init' = "done"
  /\ UNCHANGED <<publishing, ready, rpc, last, client, queries>>

(* mark_state_changed.                                                     *)
MarkBump ==
  /\ init = "bump"
  /\ version' = version + 1
  /\ init' = "notify"
  /\ UNCHANGED <<content, permit, lock, pub, ready, rpc, last, client, queries>>

MarkNotify ==
  /\ init = "notify"
  /\ permit' = TRUE
  /\ init' = "done"
  /\ UNCHANGED <<content, version, lock, pub, ready, rpc, last, client, queries>>

-----------------------------------------------------------------------------
(* run_view_refresher.                                                     *)

RefresherWake ==
  /\ rpc = "wait"
  /\ permit
  /\ permit' = FALSE
  /\ rpc' = "load"
  /\ UNCHANGED <<content, version, lock, pub, init, ready, last, client, queries>>

(* The version already emitted is not emitted again.                       *)
RefresherEmit ==
  /\ rpc = "load"
  /\ last' = version
  /\ due' = (due \/ version # last)
  /\ rpc' = "wait"
  /\ UNCHANGED <<publishing, init, ready, pull, report, queries>>

-----------------------------------------------------------------------------
(* The client pulls when asked to, or on its own account.                  *)

PullStart ==
  /\ pull = NoPull
  /\ due' = FALSE
  /\ IF ready
     THEN /\ pull' = [pc |-> "snap", version |-> version, content |-> 0]
          /\ UNCHANGED report
     ELSE /\ report' = EmptyReport
          /\ UNCHANGED pull
  /\ UNCHANGED <<publishing, init, ready, rpc, last, queries>>

(* run_pull_compute: the snapshot, then the first version check.           *)
PullSnap ==
  /\ pull.pc = "snap"
  /\ pull' = IF version = pull.version
             THEN [pull EXCEPT !.pc = "reply", !.content = content] ELSE NoPull
  /\ UNCHANGED <<publishing, init, ready, rpc, last, due, report, queries>>

(* The last check, by the workers; a cancelled pull is not retried here,   *)
(* the refresh that follows the change that cancelled it will ask again.   *)
PullReply ==
  /\ pull.pc = "reply"
  /\ report' = IF version = pull.version THEN Report(pull.content) ELSE report
  /\ pull' = NoPull
  /\ UNCHANGED <<publishing, init, ready, rpc, last, due, queries>>

-----------------------------------------------------------------------------
(* await_initial_index: register, look at the flag, park.                  *)

WaiterEnable(w) ==
  /\ waiter[w] = "idle"
  /\ waiter' = [waiter EXCEPT ![w] = "enabled"]
  /\ UNCHANGED <<publishing, init, ready, rpc, last, client, woken>>

WaiterCheck(w) ==
  /\ waiter[w] = "enabled"
  /\ waiter' = [waiter EXCEPT ![w] = IF ready THEN "answered" ELSE "checked"]
  /\ UNCHANGED <<publishing, init, ready, rpc, last, client, woken>>

WaiterPark(w) ==
  /\ waiter[w] = "checked"
  /\ waiter' = [waiter EXCEPT ![w] = "parked"]
  /\ UNCHANGED <<publishing, init, ready, rpc, last, client, woken>>

(* A woken waiter goes round the loop again.                               *)
WaiterResume(w) ==
  /\ waiter[w] = "parked"
  /\ w \in woken
  /\ waiter' = [waiter EXCEPT ![w] = "idle"]
  /\ woken' = woken \ {w}
  /\ UNCHANGED <<publishing, init, ready, rpc, last, client>>

-----------------------------------------------------------------------------
Publish(p)  == Bump(p) \/ Notify(p)
Initialized == SpawnRefresher \/ IndexDone \/ SetReady \/ NotifyWaiters \/ MarkBump \/ MarkNotify
Refresher   == RefresherWake \/ RefresherEmit
Pull        == PullSnap \/ PullReply
Waiting(w)  == WaiterEnable(w) \/ WaiterCheck(w) \/ WaiterPark(w) \/ WaiterResume(w)

Next == \/ \E p \in Publishers : Swap(p) \/ Publish(p)
        \/ Initialized \/ Refresher \/ PullStart \/ Pull
        \/ \E w \in Waiters : Waiting(w)

Spec == Init /\ [][Next]_vars

(* Tasks and threads that can run do run; the client answers a refresh     *)
(* request by pulling.                                                     *)
FairSpec ==
  /\ Spec
  /\ \A p \in Publishers : WF_vars(Publish(p))
  /\ WF_vars(Initialized)
  /\ WF_vars(Refresher)
  /\ WF_vars(Pull)
  /\ WF_vars(due /\ PullStart)
  /\ \A w \in Waiters : WF_vars(WaiterCheck(w) \/ WaiterPark(w) \/ WaiterResume(w))
                        /\ WF_vars(waiter[w] = "idle" /\ ready /\ WaiterEnable(w))

-----------------------------------------------------------------------------
(* Properties.                                                             *)

\* A refresher at rest has emitted the version the state is at, unless a
\* publisher is about to signal (run_view_refresher, publish_compilation,
\* mark_state_changed): no bump is slept through, however signals coalesce.
NoMissedRefresh ==
  rpc = "wait" /\ ~permit /\ init # "notify" /\ (\A p \in Publishers : pub[p] # "notify")
    => last = version

\* A query parked on the initial index is registered with the notification
\* that ends the wait: the one sent after the flag finds it, or it sees the
\* flag (await_initial_index).
NoStrandedQuery ==
  \A w \in Waiters :
    waiter[w] \in {"checked", "parked"} /\ init \notin {"start", "index", "flag", "waiters"}
      => w \in woken

\* Once publishing stops, the client ends up showing the published state; a
\* report given before the index was ready does not stay (document_diagnostic
\* answers empty before the initial index and counts on the later refresh).
ClientCatchesUp ==
  <>[](report = Report(content))

\* A query that waits for the initial index is answered.
QueriesAnswered ==
  \A w \in Waiters : waiter[w] = "parked" ~> waiter[w] = "answered"
=============================================================================
