--------------------------- MODULE DiagPullProofs ---------------------------
(***************************************************************************)
(* Theorems about DiagPull, for every set of files, publishers and pulls   *)
(* and every bound, however they interleave.                               *)
(***************************************************************************)
EXTENDS DiagPull, FiniteSetTheorems, TLAPS

-----------------------------------------------------------------------------
(* The inductive invariants.                                               *)

\* Publishers that are going to move legacy_db_generation.
Rebuilding == {p \in Publishers : pub[p] # IdlePub /\ pub[p].kind = "base"}

\* A publisher of a file is past its swap for good: the Compilation has the
\* version it published, or a later one.
PubInv ==
  /\ IsFiniteSet(Rebuilding)
  /\ gen + Cardinality(Rebuilding) <= published
  /\ \A p \in Publishers :
       /\ pub[p].pc \in {"rebuild", "generation"} => pub[p].kind = "base"
       /\ pub[p].pc \in {"lookup", "evict", "remove"} => pub[p].kind \in {"edit", "file"}
       /\ pub[p].pc = "remove" => pub[p].kind = "edit"
       /\ pub[p] # IdlePub /\ pub[p].kind = "edit" =>
            pub[p].uri \in Uris /\ pub[p].target <= comp.ver[pub[p].uri]

\* What a pull knows at each of its stages.
PullInv ==
  \A q \in Pulls :
    /\ pull[q].pc \in {"doc", "pending", "snap", "lookup"} =>
         pull[q].fresh = {} /\ ~pull[q].cancelled
    /\ pull[q].pc \in {"lookup", "compute", "reply"} => pull[q].snap \in Compilation
    /\ pull[q].pc = "compute" => pull[q].todo \cap pull[q].fresh = {}
    /\ pull[q].pc = "reply" => pull[q].todo = {} /\ ~pull[q].cancelled

\* A queued edit is the last one received, and an edit leaves the queue only
\* when the Compilation has it.
QueueInv ==
  \A u \in Uris :
    /\ comp.ver[u] < next
    /\ pending[u] # 0 => pending[u] = received[u] /\ comp.ver[u] <= pending[u]
    /\ pending[u] = 0 => comp.ver[u] >= received[u]

\* A document pull that read an older version than it was asked about still
\* finds the edit queued, or finds that state_version has moved.
Outdated(q, u) == pull[q].kind = "document" /\ u \in pull[q].docs /\ pull[q].ver[u] < pull[q].asked[u]

AskedInv ==
  \A q \in Pulls : pull[q] # IdlePull =>
    \A u \in Uris :
      /\ u \in pull[q].docs => pull[q].asked[u] <= received[u]
      /\ pull[q].pc = "pending" /\ Outdated(q, u) =>
           \/ stateVersion > pull[q].version
           \/ /\ pending[u] # 0
              /\ \A p \in Publishers :
                   pub[p].pc \in {"lookup", "evict", "remove"} /\ pub[p].kind = "edit"
                     /\ pub[p].uri = u => pub[p].target < pull[q].asked[u]
      /\ pull[q].pc = "snap" /\ Outdated(q, u) => stateVersion > pull[q].version
      /\ pull[q].pc \in {"lookup", "compute", "reply"} => ~Outdated(q, u)

\* The keys of a diagnosis are those it was computed for.
Keyed(d, ver, base) == d \in Diag /\ d.own = ver /\ d.base = base

OwnInv ==
  /\ \A u \in Uris : cache[u] # None => Keyed(cache[u].diag, cache[u].ver, cache[u].base)
  /\ \A q \in Pulls : pull[q].pc \in {"compute", "reply"} =>
       \A u \in pull[q].docs :
         u \in pull[q].fresh \/ (u \notin pull[q].todo /\ ~pull[q].cancelled)
           => Keyed(pull[q].out[u], pull[q].ver[u], pull[q].snap.base)
  /\ \A u \in Uris : got[u] # None => Keyed(got[u].diag, got[u].id[1], got[u].id[3])

-----------------------------------------------------------------------------
(* Shapes.                                                                 *)

\* A publisher is idle exactly when its program counter says so; otherwise it
\* has all its fields.
LEMMA PubShape ==
  ASSUME TypeOK, NEW p \in Publishers
  PROVE  /\ pub[p] = IdlePub <=> pub[p].pc = "idle"
         /\ pub[p] # IdlePub => pub[p] \in PubState
  BY DEF TypeOK, PubState, IdlePub

\* The same for pulls.
LEMMA PullShape ==
  ASSUME TypeOK, NEW q \in Pulls
  PROVE  /\ pull[q] = IdlePull <=> pull[q].pc = "idle"
         /\ pull[q] # IdlePull =>
              /\ pull[q].pc \in {"doc", "pending", "snap", "lookup", "compute", "reply"}
              /\ pull[q].docs \subseteq Uris
              /\ pull[q].kind \in {"document", "workspace"}
              /\ pull[q].version \in 0 .. stateVersion
              /\ pull[q].asked \in [pull[q].docs -> 0 .. MaxVersion]
              /\ pull[q].ver \in [pull[q].docs -> 0 .. MaxVersion]
              /\ pull[q].snap \in Compilation \cup {None}
              /\ pull[q].gen \in 0 .. gen
              /\ pull[q].todo \subseteq pull[q].docs
              /\ pull[q].fresh \subseteq pull[q].docs
              /\ pull[q].cancelled \in BOOLEAN
              /\ pull[q].out \in [pull[q].docs -> Diag \cup {None}]
  BY DEF TypeOK, PullState, IdlePull

\* What stays the same of a pull that takes a step and goes on, and of the
\* other pulls.
Goes(q) ==
  /\ DOMAIN pull' = Pulls
  /\ \A r \in Pulls \ {q} : pull'[r] = pull[r]
  /\ pull'[q] \in PullState(pull[q].docs)
  /\ pull'[q].docs = pull[q].docs
  /\ pull'[q].kind = pull[q].kind
  /\ pull'[q].version = pull[q].version
  /\ pull'[q].asked = pull[q].asked

\* A pull that ends: it failed, or it has answered.
Ends(q) ==
  /\ DOMAIN pull' = Pulls
  /\ \A r \in Pulls \ {q} : pull'[r] = pull[r]
  /\ pull'[q] = IdlePull

LEMMA FailEnds ==
  ASSUME TypeOK, NEW q \in Pulls, Fail(q)
  PROVE  Ends(q)
  BY DEF TypeOK, Fail, Ends

\* What each step of a pull changes.
LEMMA DocGoes ==
  ASSUME TypeOK, NEW q \in Pulls, PullDoc(q)
  PROVE  /\ Goes(q)
         /\ pull[q].pc = "doc"
         /\ pull'[q].pc = IF pull[q].kind = "document" THEN "pending" ELSE "snap"
         /\ pull'[q].ver = [u \in pull[q].docs |-> comp.ver[u]]
         /\ pull'[q].fresh = pull[q].fresh
         /\ pull'[q].cancelled = pull[q].cancelled
  <1>1. pull[q] # IdlePull /\ pull[q] \in PullState(pull[q].docs)
    BY PullShape DEF PullDoc, TypeOK
  <1>2. [u \in pull[q].docs |-> comp.ver[u]] \in [pull[q].docs -> 0 .. MaxVersion]
    BY <1>1, PullShape DEF TypeOK, Compilation
  <1>3. DOMAIN pull = Pulls
    BY DEF TypeOK
  <1> QED
    BY <1>1, <1>2, <1>3 DEF PullDoc, Goes, PullState

LEMMA PendingGoes ==
  ASSUME TypeOK, NEW q \in Pulls, PullPending(q)
  PROVE  \/ Ends(q)
         \/ /\ Goes(q)
            /\ pull[q].pc = "pending"
            /\ \A u \in pull[q].docs : ~(pending[u] > pull[q].ver[u])
            /\ pull'[q].pc = "snap"
            /\ pull'[q].ver = pull[q].ver
            /\ pull'[q].fresh = pull[q].fresh
            /\ pull'[q].cancelled = pull[q].cancelled
  <1>1. pull[q] # IdlePull /\ pull[q] \in PullState(pull[q].docs) /\ DOMAIN pull = Pulls
    BY PullShape DEF PullPending, TypeOK
  <1>2. CASE Fail(q)
    BY <1>2, FailEnds
  <1>3. CASE /\ ~ \E u \in pull[q].docs : pending[u] > pull[q].ver[u]
             /\ pull' = [pull EXCEPT ![q].pc = "snap"]
    BY <1>1, <1>3 DEF Goes, PullState, PullPending
  <1> QED
    BY <1>2, <1>3 DEF PullPending

LEMMA SnapGoes ==
  ASSUME TypeOK, NEW q \in Pulls, PullSnap(q)
  PROVE  \/ Ends(q)
         \/ /\ Goes(q)
            /\ pull[q].pc = "snap"
            /\ Current(q)
            /\ pull'[q].pc = "lookup"
            /\ pull'[q].snap = comp
            /\ pull'[q].gen = gen
            /\ pull'[q].ver = pull[q].ver
            /\ pull'[q].fresh = pull[q].fresh
            /\ pull'[q].cancelled = pull[q].cancelled
  <1>1. pull[q] # IdlePull /\ pull[q] \in PullState(pull[q].docs) /\ DOMAIN pull = Pulls
    BY PullShape DEF PullSnap, TypeOK
  <1>2. comp \in Compilation /\ gen \in 0 .. gen
    BY DEF TypeOK
  <1>3. CASE Fail(q)
    BY <1>3, FailEnds
  <1>4. CASE Current(q) /\ pull' = [pull EXCEPT ![q].snap = comp, ![q].gen = gen, ![q].pc = "lookup"]
    BY <1>1, <1>2, <1>4 DEF Goes, PullState, PullSnap
  <1> QED
    BY <1>3, <1>4 DEF PullSnap

LEMMA LookupGoes ==
  ASSUME TypeOK, NEW q \in Pulls, PullLookup(q)
  PROVE  \/ Ends(q)
         \/ /\ Goes(q)
            /\ pull[q].pc = "lookup"
            /\ Current(q)
            /\ pull'[q].pc = "compute"
            /\ pull'[q].gen = pull[q].gen
            /\ pull'[q].snap = pull[q].snap
            /\ pull'[q].ver = pull[q].ver
            /\ pull'[q].fresh = pull[q].fresh
            /\ pull'[q].cancelled = pull[q].cancelled
            /\ pull'[q].todo = {u \in pull[q].docs : ~Hit(q, u)}
            /\ \A u \in pull[q].docs : Hit(q, u) => pull'[q].out[u] = cache[u].diag
  <1> DEFINE hits == {u \in pull[q].docs : Hit(q, u)}
             out  == [u \in pull[q].docs |-> IF u \in hits THEN cache[u].diag ELSE None]
             todo == pull[q].docs \ hits
  <1>1. /\ pull[q] # IdlePull
        /\ pull[q] \in PullState(pull[q].docs)
        /\ DOMAIN pull = Pulls
        /\ pull[q].docs \subseteq Uris
    BY PullShape DEF PullLookup, TypeOK
  <1>2. CASE Fail(q)
    BY <1>2, FailEnds
  <1>3. CASE /\ Current(q)
             /\ pull' = [pull EXCEPT ![q].todo = todo, ![q].out = out, ![q].pc = "compute"]
    <2>1. \A u \in Uris : cache[u] # None => cache[u].diag \in Diag
      BY DEF TypeOK, CacheEntry
    <2>2. out \in [pull[q].docs -> Diag \cup {None}]
      BY <1>1, <2>1 DEF Hit
    <2>3. todo \in SUBSET pull[q].docs /\ todo = {u \in pull[q].docs : ~Hit(q, u)}
      OBVIOUS
    <2>4. \A u \in pull[q].docs : Hit(q, u) => out[u] = cache[u].diag
      OBVIOUS
    <2> HIDE DEF hits, out, todo
    <2>5. /\ Goes(q)
          /\ pull'[q].pc = "compute"
          /\ pull'[q].gen = pull[q].gen
          /\ pull'[q].snap = pull[q].snap
          /\ pull'[q].ver = pull[q].ver
          /\ pull'[q].fresh = pull[q].fresh
          /\ pull'[q].cancelled = pull[q].cancelled
          /\ pull'[q].todo = todo
          /\ pull'[q].out = out
      BY <1>1, <1>3, <2>2, <2>3 DEF Goes, PullState
    <2> QED
      BY <1>3, <2>3, <2>4, <2>5 DEF PullLookup
  <1> QED
    BY <1>2, <1>3 DEF PullLookup

LEMMA ComputeGoes ==
  ASSUME TypeOK, PullInv, NEW q \in Pulls, NEW u \in Uris, PullCompute(q, u)
  PROVE  /\ Goes(q)
         /\ u \in pull[q].docs
         /\ pull[q].pc = "compute"
         /\ pull'[q].pc = "compute"
         /\ pull'[q].gen = pull[q].gen
         /\ pull'[q].snap = pull[q].snap
         /\ pull'[q].ver = pull[q].ver
         /\ pull'[q].todo = pull[q].todo \ {u}
         /\ \A w \in pull[q].docs \ {u} : pull'[q].out[w] = pull[q].out[w]
         /\ \/ /\ Current(q)
               /\ pull'[q].cancelled = pull[q].cancelled
               /\ pull'[q].fresh = pull[q].fresh \cup {u}
               /\ pull'[q].out[u] = Truth(u, pull[q].ver[u], pull[q].snap)
               /\ pull'[q].out[u] \in Diag
            \/ /\ ~Current(q)
               /\ pull'[q].cancelled
               /\ pull'[q].fresh = pull[q].fresh
  <1>1. /\ pull[q] # IdlePull
        /\ pull[q] \in PullState(pull[q].docs)
        /\ DOMAIN pull = Pulls
        /\ pull[q].docs \subseteq Uris
        /\ u \in pull[q].docs
        /\ pull[q].snap \in Compilation
        /\ pull[q].ver[u] \in 0 .. MaxVersion
        /\ pull[q].cancelled \in BOOLEAN
    BY PullShape DEF PullCompute, PullInv, TypeOK
  <1>2. Truth(u, pull[q].ver[u], pull[q].snap) \in Diag
    <2>1. Observes[u] \in SUBSET Uris
      BY ScopeAssumption
    <2>2. [k \in Observes[u] |-> pull[q].snap.sym[k]] \in [Observes[u] -> Syms]
      BY <1>1, <2>1 DEF Compilation
    <2>3. pull[q].snap.base \in 0 .. 1 /\ pull[q].snap.sup \in 0 .. 1
      BY <1>1 DEF Compilation
    <2> QED
      BY <1>1, <2>1, <2>2, <2>3 DEF Truth, Diag
  <1> DEFINE todo == pull[q].todo \ {u}
             gone == pull[q].cancelled \/ ~Current(q)
             fresh == IF Current(q) THEN pull[q].fresh \cup {u} ELSE pull[q].fresh
             diag == IF Current(q) THEN Truth(u, pull[q].ver[u], pull[q].snap) ELSE None
             out == [pull[q].out EXCEPT ![u] = diag]
  <1>3. /\ todo \in SUBSET pull[q].docs
        /\ gone \in BOOLEAN
        /\ fresh \in SUBSET pull[q].docs
    BY <1>1, PullShape
  <1>4. /\ out \in [pull[q].docs -> Diag \cup {None}]
        /\ out[u] = diag
        /\ \A w \in pull[q].docs \ {u} : out[w] = pull[q].out[w]
    BY <1>1, <1>2, PullShape
  <1>5. pull' = [pull EXCEPT ![q].todo = todo, ![q].cancelled = gone,
                             ![q].fresh = fresh, ![q].out[u] = diag]
    BY DEF PullCompute
  <1>6. pull' = [pull EXCEPT ![q] = [pull[q] EXCEPT !.todo = todo, !.cancelled = gone,
                                                    !.fresh = fresh, !.out = out]]
    BY <1>1, <1>5 DEF PullState
  <1> HIDE DEF todo, gone, fresh, diag, out
  <1>7. /\ Goes(q)
        /\ pull'[q].pc = pull[q].pc
        /\ pull'[q].gen = pull[q].gen
        /\ pull'[q].snap = pull[q].snap
        /\ pull'[q].ver = pull[q].ver
        /\ pull'[q].todo = todo
        /\ pull'[q].cancelled = gone
        /\ pull'[q].fresh = fresh
        /\ pull'[q].out = out
    BY <1>1, <1>3, <1>4, <1>6 DEF Goes, PullState
  <1>8. CASE Current(q)
    BY <1>1, <1>2, <1>4, <1>7, <1>8 DEF PullCompute, todo, gone, fresh, diag
  <1>9. CASE ~Current(q)
    BY <1>1, <1>4, <1>7, <1>9 DEF PullCompute, todo, gone, fresh, diag
  <1> QED
    BY <1>8, <1>9

LEMMA CommitGoes ==
  ASSUME TypeOK, NEW q \in Pulls, PullCommit(q)
  PROVE  \/ Ends(q)
         \/ /\ Goes(q)
            /\ pull[q].pc = "compute"
            /\ pull[q].todo = {}
            /\ ~pull[q].cancelled
            /\ pull'[q].pc = "reply"
            /\ pull'[q].gen = pull[q].gen
            /\ pull'[q].snap = pull[q].snap
            /\ pull'[q].ver = pull[q].ver
            /\ pull'[q].fresh = pull[q].fresh
            /\ pull'[q].todo = pull[q].todo
            /\ pull'[q].out = pull[q].out
            /\ pull'[q].cancelled = pull[q].cancelled
  <1>1. pull[q] # IdlePull /\ pull[q] \in PullState(pull[q].docs) /\ DOMAIN pull = Pulls
    BY PullShape DEF PullCommit, TypeOK
  <1>2. CASE Fail(q)
    BY <1>2, FailEnds
  <1>3. CASE ~pull[q].cancelled /\ pull' = [pull EXCEPT ![q].pc = "reply"]
    BY <1>1, <1>3 DEF Goes, PullState, PullCommit
  <1> QED
    BY <1>2, <1>3 DEF PullCommit

\* What a publisher's swap leaves it with.
LEMMA StoreGoes ==
  ASSUME TypeOK, NEW p \in Publishers, NEW c \in Compilation,
         NEW kind \in {"edit", "file", "folder", "base"}, NEW u \in Uris \cup {None},
         NEW keys \in SUBSET Uris, Store(p, c, kind, u, keys)
  PROVE  /\ pub' \in [Publishers -> PubState \cup {IdlePub}]
         /\ \A o \in Publishers \ {p} : pub'[o] = pub[o]
         /\ pub'[p].pc = "stored"
         /\ pub'[p].kind = kind
         /\ pub'[p].uri = u
         /\ u \in Uris => pub'[p].target = c.ver[u]
         /\ pub'[p].keys = keys
         /\ pub'[p] # IdlePub
  <1> DEFINE rec == [pc |-> "stored", kind |-> kind, uri |-> u,
                     target |-> IF u = None THEN 0 ELSE c.ver[u], keys |-> keys, inval |-> {}]
  <1>1. (IF u = None THEN 0 ELSE c.ver[u]) \in 0 .. MaxVersion
    BY BoundsAssumption DEF Compilation
  <1>2. rec \in PubState
    BY <1>1 DEF PubState
  <1>3. rec # IdlePub
    BY <1>2 DEF PubState, IdlePub
  <1>4. u \in Uris => rec.target = c.ver[u]
    BY NoneAssumption
  <1>5. pub' = [pub EXCEPT ![p] = rec] /\ pub \in [Publishers -> PubState \cup {IdlePub}]
    BY DEF Store, TypeOK
  <1>6. rec.pc = "stored" /\ rec.kind = kind /\ rec.uri = u /\ rec.keys = keys
    OBVIOUS
  <1> HIDE DEF rec
  <1> QED
    BY <1>2, <1>3, <1>4, <1>5, <1>6

\* What the later steps of a publisher change of it.
Works(p) ==
  /\ pub' \in [Publishers -> PubState \cup {IdlePub}]
  /\ \A o \in Publishers \ {p} : pub'[o] = pub[o]
  /\ pub[p] # IdlePub
  /\ pub'[p] # IdlePub
  /\ pub'[p].kind = pub[p].kind
  /\ pub'[p].uri = pub[p].uri
  /\ pub'[p].target = pub[p].target
  /\ pub'[p].keys = pub[p].keys

Finishes(p) ==
  /\ pub' \in [Publishers -> PubState \cup {IdlePub}]
  /\ \A o \in Publishers \ {p} : pub'[o] = pub[o]
  /\ pub[p] # IdlePub
  /\ pub'[p] = IdlePub

LEMMA StepGoes ==
  ASSUME TypeOK, NEW p \in Publishers
  PROVE  /\ Bump(p) =>
              \/ pub[p].kind = "folder" /\ Finishes(p)
              \/ pub[p].kind = "base" /\ Works(p) /\ pub'[p].pc = "rebuild"
              \/ pub[p].kind \in {"edit", "file"} /\ Works(p) /\ pub'[p].pc = "lookup"
         /\ Rebuild(p) => Works(p) /\ pub'[p].pc = "generation"
         /\ NextGeneration(p) => Finishes(p)
         /\ Lookup(p) => /\ Works(p)
                         /\ pub'[p].pc = "evict"
                         /\ pub'[p].inval = {u \in Uris : subs[u] \cap pub[p].keys # {}}
         /\ Evict(p) => \/ pub[p].kind = "edit" /\ Works(p) /\ pub'[p].pc = "remove"
                        \/ pub[p].kind # "edit" /\ Finishes(p)
         /\ RemovePending(p) => Finishes(p)
  <1> USE DEF Works, Finishes
  <1>0. /\ pub \in [Publishers -> PubState \cup {IdlePub}]
        /\ pub[p] = IdlePub <=> pub[p].pc = "idle"
        /\ pub[p] # IdlePub => pub[p] \in PubState
    BY PubShape DEF TypeOK
  <1>1. \A r \in PubState : r # IdlePub
    BY DEF PubState, IdlePub
  <1>2. ASSUME Bump(p)
        PROVE  \/ pub[p].kind = "folder" /\ Finishes(p)
               \/ pub[p].kind = "base" /\ Works(p) /\ pub'[p].pc = "rebuild"
               \/ pub[p].kind \in {"edit", "file"} /\ Works(p) /\ pub'[p].pc = "lookup"
    <2>1. pub[p] \in PubState /\ pub[p].kind \in {"edit", "file", "folder", "base"}
      BY <1>0, <1>2 DEF Bump, PubState
    <2>2. CASE pub[p].kind = "folder"
      BY <1>0, <1>1, <1>2, <2>1, <2>2 DEF Bump
    <2>3. CASE pub[p].kind = "base"
      <3>1. pub' = [pub EXCEPT ![p] = [pub[p] EXCEPT !.pc = "rebuild"]]
        BY <1>2, <2>3 DEF Bump
      <3> QED
        BY <1>0, <1>1, <2>1, <2>3, <3>1 DEF PubState
    <2>4. CASE pub[p].kind \in {"edit", "file"}
      <3>1. pub' = [pub EXCEPT ![p] = [pub[p] EXCEPT !.pc = "lookup"]]
        BY <1>2, <2>4 DEF Bump
      <3> QED
        BY <1>0, <1>1, <2>1, <2>4, <3>1 DEF PubState
    <2> QED
      BY <2>1, <2>2, <2>3, <2>4
  <1>3. ASSUME Rebuild(p) PROVE Works(p) /\ pub'[p].pc = "generation"
    BY <1>0, <1>1, <1>3 DEF Rebuild, PubState
  <1>4. ASSUME NextGeneration(p) PROVE Finishes(p)
    BY <1>0, <1>1, <1>4 DEF NextGeneration
  <1>5. ASSUME Lookup(p)
        PROVE  Works(p) /\ pub'[p].pc = "evict"
               /\ pub'[p].inval = {u \in Uris : subs[u] \cap pub[p].keys # {}}
    <2> DEFINE I == {u \in Uris : subs[u] \cap pub[p].keys # {}}
    <2>1. pub' = [pub EXCEPT ![p] = [pub[p] EXCEPT !.pc = "evict", !.inval = I]]
      BY <1>0, <1>5 DEF Lookup
    <2>2. I \in SUBSET Uris /\ pub[p] \in PubState
      BY <1>0, <1>5 DEF Lookup
    <2> HIDE DEF I
    <2>3. Works(p) /\ pub'[p].pc = "evict" /\ pub'[p].inval = I
      BY <1>0, <1>1, <2>1, <2>2 DEF PubState
    <2> QED
      BY <2>3 DEF I
  <1>6. ASSUME Evict(p)
        PROVE  \/ pub[p].kind = "edit" /\ Works(p) /\ pub'[p].pc = "remove"
               \/ pub[p].kind # "edit" /\ Finishes(p)
    <2>1. pub[p] \in PubState
      BY <1>0, <1>6 DEF Evict
    <2>2. CASE pub[p].kind = "edit"
      <3>1. pub' = [pub EXCEPT ![p] = [pub[p] EXCEPT !.pc = "remove"]]
        BY <1>6, <2>2 DEF Evict
      <3> QED
        BY <1>0, <1>1, <2>1, <2>2, <3>1 DEF PubState
    <2>3. CASE pub[p].kind # "edit"
      BY <1>0, <1>1, <1>6, <2>1, <2>3 DEF Evict
    <2> QED
      BY <2>2, <2>3
  <1>7. ASSUME RemovePending(p) PROVE Finishes(p)
    BY <1>0, <1>1, <1>7 DEF RemovePending
  <1> QED
    BY <1>2, <1>3, <1>4, <1>5, <1>6, <1>7

\* Every publish is the swap of a typed Compilation: the versions of its files
\* grow, and the outward symbols of a file change only under its key, unless a
\* workspace folder is indexed again.
Swap(p, c, kind, u, keys) ==
  /\ Store(p, c, kind, u, keys)
  /\ kind # "base" => u \in Uris /\ c.base = comp.base /\ c.sup = comp.sup
  /\ kind = "base" => c.ver = comp.ver /\ c.sym = comp.sym /\ keys = {}
  /\ kind = "folder" => keys = {}
  /\ kind \in {"edit", "file"} => \A w \in Uris \ keys : c.sym[w] = comp.sym[w]
  /\ \A w \in Uris : \/ c.ver[w] = comp.ver[w]
                     \/ c.ver[w] = pending[w] /\ pending[w] # 0
                     \/ c.ver[w] = next /\ pending[w] = 0 /\ next' = next + 1
  /\ next' \in {next, next + 1}
  /\ next' <= MaxVersion + 1

LEMMA PublishSwaps ==
  ASSUME TypeOK, NEW p \in Publishers, Publish(p)
  PROVE  \E c \in Compilation, kind \in {"edit", "file", "folder", "base"},
            u \in Uris \cup {None}, keys \in SUBSET Uris : Swap(p, c, kind, u, keys)
  <1>0. /\ next \in 1 .. MaxVersion + 1
        /\ comp \in Compilation
        /\ MaxVersion \in Nat
        /\ \A u \in Uris : pending[u] \in 0 .. MaxVersion
    BY BoundsAssumption DEF TypeOK
  <1>1. ASSUME NEW u \in Uris, NEW s \in Syms, NEW v \in 0 .. MaxVersion
        PROVE  LET c == [comp EXCEPT !.ver[u] = v, !.sym[u] = s] IN
               /\ c \in Compilation
               /\ c.base = comp.base /\ c.sup = comp.sup
               /\ c.ver[u] = v
               /\ \A w \in Uris \ {u} : c.ver[w] = comp.ver[w]
               /\ \A w \in Uris \ ChangedKeys(u, s) : c.sym[w] = comp.sym[w]
               /\ ChangedKeys(u, s) \in SUBSET Uris
    BY <1>0 DEF Compilation, ChangedKeys
  <1>2. ASSUME NEW u \in Uris, NEW s \in Syms, StoreEdit(p, u, s)
        PROVE  \E c \in Compilation, keys \in SUBSET Uris : Swap(p, c, "edit", u, keys)
    <2> DEFINE c == [comp EXCEPT !.ver[u] = pending[u], !.sym[u] = s]
    <2>1. /\ Store(p, c, "edit", u, ChangedKeys(u, s))
          /\ pending[u] # 0
          /\ next' = next
      BY <1>2 DEF StoreEdit
    <2>2. /\ c \in Compilation
          /\ c.base = comp.base /\ c.sup = comp.sup
          /\ c.ver[u] = pending[u]
          /\ \A w \in Uris \ {u} : c.ver[w] = comp.ver[w]
          /\ \A w \in Uris \ ChangedKeys(u, s) : c.sym[w] = comp.sym[w]
          /\ ChangedKeys(u, s) \in SUBSET Uris
      BY <1>0, <1>1
    <2> HIDE DEF c
    <2>3. Swap(p, c, "edit", u, ChangedKeys(u, s))
      BY <1>0, <2>1, <2>2 DEF Swap
    <2> QED
      BY <2>2, <2>3
  <1>3. ASSUME NEW u \in Uris, NEW s \in Syms, StoreFile(p, u, s)
        PROVE  \E c \in Compilation, keys \in SUBSET Uris : Swap(p, c, "file", u, keys)
    <2> DEFINE c == [comp EXCEPT !.ver[u] = next, !.sym[u] = s]
    <2>1. /\ Store(p, c, "file", u, ChangedKeys(u, s))
          /\ pending[u] = 0
          /\ next' = next + 1
          /\ next <= MaxVersion
      BY <1>3 DEF StoreFile
    <2>2. next \in 0 .. MaxVersion
      BY <1>0, <2>1
    <2>3. /\ c \in Compilation
          /\ c.base = comp.base /\ c.sup = comp.sup
          /\ c.ver[u] = next
          /\ \A w \in Uris \ {u} : c.ver[w] = comp.ver[w]
          /\ \A w \in Uris \ ChangedKeys(u, s) : c.sym[w] = comp.sym[w]
          /\ ChangedKeys(u, s) \in SUBSET Uris
      BY <1>1, <2>2
    <2> HIDE DEF c
    <2>4. Swap(p, c, "file", u, ChangedKeys(u, s))
      BY <1>0, <2>1, <2>3 DEF Swap
    <2> QED
      BY <2>3, <2>4
  <1>4. ASSUME NEW u \in Uris, NEW s \in Syms, StoreFolder(p, u, s)
        PROVE  \E c \in Compilation, keys \in SUBSET Uris : Swap(p, c, "folder", u, keys)
    <2> DEFINE c == [comp EXCEPT !.ver[u] = next, !.sym[u] = s]
    <2>1. /\ Store(p, c, "folder", u, {})
          /\ pending[u] = 0
          /\ next' = next + 1
          /\ next <= MaxVersion
      BY <1>4 DEF StoreFolder
    <2>2. next \in 0 .. MaxVersion
      BY <1>0, <2>1
    <2>3. /\ c \in Compilation
          /\ c.base = comp.base /\ c.sup = comp.sup
          /\ c.ver[u] = next
          /\ \A w \in Uris \ {u} : c.ver[w] = comp.ver[w]
          /\ \A w \in Uris \ ChangedKeys(u, s) : c.sym[w] = comp.sym[w]
          /\ ChangedKeys(u, s) \in SUBSET Uris
      BY <1>1, <2>2
    <2> HIDE DEF c
    <2>4. Swap(p, c, "folder", u, {})
      BY <1>0, <2>1, <2>3 DEF Swap
    <2> QED
      BY <2>3, <2>4
  <1>5. ASSUME StoreBase(p)
        PROVE  \E c \in Compilation, keys \in SUBSET Uris : Swap(p, c, "base", None, keys)
    <2>1. PICK c \in Compilation :
            Store(p, c, "base", None, {}) /\ c.ver = comp.ver /\ c.sym = comp.sym
      <3> DEFINE b == [comp EXCEPT !.base = 1 - comp.base]
                 l == [comp EXCEPT !.sup = 1 - comp.sup]
      <3>1. /\ b \in Compilation /\ b.ver = comp.ver /\ b.sym = comp.sym
            /\ l \in Compilation /\ l.ver = comp.ver /\ l.sym = comp.sym
        BY <1>0 DEF Compilation
      <3>2. Store(p, b, "base", None, {}) \/ Store(p, l, "base", None, {})
        BY <1>5 DEF StoreBase
      <3> HIDE DEF b, l
      <3> QED
        BY <3>1, <3>2
    <2>2. next' = next
      BY <1>5 DEF StoreBase
    <2>3. Swap(p, c, "base", None, {})
      BY <1>0, <2>1, <2>2 DEF Swap
    <2> QED
      BY <2>3
  <1> QED
    BY <1>2, <1>3, <1>4, <1>5 DEF Publish

\* A pull changes neither the Compilation nor the queue nor a publisher.
LEMMA PullFrame ==
  ASSUME TypeOK, PullInv, NEW q \in Pulls, PullStep(q)
  PROVE  /\ pull[q] # IdlePull
         /\ UNCHANGED <<shared, pulled>>
         /\ Goes(q) \/ Ends(q)
  <1>1. pull[q].pc # "idle"
    BY DEF PullStep, PullDoc, PullPending, PullSnap, PullLookup, PullCompute, PullCommit, PullReply
  <1>2. pull[q] # IdlePull
    BY <1>1, PullShape
  <1>3. UNCHANGED <<shared, pulled>>
    BY DEF PullStep, PullDoc, PullPending, PullSnap, PullLookup, PullCompute, PullCommit, PullReply
  <1>4. Goes(q) \/ Ends(q)
    BY DocGoes, PendingGoes, SnapGoes, LookupGoes, ComputeGoes, CommitGoes, FailEnds
       DEF PullStep, PullReply
  <1> QED
    BY <1>2, <1>3, <1>4

-----------------------------------------------------------------------------
(* Types.                                                                  *)

PullTypes ==
  /\ DOMAIN pull = Pulls
  /\ \A q \in Pulls : \/ pull[q] = IdlePull
                      \/ pull[q].docs \subseteq Uris /\ pull[q] \in PullState(pull[q].docs)

\* A pull stays typed while publishers move the counters.
LEMMA PullKept ==
  ASSUME TypeOK, UNCHANGED pull, stateVersion' \in Nat, gen' \in Nat,
         stateVersion <= stateVersion', gen <= gen'
  PROVE  PullTypes'
  <1> SUFFICES ASSUME NEW q \in Pulls, pull[q] # IdlePull
               PROVE  pull[q].docs \subseteq Uris /\ pull[q] \in PullState(pull[q].docs)'
    BY DEF PullTypes, TypeOK
  <1>1. pull[q].docs \subseteq Uris /\ pull[q] \in PullState(pull[q].docs)
    BY DEF TypeOK
  <1>2. 0 .. stateVersion \subseteq 0 .. stateVersion' /\ 0 .. gen \subseteq 0 .. gen'
    BY DEF TypeOK
  <1> QED
    BY <1>1, <1>2 DEF PullState

\* And while a pull takes a step.
LEMMA PullMoved ==
  ASSUME TypeOK, UNCHANGED <<stateVersion, gen>>, NEW q \in Pulls, Goes(q) \/ Ends(q),
         pull[q] # IdlePull
  PROVE  PullTypes'
  <1>1. \A D : PullState(D)' = PullState(D)
    BY DEF PullState
  <1>2. CASE Goes(q)
    <2>1. pull'[q].docs \subseteq Uris /\ pull'[q] \in PullState(pull'[q].docs)
      BY <1>2, PullShape DEF Goes
    <2>2. DOMAIN pull' = Pulls /\ \A r \in Pulls \ {q} : pull'[r] = pull[r]
      BY <1>2 DEF Goes
    <2> QED
      BY <1>1, <2>1, <2>2 DEF TypeOK, PullTypes
  <1>3. CASE Ends(q)
    BY <1>1, <1>3 DEF Ends, TypeOK, PullTypes
  <1> QED
    BY <1>2, <1>3

LEMMA InitTypes == Init => TypeOK
  <1> SUFFICES ASSUME Init PROVE TypeOK
    OBVIOUS
  <1>1. comp \in Compilation
    <2>1. PICK s \in Syms : comp = [ver |-> [u \in Uris |-> 0], sym |-> [u \in Uris |-> s],
                                    base |-> 0, sup |-> 0]
      BY DEF Init
    <2>2. [u \in Uris |-> 0] \in [Uris -> 0 .. MaxVersion] /\ [u \in Uris |-> s] \in [Uris -> Syms]
      BY BoundsAssumption
    <2> QED
      BY <2>1, <2>2 DEF Compilation
  <1>2. next \in 1 .. MaxVersion + 1 /\ gen \in 0 .. MaxPublish /\ published \in 0 .. MaxPublish
        /\ pulled \in 0 .. MaxPulls /\ stateVersion \in Nat
    BY BoundsAssumption DEF Init
  <1>3. \A p \in Publishers : pub[p].pc = "stored" <=> lock = p
    BY NoneAssumption DEF Init, IdlePub
  <1>4. slips \in Slips
    BY DEF Init, NoSlips, Slips
  <1> QED
    BY <1>1, <1>2, <1>3, <1>4 DEF Init, TypeOK

LEMMA InitPub == Init => PubInv
  <1> SUFFICES ASSUME Init PROVE PubInv
    OBVIOUS
  <1>1. Rebuilding = {}
    BY DEF Init, Rebuilding
  <1>2. IsFiniteSet(Rebuilding) /\ Cardinality(Rebuilding) = 0
    BY <1>1, FS_EmptySet
  <1> QED
    BY <1>2 DEF Init, PubInv, IdlePub

\* Every publisher that changes what is filtered moves the generation once, so
\* the generation never overtakes the number of publishes.
LEMMA NextGen ==
  ASSUME TypeOK, PubInv, [Next]_vars
  PROVE  /\ IsFiniteSet(Rebuilding')
         /\ gen' \in Nat
         /\ gen <= gen'
         /\ gen' + Cardinality(Rebuilding') <= published'
         /\ published' \in 0 .. MaxPublish
  <1> USE DEF edits, shared
  <1>0. /\ IsFiniteSet(Rebuilding)
        /\ gen + Cardinality(Rebuilding) <= published
        /\ gen \in Nat /\ published \in 0 .. MaxPublish /\ Cardinality(Rebuilding) \in Nat
        /\ MaxPublish \in Nat
    BY FS_CardinalityType, BoundsAssumption DEF PubInv, TypeOK
  <1>1. CASE UNCHANGED <<gen, published>> /\ Rebuilding' = Rebuilding
    BY <1>0, <1>1
  <1>2. ASSUME NEW p \in Publishers, Works(p) \/ (Finishes(p) /\ pub[p].kind # "base")
        PROVE  Rebuilding' = Rebuilding
    BY <1>2 DEF Works, Finishes, Rebuilding
  <1>3. CASE UNCHANGED pub /\ UNCHANGED <<gen, published>>
    BY <1>1, <1>3 DEF Rebuilding
  <1>4. ASSUME NEW p \in Publishers, Publish(p)
        PROVE  /\ IsFiniteSet(Rebuilding')
               /\ gen' \in Nat
               /\ gen <= gen'
               /\ gen' + Cardinality(Rebuilding') <= published'
               /\ published' \in 0 .. MaxPublish
    <2>1. PICK c \in Compilation, kind \in {"edit", "file", "folder", "base"},
               u \in Uris \cup {None}, keys \in SUBSET Uris : Swap(p, c, kind, u, keys)
      BY <1>4, PublishSwaps
    <2>2. Store(p, c, kind, u, keys)
      BY <2>1 DEF Swap
    <2>3. /\ \A o \in Publishers \ {p} : pub'[o] = pub[o]
          /\ pub'[p] # IdlePub
          /\ pub'[p].kind = kind
      BY <2>2, StoreGoes
    <2>4. /\ pub[p] = IdlePub
           /\ gen' = gen
           /\ published' = published + 1
           /\ published < MaxPublish
      BY <2>2 DEF Store
    <2>5. CASE kind = "base"
      <3>1. Rebuilding' = Rebuilding \cup {p} /\ p \notin Rebuilding
        BY <2>3, <2>4, <2>5 DEF Rebuilding
      <3>2. /\ IsFiniteSet(Rebuilding')
            /\ Cardinality(Rebuilding') = Cardinality(Rebuilding) + 1
        BY <1>0, <3>1, FS_AddElement
      <3> QED
        BY <1>0, <2>3, <2>4, <3>2
    <2>6. CASE kind # "base"
      <3>1. Rebuilding' = Rebuilding
        BY <2>3, <2>4, <2>6 DEF Rebuilding
      <3> QED
        BY <1>0, <2>3, <2>4, <3>1
    <2> QED
      BY <2>5, <2>6
  <1>5. ASSUME NEW p \in Publishers, Bump(p) \/ Rebuild(p) \/ Lookup(p)
        PROVE  UNCHANGED <<gen, published>> /\ Rebuilding' = Rebuilding
    <2>1. UNCHANGED <<gen, published>>
      BY <1>5 DEF Bump, Rebuild, Lookup
    <2>2. Works(p) \/ (Finishes(p) /\ pub[p].kind # "base")
      BY <1>5, StepGoes
    <2> QED
      BY <1>2, <2>1, <2>2
  <1>6. ASSUME NEW p \in Publishers, Evict(p) \/ RemovePending(p)
        PROVE  UNCHANGED <<gen, published>> /\ Rebuilding' = Rebuilding
    <2>1. UNCHANGED <<gen, published>>
      BY <1>6 DEF Evict, RemovePending
    <2>2. pub[p].kind # "base"
      BY <1>6 DEF Evict, RemovePending, PubInv
    <2>3. Works(p) \/ Finishes(p)
      BY <1>6, StepGoes
    <2> QED
      BY <1>2, <2>1, <2>2, <2>3
  <1>7. ASSUME NEW p \in Publishers, NextGeneration(p)
        PROVE  /\ IsFiniteSet(Rebuilding')
               /\ gen' \in Nat
               /\ gen <= gen'
               /\ gen' + Cardinality(Rebuilding') <= published'
               /\ published' \in 0 .. MaxPublish
    <2>1. gen' = gen + 1 /\ published' = published
      BY <1>7 DEF NextGeneration
    <2>2. pub[p].kind = "base" /\ Finishes(p)
      BY <1>7, StepGoes DEF NextGeneration, PubInv
    <2>3. Rebuilding' = Rebuilding \ {p} /\ p \in Rebuilding
      BY <2>2 DEF Finishes, Rebuilding
    <2>4. /\ IsFiniteSet(Rebuilding')
          /\ Cardinality(Rebuilding') = Cardinality(Rebuilding) - 1
      BY <1>0, <2>3, FS_RemoveElement
    <2> QED
      BY <1>0, <2>1, <2>4
  <1>8. ASSUME NEW u \in Uris, Enqueue(u) PROVE UNCHANGED <<pub, gen, published>>
    BY <1>8 DEF Enqueue
  <1>9. ASSUME NEW q \in Pulls, Pulling(q) \/ PullStep(q) PROVE UNCHANGED <<pub, gen, published>>
    BY <1>9 DEF Pulling, PullStep, PullStart, PullDoc, PullPending, PullSnap, PullLookup,
                PullCompute, PullCommit, PullReply
  <1>10. CASE UNCHANGED vars
    BY <1>3, <1>10 DEF vars
  <1> QED
    BY <1>1, <1>3, <1>4, <1>5, <1>6, <1>7, <1>8, <1>9, <1>10 DEF Next, PublishStep

LEMMA NextPub ==
  ASSUME TypeOK, PubInv, QueueInv, [Next]_vars
  PROVE  PubInv'
  <1> USE DEF edits, shared
  <1> DEFINE Mine(p) ==
        /\ pub[p].pc \in {"rebuild", "generation"} => pub[p].kind = "base"
        /\ pub[p].pc \in {"lookup", "evict", "remove"} => pub[p].kind \in {"edit", "file"}
        /\ pub[p].pc = "remove" => pub[p].kind = "edit"
        /\ pub[p] # IdlePub /\ pub[p].kind = "edit" =>
             pub[p].uri \in Uris /\ pub[p].target <= comp.ver[pub[p].uri]
  <1>0. \A p \in Publishers : Mine(p)
    BY DEF PubInv
  <1>00. SUFFICES \A p \in Publishers : Mine(p)'
    BY NextGen DEF PubInv
  <1>1. CASE UNCHANGED <<pub, comp>>
    BY <1>0, <1>1
  <1>2. ASSUME NEW p \in Publishers, Publish(p) PROVE \A o \in Publishers : Mine(o)'
    <2>1. PICK c \in Compilation, kind \in {"edit", "file", "folder", "base"},
               u \in Uris \cup {None}, keys \in SUBSET Uris : Swap(p, c, kind, u, keys)
      BY <1>2, PublishSwaps
    <2>2. Store(p, c, kind, u, keys) /\ comp' = c /\ pub[p] = IdlePub
      BY <2>1 DEF Swap, Store
    <2>3. \A w \in Uris : comp.ver[w] <= c.ver[w] /\ c.ver[w] \in Nat /\ comp.ver[w] \in Nat
      BY <2>1 DEF Swap, QueueInv, TypeOK, Compilation
    <2>4. ASSUME NEW o \in Publishers \ {p} PROVE Mine(o)'
      <3>1. pub'[o] = pub[o] /\ Mine(o)
        BY <1>0, <2>2, StoreGoes
      <3>2. pub[o] # IdlePub => pub[o].target \in Nat
        BY PubShape DEF PubState
      <3> QED
        BY <2>2, <2>3, <3>1, <3>2
    <2>5. Mine(p)'
      <3>1. /\ pub'[p].pc = "stored" /\ pub'[p].kind = kind /\ pub'[p].uri = u
            /\ u \in Uris => pub'[p].target = c.ver[u]
        BY <2>2, StoreGoes
      <3>2. kind = "edit" => u \in Uris
        BY <2>1 DEF Swap
      <3> QED
        BY <2>2, <2>3, <3>1, <3>2
    <2> QED
      BY <2>4, <2>5
  <1>3. ASSUME NEW p \in Publishers, PublishStep(p) PROVE \A o \in Publishers : Mine(o)'
    <2>1. comp' = comp
      BY <1>3 DEF PublishStep, Bump, Rebuild, NextGeneration, Lookup, Evict, RemovePending
    <2>2. ASSUME NEW o \in Publishers \ {p} PROVE Mine(o)'
      <3>1. pub'[o] = pub[o] /\ Mine(o)
        BY <1>0, <1>3, StepGoes DEF PublishStep, Works, Finishes
      <3> QED
        BY <2>1, <3>1
    <2>3. CASE Finishes(p)
      <3>1. Mine(p)'
        BY <2>3 DEF Finishes, IdlePub
      <3> QED
        BY <2>2, <3>1
    <2>4. CASE /\ Works(p)
               /\ \/ pub'[p].pc \in {"rebuild", "generation"} /\ pub[p].kind = "base"
                  \/ pub'[p].pc \in {"lookup", "evict"} /\ pub[p].kind \in {"edit", "file"}
                  \/ pub'[p].pc = "remove" /\ pub[p].kind = "edit"
      <3>1. Mine(p)'
        BY <1>0, <2>1, <2>4 DEF Works
      <3> QED
        BY <2>2, <3>1
    <2>5. \/ Finishes(p)
          \/ /\ Works(p)
             /\ \/ pub'[p].pc \in {"rebuild", "generation"} /\ pub[p].kind = "base"
                \/ pub'[p].pc \in {"lookup", "evict"} /\ pub[p].kind \in {"edit", "file"}
                \/ pub'[p].pc = "remove" /\ pub[p].kind = "edit"
      BY <1>0, <1>3, StepGoes DEF PublishStep, Rebuild, Lookup
    <2> QED
      BY <2>2, <2>3, <2>4, <2>5
  <1>4. ASSUME NEW u \in Uris, Enqueue(u) PROVE UNCHANGED <<pub, comp>>
    BY <1>4 DEF Enqueue
  <1>5. ASSUME NEW q \in Pulls, Pulling(q) \/ PullStep(q) PROVE UNCHANGED <<pub, comp>>
    BY <1>5 DEF Pulling, PullStep, PullStart, PullDoc, PullPending, PullSnap, PullLookup,
                PullCompute, PullCommit, PullReply
  <1>6. CASE UNCHANGED vars
    BY <1>1, <1>6 DEF vars
  <1> QED
    BY <1>1, <1>2, <1>3, <1>4, <1>5, <1>6 DEF Next

LEMMA NextSlips ==
  ASSUME TypeOK, PullInv, [Next]_vars
  PROVE  slips' \in Slips
  <1>0. slips \in Slips
    BY DEF TypeOK
  <1>1. CASE UNCHANGED slips
    BY <1>0, <1>1
  <1>2. ASSUME NEW p \in Publishers, Publish(p) PROVE slips' \in Slips
    <2>1. PICK c, kind, u, keys : Store(p, c, kind, u, keys)
      BY <1>2, PublishSwaps DEF Swap
    <2> DEFINE changed == Lookers({k \in Uris : c.sym[k] # comp.sym[k]})
               late    == [q \in Pulls |-> IF Snapped(q) THEN slips.overtaken[q] \cup changed ELSE {}]
               missed  == slips.missed \cup (IF kind = "folder" THEN changed
                                             ELSE changed \cap slips.unsubscribed)
    <2>2. slips' = [slips EXCEPT !.overtaken = late, !.missed = missed]
      BY <2>1 DEF Store, Overtakes
    <2>3. changed \subseteq Uris
      BY DEF Lookers
    <2> HIDE DEF changed
    <2>4. late \in [Pulls -> SUBSET Uris] /\ missed \in SUBSET Uris
      BY <1>0, <2>3 DEF Slips
    <2> HIDE DEF late, missed
    <2> QED
      BY <1>0, <2>2, <2>4 DEF Slips
  <1>3. ASSUME NEW q \in Pulls, PullStep(q) PROVE slips' \in Slips
    <2>1. pull[q].docs \subseteq Uris
      BY <1>3, PullFrame, PullShape
    <2>2. pull[q].fresh \subseteq Uris
      BY <1>3, <2>1, PullFrame, PullShape
    <2>3. CASE PullSnap(q)
      BY <1>0, <2>3 DEF PullSnap, Slips
    <2>4. CASE PullLookup(q)
      <3>1. PICK D \in SUBSET Uris : slips' = [slips EXCEPT !.doomed[q] = D]
        BY <2>1, <2>4 DEF PullLookup
      <3> QED
        BY <1>0, <3>1 DEF Slips
    <2>5. CASE PullCommit(q)
      BY <1>0, <2>2, <2>5 DEF PullCommit, Slips
    <2>6. CASE PullReply(q)
      <3>1. PICK new \in SUBSET Uris :
              slips' = [slips EXCEPT !.unsubscribed = @ \ pull[q].fresh,
                                     !.misled = (@ \ new) \cup (new \cap slips.doomed[q])]
        BY <2>1, <2>6 DEF PullReply
      <3> QED
        BY <1>0, <2>2, <3>1 DEF Slips
    <2>7. CASE UNCHANGED slips
      BY <1>0, <2>7
    <2> QED
      BY <1>3, <2>3, <2>4, <2>5, <2>6, <2>7 DEF PullStep, PullDoc, PullPending, PullCompute
  <1>4. ASSUME NEW u \in Uris, Enqueue(u) PROVE UNCHANGED slips
    BY <1>4 DEF Enqueue
  <1>5. ASSUME NEW p \in Publishers, PublishStep(p) PROVE UNCHANGED slips
    BY <1>5 DEF PublishStep, Bump, Rebuild, NextGeneration, Lookup, Evict, RemovePending
  <1>6. ASSUME NEW q \in Pulls, Pulling(q) PROVE UNCHANGED slips
    BY <1>6 DEF Pulling, PullStart
  <1>7. CASE UNCHANGED vars
    BY <1>1, <1>7 DEF vars
  <1> QED
    BY <1>1, <1>2, <1>3, <1>4, <1>5, <1>6, <1>7 DEF Next

LEMMA NextTypes ==
  ASSUME TypeOK, PubInv, PullInv, OwnInv, [Next]_vars
  PROVE  TypeOK'
  <1> USE DEF edits, shared
  <1>00. slips' \in Slips
    BY NextSlips
  <1>0. /\ gen' \in 0 .. MaxPublish
        /\ gen <= gen'
        /\ published' \in 0 .. MaxPublish
    <2>1. Cardinality(Rebuilding') \in Nat
      BY NextGen, FS_CardinalityType
    <2> QED
      BY <2>1, NextGen, BoundsAssumption
  <1>1. ASSUME NEW u \in Uris, Enqueue(u) PROVE TypeOK'
    <2>1. /\ next' \in 1 .. MaxVersion + 1
          /\ received' \in [Uris -> 0 .. next' - 1]
          /\ pending' \in [Uris -> 0 .. next' - 1]
      BY <1>1, BoundsAssumption DEF Enqueue, TypeOK
    <2>2. PullTypes'
      BY <1>1, PullKept DEF Enqueue, TypeOK
    <2> QED
      BY <1>00, <1>1, <2>1, <2>2 DEF Enqueue, TypeOK, PullTypes
  <1>2. ASSUME NEW p \in Publishers, Publish(p) PROVE TypeOK'
    <2>1. PICK c \in Compilation, kind \in {"edit", "file", "folder", "base"},
               u \in Uris \cup {None}, keys \in SUBSET Uris : Swap(p, c, kind, u, keys)
      BY <1>2, PublishSwaps
    <2>2. Store(p, c, kind, u, keys)
      BY <2>1 DEF Swap
    <2>3. /\ pub' \in [Publishers -> PubState \cup {IdlePub}]
          /\ \A o \in Publishers \ {p} : pub'[o] = pub[o]
          /\ pub'[p].pc = "stored"
      BY <2>2, StoreGoes
    <2>4. \A o \in Publishers : pub'[o].pc = "stored" <=> lock' = o
      <3>1. lock = None /\ lock' = p
        BY <2>2 DEF Store
      <3> QED
        BY <2>3, <3>1, NoneAssumption DEF TypeOK
    <2>5. /\ next' \in 1 .. MaxVersion + 1
          /\ received' \in [Uris -> 0 .. next' - 1]
          /\ pending' \in [Uris -> 0 .. next' - 1]
      BY <2>1, <2>2, BoundsAssumption DEF Swap, Store, TypeOK
    <2>6. PullTypes'
      BY <2>2, PullKept DEF Store, TypeOK
    <2>7. lock' \in Publishers \cup {None} /\ comp' \in Compilation
      BY <2>2 DEF Store
    <2> QED
      BY <1>0, <1>00, <2>2, <2>3, <2>4, <2>5, <2>6, <2>7 DEF Store, TypeOK, PullTypes
  <1>3. ASSUME NEW p \in Publishers, PublishStep(p) PROVE TypeOK'
    <2>1. /\ pub' \in [Publishers -> PubState \cup {IdlePub}]
          /\ \A o \in Publishers \ {p} : pub'[o] = pub[o]
          /\ pub'[p].pc # "stored"
      BY <1>3, StepGoes DEF PublishStep, Works, Finishes, IdlePub
    <2>2. /\ UNCHANGED <<comp, subs, next, received, pull, pulled>>
          /\ stateVersion' \in {stateVersion, stateVersion + 1}
          /\ lock' = IF Bump(p) THEN None ELSE lock
      BY <1>3 DEF PublishStep, Bump, Rebuild, NextGeneration, Lookup, Evict, RemovePending
    <2>3. \A o \in Publishers : pub'[o].pc = "stored" <=> lock' = o
      <3>1. CASE Bump(p)
        BY <2>1, <2>2, <3>1, NoneAssumption DEF TypeOK, Bump
      <3>2. CASE ~Bump(p)
        <4>1. pub[p].pc # "stored"
          BY <1>3, <3>2 DEF PublishStep, Rebuild, NextGeneration, Lookup, Evict, RemovePending
        <4> QED
          BY <2>1, <2>2, <3>2, <4>1 DEF TypeOK
      <3> QED
        BY <3>1, <3>2
    <2>4. PullTypes'
      BY <1>0, <2>2, PullKept DEF TypeOK
    <2>5. cache' \in [Uris -> CacheEntry \cup {None}]
      BY <1>3 DEF PublishStep, Bump, Rebuild, NextGeneration, Lookup, Evict, RemovePending, TypeOK
    <2>6. pending' \in [Uris -> 0 .. next' - 1]
      BY <1>3 DEF PublishStep, Bump, Rebuild, NextGeneration, Lookup, Evict, RemovePending, TypeOK
    <2>7. lock' \in Publishers \cup {None}
      BY <2>2 DEF TypeOK
    <2> QED
      BY <1>0, <1>00, <2>1, <2>2, <2>3, <2>4, <2>5, <2>6, <2>7 DEF TypeOK, PullTypes
  <1>4. ASSUME NEW q \in Pulls, NEW kind \in {"document", "workspace"}, NEW docs \in SUBSET Uris,
               PullStart(q, kind, docs)
        PROVE  TypeOK'
    <2> DEFINE rec == [pc |-> "doc", kind |-> kind, docs |-> docs, version |-> stateVersion,
                       asked |-> [u \in docs |-> received[u]], ver |-> [u \in docs |-> 0],
                       snap |-> None, gen |-> 0, todo |-> {}, fresh |-> {}, cancelled |-> FALSE,
                       out |-> [u \in docs |-> None]]
    <2>1. /\ [u \in docs |-> received[u]] \in [docs -> 0 .. MaxVersion]
          /\ [u \in docs |-> 0] \in [docs -> 0 .. MaxVersion]
          /\ [u \in docs |-> None] \in [docs -> Diag \cup {None}]
          /\ stateVersion \in 0 .. stateVersion
          /\ 0 \in 0 .. gen
      BY BoundsAssumption DEF TypeOK
    <2>2. rec \in PullState(docs) /\ rec.docs = docs
      BY <2>1 DEF PullState
    <2>3. pull' = [pull EXCEPT ![q] = rec]
      BY <1>4 DEF PullStart
    <2>4. \A D : PullState(D)' = PullState(D)
      BY <1>4 DEF PullStart, PullState
    <2> HIDE DEF rec
    <2>5. PullTypes'
      BY <2>2, <2>3, <2>4 DEF TypeOK, PullTypes
    <2>6. pulled' \in 0 .. MaxPulls
      BY <1>4, BoundsAssumption DEF PullStart, TypeOK
    <2> QED
      BY <1>00, <1>4, <2>5, <2>6 DEF PullStart, TypeOK, PullTypes
  <1>5. ASSUME NEW q \in Pulls, PullStep(q) PROVE TypeOK'
    <2>1. pull[q] # IdlePull
      BY <1>5, PullFrame
    <2>2. UNCHANGED <<shared, pulled>>
      BY <1>5, PullFrame
    <2>3. Goes(q) \/ Ends(q)
      BY <1>5, PullFrame
    <2>4. PullTypes'
      BY <2>1, <2>2, <2>3, PullMoved
    <2>5. cache' \in [Uris -> CacheEntry \cup {None}]
      <3>1. CASE PullCommit(q)
        <4>1. ASSUME NEW u \in pull[q].fresh
              PROVE  Entry(pull[q].ver[u], pull[q].snap, pull[q].gen, pull[q].out[u]) \in CacheEntry
          <5>1. /\ pull[q].pc = "compute"
                /\ u \in pull[q].docs
                /\ pull[q].ver[u] \in 0 .. MaxVersion
                /\ pull[q].snap \in Compilation
                /\ pull[q].gen \in 0 .. MaxPublish
            BY <2>1, <3>1, PullShape, BoundsAssumption DEF PullCommit, PullInv, TypeOK
          <5>2. pull[q].out[u] \in Diag
            BY <5>1 DEF OwnInv, Keyed
          <5>3. pull[q].snap.base \in 0 .. 1
            BY <5>1 DEF Compilation
          <5> QED
            BY <5>1, <5>2, <5>3 DEF Entry, CacheEntry
        <4> QED
          BY <3>1, <4>1 DEF PullCommit, TypeOK
      <3>2. CASE ~PullCommit(q)
        BY <1>5, <3>2 DEF PullStep, PullDoc, PullPending, PullSnap, PullLookup, PullCompute,
                          PullReply, TypeOK
      <3> QED
        BY <3>1, <3>2
    <2>6. subs' \in [Uris -> SUBSET Uris]
      BY <1>5, ScopeAssumption
         DEF PullStep, PullDoc, PullPending, PullSnap, PullLookup, PullCompute, PullCommit,
             PullReply, Subscribe, TypeOK
    <2> QED
      BY <1>00, <2>2, <2>4, <2>5, <2>6 DEF TypeOK, PullTypes
  <1>6. CASE UNCHANGED vars
    <2>1. PullTypes'
      BY <1>6, PullKept DEF vars, TypeOK
    <2> QED
      BY <1>00, <1>6, <2>1 DEF vars, TypeOK, PullTypes
  <1> QED
    BY <1>1, <1>2, <1>3, <1>4, <1>5, <1>6 DEF Next, Pulling

-----------------------------------------------------------------------------
(* Any interleaving.                                                       *)

\* The fields of a pull that starts.
LEMMA StartGoes ==
  ASSUME TypeOK, NEW q \in Pulls, NEW kind, NEW docs, PullStart(q, kind, docs)
  PROVE  /\ pull[q] = IdlePull
         /\ \A r \in Pulls \ {q} : pull'[r] = pull[r]
         /\ pull'[q].pc = "doc"
         /\ pull'[q].kind = kind
         /\ pull'[q].docs = docs
         /\ pull'[q].version = stateVersion
         /\ pull'[q].asked = [u \in docs |-> received[u]]
         /\ pull'[q].fresh = {}
         /\ pull'[q].cancelled = FALSE
         /\ UNCHANGED <<comp, stateVersion, gen, lock, next, received, pending, pub, published,
                        cache, subs, got, slips>>
  BY DEF PullStart, TypeOK, shared, edits

LEMMA NextPull ==
  ASSUME TypeOK, PullInv, [Next]_vars
  PROVE  PullInv'
  <1> USE DEF edits, shared
  <1> DEFINE Mine(q) ==
        /\ pull[q].pc \in {"doc", "pending", "snap", "lookup"} =>
             pull[q].fresh = {} /\ ~pull[q].cancelled
        /\ pull[q].pc \in {"lookup", "compute", "reply"} => pull[q].snap \in Compilation
        /\ pull[q].pc = "compute" => pull[q].todo \cap pull[q].fresh = {}
        /\ pull[q].pc = "reply" => pull[q].todo = {} /\ ~pull[q].cancelled
  <1>0. \A q \in Pulls : Mine(q)
    BY DEF PullInv
  <1> SUFFICES \A q \in Pulls : Mine(q)'
    BY DEF PullInv
  <1>1. CASE UNCHANGED pull
    BY <1>0, <1>1
  <1>2. ASSUME NEW q \in Pulls, NEW kind, NEW docs, PullStart(q, kind, docs)
        PROVE  \A r \in Pulls : Mine(r)'
    <2>1. /\ \A r \in Pulls \ {q} : pull'[r] = pull[r]
          /\ pull'[q].pc = "doc" /\ pull'[q].fresh = {} /\ pull'[q].cancelled = FALSE
      BY <1>2, StartGoes
    <2> QED
      BY <1>0, <2>1
  <1>3. ASSUME NEW q \in Pulls, PullStep(q) PROVE \A r \in Pulls : Mine(r)'
    <2>0. pull[q].cancelled \in BOOLEAN /\ comp \in Compilation
      BY <1>3, PullFrame, PullShape DEF TypeOK
    <2>1. \A r \in Pulls \ {q} : Mine(r)'
      BY <1>0, <1>3, PullFrame DEF Goes, Ends
    <2>2. CASE Ends(q)
      BY <2>1, <2>2 DEF Ends, IdlePull
    <2>3. CASE PullDoc(q)
      BY <1>0, <2>1, <2>3, DocGoes
    <2>4. CASE PullPending(q) /\ ~Ends(q)
      BY <1>0, <2>1, <2>4, PendingGoes
    <2>5. CASE PullSnap(q) /\ ~Ends(q)
      BY <1>0, <2>0, <2>1, <2>5, SnapGoes
    <2>6. CASE PullLookup(q) /\ ~Ends(q)
      BY <1>0, <2>1, <2>6, LookupGoes
    <2>7. ASSUME NEW u \in Uris, PullCompute(q, u) PROVE Mine(q)'
      BY <1>0, <2>7, ComputeGoes
    <2>8. CASE PullCommit(q) /\ ~Ends(q)
      BY <1>0, <2>1, <2>8, CommitGoes
    <2>9. PullReply(q) => Ends(q)
      BY FailEnds DEF PullReply
    <2> QED
      BY <1>3, <2>1, <2>2, <2>3, <2>4, <2>5, <2>6, <2>7, <2>8, <2>9 DEF PullStep
  <1>4. ASSUME NEW u \in Uris, Enqueue(u) PROVE UNCHANGED pull
    BY <1>4 DEF Enqueue
  <1>5. ASSUME NEW p \in Publishers, Publish(p) \/ PublishStep(p) PROVE UNCHANGED pull
    <2>1. ASSUME NEW c, NEW kind, NEW u, NEW keys, Store(p, c, kind, u, keys) PROVE UNCHANGED pull
      BY <2>1 DEF Store
    <2>2. CASE Publish(p)
      BY <2>1, <2>2 DEF Publish, StoreEdit, StoreFile, StoreFolder, StoreBase
    <2>3. CASE PublishStep(p)
      BY <2>3 DEF PublishStep, Bump, Rebuild, NextGeneration, Lookup, Evict, RemovePending
    <2> QED
      BY <1>5, <2>2, <2>3
  <1>6. CASE UNCHANGED vars
    BY <1>1, <1>6 DEF vars
  <1> QED
    BY <1>1, <1>2, <1>3, <1>4, <1>5, <1>6 DEF Next, Pulling

LEMMA NextQueue ==
  ASSUME TypeOK, PubInv, PullInv, QueueInv, [Next]_vars
  PROVE  QueueInv'
  <1> USE DEF edits, shared
  <1>0. /\ next \in Nat
        /\ \A u \in Uris : comp.ver[u] \in Nat /\ received[u] \in Nat /\ pending[u] \in Nat
        /\ \A u \in Uris : received[u] < next /\ pending[u] < next
    BY DEF TypeOK, Compilation
  <1>1. CASE UNCHANGED <<comp, next, received, pending>>
    BY <1>1 DEF QueueInv
  <1>2. ASSUME NEW u \in Uris, Enqueue(u) PROVE QueueInv'
    BY <1>0, <1>2 DEF Enqueue, QueueInv, TypeOK
  <1>3. ASSUME NEW p \in Publishers, Publish(p) PROVE QueueInv'
    <2>1. PICK c \in Compilation, kind \in {"edit", "file", "folder", "base"},
               u \in Uris \cup {None}, keys \in SUBSET Uris : Swap(p, c, kind, u, keys)
      BY <1>3, PublishSwaps
    <2>2. comp' = c /\ UNCHANGED <<received, pending>> /\ next' \in {next, next + 1}
      BY <2>1 DEF Swap, Store
    <2>3. \A w \in Uris : \/ c.ver[w] = comp.ver[w]
                          \/ c.ver[w] = pending[w] /\ pending[w] # 0
                          \/ c.ver[w] = next /\ pending[w] = 0 /\ next' = next + 1
      BY <2>1 DEF Swap
    <2> QED
      BY <1>0, <2>2, <2>3 DEF QueueInv
  <1>4. ASSUME NEW p \in Publishers, RemovePending(p) PROVE QueueInv'
    <2> DEFINE w == pub[p].uri
    <2>1. w \in Uris /\ pub[p].target <= comp.ver[w] /\ pub[p].target \in Nat
      BY <1>4, PubShape DEF RemovePending, PubInv, PubState
    <2>2. UNCHANGED <<comp, next, received>>
      BY <1>4 DEF RemovePending
    <2>3. \/ pending' = pending
          \/ pending' = [pending EXCEPT ![w] = 0] /\ pending[w] = pub[p].target
      BY <1>4 DEF RemovePending
    <2> QED
      BY <1>0, <2>1, <2>2, <2>3 DEF QueueInv, TypeOK
  <1>5. ASSUME NEW p \in Publishers, Bump(p) \/ Rebuild(p) \/ NextGeneration(p) \/ Lookup(p) \/ Evict(p)
        PROVE  UNCHANGED <<comp, next, received, pending>>
    BY <1>5 DEF Bump, Rebuild, NextGeneration, Lookup, Evict
  <1>6. ASSUME NEW q \in Pulls, Pulling(q) \/ PullStep(q)
        PROVE  UNCHANGED <<comp, next, received, pending>>
    BY <1>6, PullFrame, StartGoes DEF Pulling
  <1>7. CASE UNCHANGED vars
    BY <1>1, <1>7 DEF vars
  <1> QED
    BY <1>1, <1>2, <1>3, <1>4, <1>5, <1>6, <1>7 DEF Next, PublishStep

LEMMA NextAsked ==
  ASSUME TypeOK, PubInv, PullInv, QueueInv, AskedInv, [Next]_vars
  PROVE  AskedInv'
  <1> USE DEF edits, shared
  <1> DEFINE Editing(p, u) ==
        /\ pub[p].pc \in {"lookup", "evict", "remove"}
        /\ pub[p].kind = "edit"
        /\ pub[p].uri = u
      Mine(q, u) ==
        /\ u \in pull[q].docs => pull[q].asked[u] <= received[u]
        /\ pull[q].pc = "pending" /\ Outdated(q, u) =>
             \/ stateVersion > pull[q].version
             \/ /\ pending[u] # 0
                /\ \A p \in Publishers : Editing(p, u) => pub[p].target < pull[q].asked[u]
        /\ pull[q].pc = "snap" /\ Outdated(q, u) => stateVersion > pull[q].version
        /\ pull[q].pc \in {"lookup", "compute", "reply"} => ~Outdated(q, u)
  <1>0. \A q \in Pulls, u \in Uris : pull[q] # IdlePull => Mine(q, u)
    BY DEF AskedInv
  <1> SUFFICES \A q \in Pulls, u \in Uris : pull'[q] # IdlePull => Mine(q, u)'
    BY DEF AskedInv
  <1>01. /\ next \in Nat /\ stateVersion \in Nat
         /\ \A u \in Uris : comp.ver[u] \in Nat /\ received[u] \in Nat /\ pending[u] \in Nat
         /\ \A u \in Uris : received[u] < next
    BY DEF TypeOK, Compilation
  <1>02. ASSUME NEW q \in Pulls, pull[q] # IdlePull
         PROVE  /\ pull[q].version \in Nat /\ pull[q].version <= stateVersion
                /\ \A u \in Uris : u \in pull[q].docs =>
                     pull[q].asked[u] \in Nat /\ pull[q].ver[u] \in Nat
    BY <1>01, <1>02, PullShape
  <1>1. CASE UNCHANGED <<pull, received, pending, stateVersion, pub>>
    BY <1>0, <1>1 DEF Outdated
  <1>2. ASSUME NEW w \in Uris, Enqueue(w), NEW q \in Pulls, NEW u \in Uris, pull'[q] # IdlePull
        PROVE  Mine(q, u)'
    <2>1. /\ pull' = pull /\ stateVersion' = stateVersion /\ pub' = pub
          /\ received'[u] >= received[u] /\ received'[u] \in Nat
          /\ pending[u] # 0 => pending'[u] # 0
      BY <1>01, <1>2 DEF Enqueue, TypeOK
    <2> QED
      BY <1>0, <1>01, <1>02, <1>2, <2>1 DEF Outdated
  <1>3. ASSUME NEW p \in Publishers, Publish(p), NEW q \in Pulls, NEW u \in Uris, pull'[q] # IdlePull
        PROVE  Mine(q, u)'
    <2>1. PICK c \in Compilation, kind \in {"edit", "file", "folder", "base"},
               w \in Uris \cup {None}, keys \in SUBSET Uris : Store(p, c, kind, w, keys)
      BY <1>3, PublishSwaps DEF Swap
    <2>2. /\ pull' = pull /\ stateVersion' = stateVersion
          /\ received' = received /\ pending' = pending
      BY <2>1 DEF Store
    <2>3. pub'[p].pc = "stored" /\ \A o \in Publishers \ {p} : pub'[o] = pub[o]
      BY <2>1, StoreGoes
    <2>4. \A o \in Publishers : Editing(o, u)' => Editing(o, u) /\ pub'[o].target = pub[o].target
      BY <2>3
    <2> QED
      BY <1>0, <1>3, <2>2, <2>4 DEF Outdated
  <1>4. ASSUME NEW p \in Publishers, Bump(p) \/ Rebuild(p), NEW q \in Pulls, NEW u \in Uris,
               pull'[q] # IdlePull
        PROVE  Mine(q, u)'
    <2>1. /\ pull' = pull /\ stateVersion' = stateVersion + 1
          /\ received' = received /\ pending' = pending
      BY <1>4 DEF Bump, Rebuild
    <2>2. stateVersion' > pull'[q].version
      BY <1>01, <1>02, <1>4, <2>1
    <2> QED
      BY <1>0, <1>4, <2>1, <2>2 DEF Outdated
  <1>5. ASSUME NEW p \in Publishers, NextGeneration(p) \/ Lookup(p) \/ Evict(p),
               NEW q \in Pulls, NEW u \in Uris, pull'[q] # IdlePull
        PROVE  Mine(q, u)'
    <2>1. /\ pull' = pull /\ stateVersion' = stateVersion
          /\ received' = received /\ pending' = pending
      BY <1>5 DEF NextGeneration, Lookup, Evict
    <2>2. pub[p].pc \in {"generation", "lookup", "evict"}
      BY <1>5 DEF NextGeneration, Lookup, Evict
    <2>3. /\ \A o \in Publishers \ {p} : pub'[o] = pub[o]
          /\ \/ pub'[p] = IdlePub
             \/ /\ pub[p].pc \in {"lookup", "evict"}
                /\ pub'[p].kind = pub[p].kind
                /\ pub'[p].uri = pub[p].uri
                /\ pub'[p].target = pub[p].target
      <3>1. CASE NextGeneration(p)
        BY <3>1, StepGoes DEF Finishes
      <3>2. CASE Lookup(p) \/ Evict(p)
        <4>1. pub[p].pc \in {"lookup", "evict"}
          BY <3>2 DEF Lookup, Evict
        <4>2. Works(p) \/ Finishes(p)
          BY <3>2, StepGoes
        <4> QED
          BY <4>1, <4>2 DEF Works, Finishes
      <3> QED
        BY <1>5, <3>1, <3>2
    <2>4. \A o \in Publishers : Editing(o, u)' => Editing(o, u) /\ pub'[o].target = pub[o].target
      BY <2>3 DEF IdlePub
    <2> QED
      BY <1>0, <1>5, <2>1, <2>4 DEF Outdated
  <1>6. ASSUME NEW p \in Publishers, RemovePending(p), NEW q \in Pulls, NEW u \in Uris,
               pull'[q] # IdlePull
        PROVE  Mine(q, u)'
    <2>1. pull' = pull /\ stateVersion' = stateVersion /\ received' = received
      BY <1>6 DEF RemovePending
    <2>2. Editing(p, pub[p].uri)
      BY <1>6 DEF RemovePending, PubInv
    <2>3. /\ \A o \in Publishers \ {p} : pub'[o] = pub[o]
          /\ pub'[p] = IdlePub
      BY <1>6, StepGoes DEF Finishes
    <2>4. \A o \in Publishers : Editing(o, u)' => Editing(o, u) /\ pub'[o].target = pub[o].target
      BY <2>3 DEF IdlePub
    <2>5. \/ pending'[u] = pending[u]
          \/ Editing(p, u) /\ pending[u] = pub[p].target
      BY <1>6, <2>2 DEF RemovePending, TypeOK
    <2>6. pending[u] # 0 => pending[u] = received[u]
      BY DEF QueueInv
    <2> QED
      BY <1>0, <1>01, <1>02, <1>6, <2>1, <2>4, <2>5, <2>6 DEF Outdated
  <1>7. ASSUME NEW q \in Pulls, NEW kind, NEW docs \in SUBSET Uris, PullStart(q, kind, docs),
               NEW r \in Pulls, NEW u \in Uris, pull'[r] # IdlePull
        PROVE  Mine(r, u)'
    <2>1. UNCHANGED <<received, pending, stateVersion, pub>>
      BY <1>7, StartGoes
    <2>2. CASE r # q
      <3>1. pull'[r] = pull[r]
        BY <1>7, <2>2, StartGoes
      <3> QED
        BY <1>0, <1>7, <2>1, <3>1 DEF Outdated
    <2>3. CASE r = q
      <3>1. pull'[q].pc = "doc" /\ pull'[q].docs = docs /\ pull'[q].asked = [k \in docs |-> received[k]]
        BY <1>7, StartGoes
      <3> QED
        BY <1>01, <2>1, <2>3, <3>1
    <2> QED
      BY <2>2, <2>3
  <1>8. ASSUME NEW q \in Pulls, PullStep(q), NEW r \in Pulls, NEW u \in Uris, pull'[r] # IdlePull
        PROVE  Mine(r, u)'
    <2>1. UNCHANGED <<received, pending, stateVersion, pub>>
      BY <1>8, PullFrame
    <2>2. CASE r # q
      <3>1. pull'[r] = pull[r]
        BY <1>8, <2>2, PullFrame DEF Goes, Ends
      <3> QED
        BY <1>0, <1>8, <2>1, <3>1 DEF Outdated
    <2>3. CASE r = q
      <3>1. /\ pull[q] # IdlePull
            /\ pull'[q].docs = pull[q].docs
            /\ pull'[q].kind = pull[q].kind
            /\ pull'[q].version = pull[q].version
            /\ pull'[q].asked = pull[q].asked
        BY <1>8, <2>3, PullFrame DEF Goes, Ends
      <3>2. Mine(q, u)
        BY <1>0, <3>1
      <3>3. /\ pull[q].version \in Nat /\ pull[q].version <= stateVersion
            /\ u \in pull[q].docs => pull[q].asked[u] \in Nat /\ pull[q].ver[u] \in Nat
        BY <1>02, <3>1
      <3>4. CASE PullDoc(q)
        <4>1. /\ pull[q].kind = "document" => pull'[q].pc = "pending"
              /\ pull[q].kind # "document" => pull'[q].pc = "snap"
              /\ u \in pull[q].docs => pull'[q].ver[u] = comp.ver[u]
          BY <3>4, DocGoes
        <4>2. pending[u] = 0 => comp.ver[u] >= received[u]
          BY DEF QueueInv
        <4>3. \A p \in Publishers :
                Editing(p, u) => pub[p].target \in Nat /\ pub[p].target <= comp.ver[u]
          BY PubShape DEF PubInv, PubState, IdlePub
        <4> QED
          BY <1>01, <2>1, <2>3, <3>1, <3>2, <3>3, <4>1, <4>2, <4>3 DEF Outdated
      <3>5. CASE PullPending(q)
        <4>1. /\ pull[q].pc = "pending"
              /\ pull'[q].pc = "snap"
              /\ pull'[q].ver = pull[q].ver
              /\ u \in pull[q].docs => ~(pending[u] > pull[q].ver[u])
          BY <1>8, <2>3, <3>5, PendingGoes DEF Ends
        <4>2. pending[u] # 0 => pending[u] = received[u]
          BY DEF QueueInv
        <4> QED
          BY <1>01, <2>1, <2>3, <3>1, <3>2, <3>3, <4>1, <4>2 DEF Outdated
      <3>6. CASE PullSnap(q)
        <4>1. /\ pull[q].pc = "snap"
              /\ pull'[q].pc = "lookup"
              /\ pull'[q].ver = pull[q].ver
              /\ stateVersion = pull[q].version
          BY <1>8, <2>3, <3>6, SnapGoes DEF Ends, Current
        <4> QED
          BY <1>01, <2>1, <2>3, <3>1, <3>2, <3>3, <4>1 DEF Outdated
      <3>7. CASE PullLookup(q) \/ (\E w \in Uris : PullCompute(q, w)) \/ PullCommit(q)
        <4>1. /\ pull[q].pc \in {"lookup", "compute", "reply"}
              /\ pull'[q].pc \in {"lookup", "compute", "reply"}
              /\ pull'[q].ver = pull[q].ver
          BY <1>8, <2>3, <3>7, LookupGoes, ComputeGoes, CommitGoes DEF Ends
        <4> QED
          BY <2>1, <2>3, <3>1, <3>2, <4>1 DEF Outdated
      <3>8. ~PullReply(q)
        BY <1>8, <2>3, FailEnds DEF PullReply, Ends
      <3> QED
        BY <1>8, <3>4, <3>5, <3>6, <3>7, <3>8 DEF PullStep
    <2> QED
      BY <2>2, <2>3
  <1>9. CASE UNCHANGED vars
    BY <1>1, <1>9 DEF vars
  <1> HIDE DEF Mine
  <1> QED
    BY <1>2, <1>3, <1>4, <1>5, <1>6, <1>7, <1>8, <1>9 DEF Next, PublishStep, Pulling

LEMMA NextOwn ==
  ASSUME TypeOK, PullInv, OwnInv, [Next]_vars
  PROVE  OwnInv'
  <1> USE DEF edits, shared
  <1> DEFINE
        Cached(u) == cache[u] # None => Keyed(cache[u].diag, cache[u].ver, cache[u].base)
        Answered(q) == pull[q].pc \in {"compute", "reply"} =>
          \A u \in pull[q].docs :
            u \in pull[q].fresh \/ (u \notin pull[q].todo /\ ~pull[q].cancelled)
              => Keyed(pull[q].out[u], pull[q].ver[u], pull[q].snap.base)
        Shown(u) == got[u] # None => Keyed(got[u].diag, got[u].id[1], got[u].id[3])
  <1>0. /\ \A u \in Uris : Cached(u) /\ Shown(u)
        /\ \A q \in Pulls : Answered(q)
    BY DEF OwnInv
  <1> SUFFICES /\ \A u \in Uris : Cached(u)' /\ Shown(u)'
               /\ \A q \in Pulls : Answered(q)'
    BY DEF OwnInv
  <1>1. CASE UNCHANGED <<cache, pull, got>>
    BY <1>0, <1>1
  <1>2. ASSUME NEW p \in Publishers, Evict(p) PROVE OwnInv'
    <2>1. /\ pull' = pull /\ got' = got
          /\ \A u \in Uris : cache'[u] \in {None, cache[u]}
      BY <1>2 DEF Evict
    <2> QED
      BY <1>0, <2>1 DEF OwnInv
  <1>3. ASSUME NEW q \in Pulls, NEW kind, NEW docs, PullStart(q, kind, docs) PROVE OwnInv'
    <2>1. cache' = cache /\ got' = got
      BY <1>3, StartGoes
    <2>2. \A r \in Pulls : Answered(r)'
      <3>1. pull'[q].pc = "doc" /\ \A r \in Pulls \ {q} : pull'[r] = pull[r]
        BY <1>3, StartGoes
      <3> QED
        BY <1>0, <3>1
    <2> QED
      BY <1>0, <2>1, <2>2 DEF OwnInv
  <1>4. ASSUME NEW q \in Pulls, PullStep(q) PROVE OwnInv'
    <2>1. \A r \in Pulls \ {q} : Answered(r)'
      <3>1. \A r \in Pulls \ {q} : pull'[r] = pull[r]
        BY <1>4, PullFrame DEF Goes, Ends
      <3> QED
        BY <1>0, <3>1
    <2>2. Answered(q)'
      <3>1. CASE Ends(q)
        BY <3>1 DEF Ends, IdlePull
      <3>2. CASE PullDoc(q) \/ PullPending(q) \/ PullSnap(q)
        <4>1. pull'[q].pc \in {"idle", "pending", "snap", "lookup"}
          <5>1. Ends(q) => pull'[q].pc = "idle"
            BY DEF Ends, IdlePull
          <5>2. CASE PullDoc(q)
            BY <5>2, DocGoes
          <5>3. CASE PullPending(q)
            BY <5>1, <5>3, PendingGoes
          <5>4. CASE PullSnap(q)
            BY <5>1, <5>4, SnapGoes
          <5> QED
            BY <3>2, <5>2, <5>3, <5>4
        <4> QED
          BY <4>1
      <3>3. CASE PullLookup(q) /\ ~Ends(q)
        <4>1. /\ pull'[q].docs = pull[q].docs
              /\ pull'[q].fresh = {}
              /\ pull'[q].snap = pull[q].snap
              /\ pull'[q].ver = pull[q].ver
              /\ pull'[q].todo = {u \in pull[q].docs : ~Hit(q, u)}
              /\ \A u \in pull[q].docs : Hit(q, u) => pull'[q].out[u] = cache[u].diag
          <5>1. /\ pull[q].pc = "lookup"
                /\ Goes(q)
                /\ pull'[q].fresh = pull[q].fresh
                /\ pull'[q].snap = pull[q].snap
                /\ pull'[q].ver = pull[q].ver
                /\ pull'[q].todo = {u \in pull[q].docs : ~Hit(q, u)}
                /\ \A u \in pull[q].docs : Hit(q, u) => pull'[q].out[u] = cache[u].diag
            BY <3>3, LookupGoes
          <5> QED
            BY <5>1 DEF PullInv, Goes
        <4>2. ASSUME NEW u \in pull[q].docs, Hit(q, u)
              PROVE  Keyed(cache[u].diag, pull[q].ver[u], pull[q].snap.base)
          <5>1. u \in Uris
            BY <1>4, PullFrame, PullShape
          <5> QED
            BY <1>0, <4>2, <5>1 DEF Hit
        <4> QED
          BY <4>1, <4>2
      <3>4. ASSUME NEW u \in Uris, PullCompute(q, u) PROVE Answered(q)'
        <4>1. Keyed(Truth(u, pull[q].ver[u], pull[q].snap), pull[q].ver[u], pull[q].snap.base)
              \/ Truth(u, pull[q].ver[u], pull[q].snap) \notin Diag
          BY DEF Truth, Keyed
        <4>2. /\ pull[q].pc = "compute"
              /\ pull'[q].docs = pull[q].docs
              /\ pull'[q].snap = pull[q].snap
              /\ pull'[q].ver = pull[q].ver
              /\ pull'[q].todo = pull[q].todo \ {u}
              /\ \A w \in pull[q].docs \ {u} : pull'[q].out[w] = pull[q].out[w]
          BY <3>4, ComputeGoes DEF Goes
        <4>3. \/ /\ pull'[q].cancelled = pull[q].cancelled
                 /\ pull'[q].fresh = pull[q].fresh \cup {u}
                 /\ pull'[q].out[u] = Truth(u, pull[q].ver[u], pull[q].snap)
                 /\ pull'[q].out[u] \in Diag
              \/ /\ pull'[q].cancelled
                 /\ pull'[q].fresh = pull[q].fresh
          BY <3>4, ComputeGoes
        <4>4. u \in pull[q].todo /\ pull[q].todo \cap pull[q].fresh = {}
          BY <3>4, <4>2 DEF PullCompute, PullInv
        <4> QED
          BY <1>0, <4>1, <4>2, <4>3, <4>4
      <3>5. CASE PullCommit(q) /\ ~Ends(q)
        <4>1. /\ pull[q].pc = "compute"
              /\ pull'[q].docs = pull[q].docs
              /\ pull'[q].snap = pull[q].snap
              /\ pull'[q].ver = pull[q].ver
              /\ pull'[q].fresh = pull[q].fresh
              /\ pull'[q].todo = pull[q].todo
              /\ pull'[q].out = pull[q].out
              /\ pull'[q].cancelled = pull[q].cancelled
          BY <3>5, CommitGoes DEF Goes
        <4> QED
          BY <1>0, <4>1
      <3>6. PullReply(q) => Ends(q)
        BY FailEnds DEF PullReply
      <3> QED
        BY <1>4, <3>1, <3>2, <3>3, <3>4, <3>5, <3>6 DEF PullStep
    <2>3. \A u \in Uris : Cached(u)'
      <3>1. CASE PullCommit(q)
        <4>1. pull[q].pc = "compute" /\ pull[q].fresh \subseteq pull[q].docs
          BY <1>4, <3>1, PullFrame, PullShape DEF PullCommit
        <4>2. \A u \in pull[q].fresh : Keyed(pull[q].out[u], pull[q].ver[u], pull[q].snap.base)
          BY <1>0, <4>1
        <4>3. \A u \in Uris :
                cache'[u] = IF u \in pull[q].fresh
                            THEN Entry(pull[q].ver[u], pull[q].snap, pull[q].gen, pull[q].out[u])
                            ELSE cache[u]
          BY <3>1 DEF PullCommit
        <4> QED
          <5> SUFFICES ASSUME NEW u \in Uris PROVE Cached(u)'
            OBVIOUS
          <5>1. CASE u \in pull[q].fresh
            <6>1. /\ cache'[u].diag = pull[q].out[u]
                  /\ cache'[u].ver = pull[q].ver[u]
                  /\ cache'[u].base = pull[q].snap.base
              <7>1. cache'[u] = [ver |-> pull[q].ver[u], base |-> pull[q].snap.base,
                                 gen |-> pull[q].gen, diag |-> pull[q].out[u]]
                BY <4>3, <5>1 DEF Entry
              <7> QED
                BY <7>1
            <6> QED
              BY <4>2, <5>1, <6>1 DEF Keyed
          <5>2. CASE u \notin pull[q].fresh
            BY <1>0, <4>3, <5>2 DEF Keyed
          <5> QED
            BY <5>1, <5>2
      <3>2. CASE ~PullCommit(q)
        <4>1. cache' = cache
          BY <1>4, <3>2 DEF PullStep, PullDoc, PullPending, PullSnap, PullLookup, PullCompute,
                            PullReply
        <4> QED
          BY <1>0, <4>1
      <3> QED
        BY <3>1, <3>2
    <2>4. \A u \in Uris : Shown(u)'
      <3>1. CASE PullReply(q)
        <4>1. pull[q].pc = "reply" /\ pull[q].todo = {} /\ ~pull[q].cancelled
          BY <3>1 DEF PullReply, PullInv
        <4>2. \A u \in pull[q].docs : Keyed(pull[q].out[u], pull[q].ver[u], pull[q].snap.base)
          BY <1>0, <4>1
        <4>3. \A u \in Uris :
                \/ got'[u] = got[u]
                \/ /\ u \in pull[q].docs
                   /\ got'[u] = [id |-> ResultId(pull[q].ver[u], pull[q].snap, pull[q].gen),
                                 diag |-> pull[q].out[u]]
          BY <3>1 DEF PullReply
        <4>4. \A v, c, g : ResultId(v, c, g)[1] = v /\ ResultId(v, c, g)[3] = c.base
          BY DEF ResultId
        <4> QED
          <5> SUFFICES ASSUME NEW u \in Uris PROVE Shown(u)'
            OBVIOUS
          <5>1. CASE got'[u] = got[u]
            BY <1>0, <5>1 DEF Keyed
          <5>2. CASE got'[u] # got[u]
            <6>1. /\ u \in pull[q].docs
                  /\ got'[u].id = ResultId(pull[q].ver[u], pull[q].snap, pull[q].gen)
                  /\ got'[u].diag = pull[q].out[u]
              <7>1. /\ u \in pull[q].docs
                    /\ got'[u] = [id |-> ResultId(pull[q].ver[u], pull[q].snap, pull[q].gen),
                                  diag |-> pull[q].out[u]]
                BY <4>3, <5>2
              <7> QED
                BY <7>1
            <6>2. got'[u].id[1] = pull[q].ver[u] /\ got'[u].id[3] = pull[q].snap.base
              BY <4>4, <6>1
            <6> QED
              BY <4>2, <6>1, <6>2 DEF Keyed
          <5> QED
            BY <5>1, <5>2
      <3>2. CASE ~PullReply(q)
        <4>1. got' = got
          BY <1>4, <3>2 DEF PullStep, PullDoc, PullPending, PullSnap, PullLookup, PullCompute,
                            PullCommit
        <4> QED
          BY <1>0, <4>1
      <3> QED
        BY <3>1, <3>2
    <2> QED
      BY <2>1, <2>2, <2>3, <2>4 DEF OwnInv
  <1>5. ASSUME NEW u \in Uris, Enqueue(u) PROVE UNCHANGED <<cache, pull, got>>
    BY <1>5 DEF Enqueue
  <1>6. ASSUME NEW p \in Publishers,
               Publish(p) \/ Bump(p) \/ Rebuild(p) \/ NextGeneration(p) \/ Lookup(p) \/ RemovePending(p)
        PROVE  UNCHANGED <<cache, pull, got>>
    BY <1>6 DEF Publish, StoreEdit, StoreFile, StoreFolder, StoreBase, Store, Bump, Rebuild,
                NextGeneration, Lookup, RemovePending
  <1>7. CASE UNCHANGED vars
    BY <1>1, <1>7 DEF vars
  <1> QED
    BY <1>1, <1>2, <1>3, <1>4, <1>5, <1>6, <1>7 DEF Next, PublishStep, Pulling, OwnInv

AnyOrder == TypeOK /\ PubInv /\ PullInv /\ QueueInv /\ AskedInv /\ OwnInv

LEMMA AnyOrderAlways == Spec => []AnyOrder
  <1>1. Init => AnyOrder
    <2> SUFFICES ASSUME Init PROVE AnyOrder
      OBVIOUS
    <2>1. \A q \in Pulls : pull[q] = IdlePull /\ pull[q].pc = "idle"
      BY DEF Init, IdlePull
    <2>2. QueueInv
      BY DEF Init, QueueInv
    <2>3. OwnInv
      BY <2>1 DEF Init, OwnInv
    <2> QED
      BY <2>1, <2>2, <2>3, InitTypes, InitPub DEF AnyOrder, PullInv, AskedInv
  <1>2. AnyOrder /\ [Next]_vars => AnyOrder'
    BY NextTypes, NextPub, NextPull, NextQueue, NextAsked, NextOwn DEF AnyOrder
  <1> QED
    BY <1>1, <1>2, PTL DEF Spec

\* Types, that a publisher holds writer_lock exactly from its swap until it
\* has moved state_version (publish_compilation), that no version is used
\* before it is reserved (enqueue_edit), and that legacy_db_generation moves
\* at most once per publish (rebuild_filtered_base_catalogs).
THEOREM TypeCorrect == Spec => []TypeOK
  BY AnyOrderAlways, PTL DEF AnyOrder

\* However pulls and publishers interleave, and however many of them there are,
\* the part of a report that depends on the file's own text and on the base
\* scripts belongs to the report's result_id (cst_diagnostics_with_cache,
\* result_id_for): a cached result is only ever served under its own keys.
THEOREM OwnPartAlwaysSound == Spec => []OwnPartIsSound
  <1>1. AnyOrder => OwnPartIsSound
    BY DEF AnyOrder, OwnInv, Keyed, OwnPartIsSound
  <1> QED
    BY <1>1, AnyOrderAlways, PTL

\* A document pull that gets as far as its reply reports on every edit that
\* was received before it was asked for (document_diagnostic): the edit is
\* still queued when the queue is looked at, or state_version has moved since
\* the pull started, because the writer removes an edit from the queue only
\* after its publish is visible and counted.
THEOREM PullsSeeEdits == Spec => []PullSeesEdits
  <1>1. AnyOrder => PullSeesEdits
    <2> SUFFICES ASSUME AnyOrder, NEW q \in Pulls, pull[q].pc = "reply",
                        pull[q].kind = "document", NEW u \in pull[q].docs
                 PROVE  pull[q].ver[u] >= pull[q].asked[u]
      BY DEF PullSeesEdits
    <2>1. pull[q] # IdlePull
      BY DEF IdlePull
    <2>2. u \in Uris /\ pull[q].ver[u] \in Nat /\ pull[q].asked[u] \in Nat
      BY <2>1, PullShape DEF AnyOrder
    <2>3. ~Outdated(q, u)
      BY <2>1, <2>2 DEF AnyOrder, AskedInv
    <2> QED
      BY <2>2, <2>3 DEF Outdated
  <1> QED
    BY <1>1, AnyOrderAlways, PTL

-----------------------------------------------------------------------------
(* Current diagnostics.                                                    *)

\* What the diagnostics of u look up in a Compilation.
Seen(u, c) == [k \in Observes[u] |-> c.sym[k]]

\* No publisher still has to move the generation.
Filtered == \A p \in Publishers : pub[p] = IdlePub \/ pub[p].kind # "base"

\* Publisher p is going to evict u.
Owes(p, u) ==
  \/ pub[p].pc \in {"stored", "lookup"} /\ subs[u] \cap pub[p].keys # {}
  \/ pub[p].pc = "evict" /\ u \in pub[p].inval

\* Only a publisher of a file has keys to evict by.
KeyInv ==
  \A p \in Publishers :
    pub[p] # IdlePub /\ pub[p].kind \in {"folder", "base"} => pub[p].keys = {}

\* A file is subscribed to what its diagnostics look up, unless its pull has
\* not got that far.
SubsInv ==
  \A u \in Uris :
    /\ subs[u] \subseteq Observes[u]
    /\ cache[u] # None /\ u \notin slips.unsubscribed => subs[u] = Observes[u]

\* The snapshot of a pull that was not overtaken is current where it matters,
\* and the generation it read covers the overridden base scripts.
SnapInv ==
  \A q \in Pulls : Snapped(q) =>
    /\ \A u \in Uris \ slips.overtaken[q] : Seen(u, pull[q].snap) = Seen(u, comp)
    /\ pull[q].gen = gen /\ Filtered => pull[q].snap.sup = comp.sup

\* An entry that is not missed is current, or on its way out.
EntryInv ==
  \A u \in Uris : cache[u] # None =>
    /\ cache[u].gen <= gen
    /\ cache[u].gen = gen /\ Filtered => cache[u].diag.sup = comp.sup
    /\ u \notin slips.missed =>
         cache[u].diag.seen = Seen(u, comp) \/ \E p \in Publishers : Owes(p, u)

\* An answer that is not doomed is the one for the snapshot of its pull.
OutInv ==
  \A q \in Pulls : pull[q].pc \in {"compute", "reply"} =>
    \A u \in pull[q].docs :
      /\ u \in pull[q].fresh => pull[q].out[u] = Truth(u, pull[q].ver[u], pull[q].snap)
      /\ u \notin pull[q].todo /\ ~pull[q].cancelled =>
           /\ u \notin slips.doomed[q] => pull[q].out[u].seen = Seen(u, pull[q].snap)
           /\ pull[q].gen = gen /\ Filtered => pull[q].out[u].sup = comp.sup

\* The report the client holds was right for the symbols of its result_id.
ReportInv ==
  \A u \in Uris : got[u] # None =>
    /\ got[u].id[4] \in 0 .. gen
    /\ got[u].id[4] = gen /\ Filtered => got[u].diag.sup = comp.sup
    /\ u \notin Loose \cup slips.misled =>
         got[u].diag.seen = [k \in Observes[u] |-> got[u].id[2][k]]

CurrentInv == KeyInv /\ SubsInv /\ SnapInv /\ EntryInv /\ OutInv /\ ReportInv

\* How far the generation is behind the filtered base scripts: one that was
\* read earlier and is still the current one covers them.
LEMMA GenStays ==
  ASSUME TypeOK, PubInv, [Next]_vars, NEW g \in Nat, g <= gen, g = gen', Filtered'
  PROVE  g = gen /\ Filtered /\ comp'.sup = comp.sup
  <1>0. gen \in Nat
    BY DEF TypeOK
  <1>1. CASE UNCHANGED <<comp, gen, pub>>
    BY <1>1 DEF Filtered
  <1>2. ASSUME NEW p \in Publishers, Publish(p) PROVE g = gen /\ Filtered /\ comp'.sup = comp.sup
    <2>1. PICK c \in Compilation, kind \in {"edit", "file", "folder", "base"},
               u \in Uris \cup {None}, keys \in SUBSET Uris : Swap(p, c, kind, u, keys)
      BY <1>2, PublishSwaps
    <2>2. Store(p, c, kind, u, keys) /\ comp' = c /\ pub[p] = IdlePub /\ gen' = gen
      BY <2>1 DEF Swap, Store
    <2>3. /\ \A o \in Publishers \ {p} : pub'[o] = pub[o]
          /\ pub'[p].kind = kind
          /\ pub'[p] # IdlePub
      BY <2>2, StoreGoes
    <2>4. kind # "base" /\ Filtered
      BY <2>2, <2>3 DEF Filtered
    <2> QED
      BY <2>1, <2>2, <2>4 DEF Swap
  <1>3. ASSUME NEW p \in Publishers, PublishStep(p)
        PROVE  g = gen /\ Filtered /\ comp'.sup = comp.sup
    <2>1. comp' = comp
      BY <1>3 DEF PublishStep, Bump, Rebuild, NextGeneration, Lookup, Evict, RemovePending
    <2>2. ~NextGeneration(p)
      BY <1>0 DEF NextGeneration
    <2>3. gen' = gen
      BY <1>3, <2>2 DEF PublishStep, Bump, Rebuild, Lookup, Evict, RemovePending
    <2>4. \A o \in Publishers \ {p} : pub'[o] = pub[o]
      BY <1>3, StepGoes DEF PublishStep, Works, Finishes
    <2>5. Works(p) \/ pub[p].kind # "base"
      <3>1. CASE Bump(p) \/ Rebuild(p) \/ Lookup(p)
        BY <3>1, StepGoes
      <3>2. CASE Evict(p) \/ RemovePending(p)
        BY <3>2 DEF Evict, RemovePending, PubInv
      <3> QED
        BY <1>3, <2>2, <3>1, <3>2 DEF PublishStep
    <2>6. Filtered
      BY <2>4, <2>5 DEF Filtered, Works
    <2> QED
      BY <2>1, <2>3, <2>6
  <1>4. ASSUME NEW u \in Uris, Enqueue(u) PROVE UNCHANGED <<comp, gen, pub>>
    BY <1>4 DEF Enqueue
  <1>5. ASSUME NEW q \in Pulls, Pulling(q) \/ PullStep(q) PROVE UNCHANGED <<comp, gen, pub>>
    BY <1>5 DEF Pulling, PullStep, PullStart, PullDoc, PullPending, PullSnap, PullLookup,
                PullCompute, PullCommit, PullReply, shared
  <1>6. CASE UNCHANGED vars
    BY <1>1, <1>6 DEF vars
  <1> QED
    BY <1>1, <1>2, <1>3, <1>4, <1>5, <1>6 DEF Next

\* What a publish does to the pulls and entries it overtakes.
LEMMA PublishOvertakes ==
  ASSUME TypeOK, KeyInv, NEW p \in Publishers, Publish(p), NEW u \in Uris
  PROVE  /\ UNCHANGED <<gen, cache, subs, pull, got>>
         /\ UNCHANGED <<slips.doomed, slips.unsubscribed, slips.misled>>
         /\ \A q \in Pulls : Snapped(q) /\ u \notin slips'.overtaken[q] =>
              u \notin slips.overtaken[q] /\ Seen(u, comp') = Seen(u, comp)
         /\ u \notin slips'.missed =>
              /\ u \notin slips.missed
              /\ \/ Seen(u, comp') = Seen(u, comp)
                 \/ u \notin slips.unsubscribed /\ pub'[p].pc = "stored"
                    /\ Observes[u] \cap pub'[p].keys # {}
         /\ pub[p] = IdlePub
         /\ \A o \in Publishers \ {p} : pub'[o] = pub[o]
         /\ pub'[p].kind \in {"folder", "base"} => pub'[p].keys = {}
  <1>1. PICK c \in Compilation, kind \in {"edit", "file", "folder", "base"},
             w \in Uris \cup {None}, keys \in SUBSET Uris : Swap(p, c, kind, w, keys)
    BY PublishSwaps
  <1>2. Store(p, c, kind, w, keys)
    BY <1>1 DEF Swap
  <1>3. /\ pub'[p].pc = "stored" /\ pub'[p].kind = kind /\ pub'[p].keys = keys
        /\ \A o \in Publishers \ {p} : pub'[o] = pub[o]
    BY <1>2, StoreGoes
  <1> DEFINE changed == Lookers({k \in Uris : c.sym[k] # comp.sym[k]})
  <1>4. slips' = [slips EXCEPT
          !.overtaken = [q \in Pulls |-> IF Snapped(q) THEN slips.overtaken[q] \cup changed ELSE {}],
          !.missed    = slips.missed \cup (IF kind = "folder" THEN changed
                                           ELSE changed \cap slips.unsubscribed)]
    BY <1>2 DEF Store, Overtakes
  <1>5. Observes[u] \subseteq Uris
    BY ScopeAssumption
  <1>6. u \notin changed => Seen(u, c) = Seen(u, comp)
    <2>1. u \notin changed => \A k \in Observes[u] : c.sym[k] = comp.sym[k]
      BY <1>5 DEF Lookers
    <2> QED
      BY <2>1 DEF Seen
  <1>7. u \in changed /\ kind # "folder" => Observes[u] \cap keys # {}
    <2>1. u \in changed => \E k \in Observes[u] : k \in Uris /\ c.sym[k] # comp.sym[k]
      BY <1>5 DEF Lookers
    <2>2. kind # "folder" => \A k \in Uris \ keys : c.sym[k] = comp.sym[k]
      BY <1>1 DEF Swap
    <2> QED
      BY <2>1, <2>2
  <1> HIDE DEF changed
  <1>8. /\ comp' = c /\ pub[p] = IdlePub
        /\ UNCHANGED <<gen, cache, subs, pull, got>>
    BY <1>2 DEF Store
  <1>9. /\ slips'.doomed = slips.doomed
        /\ slips'.unsubscribed = slips.unsubscribed
        /\ slips'.misled = slips.misled
        /\ slips'.missed = slips.missed \cup (IF kind = "folder" THEN changed
                                              ELSE changed \cap slips.unsubscribed)
        /\ \A q \in Pulls : Snapped(q) => slips'.overtaken[q] = slips.overtaken[q] \cup changed
    BY <1>4 DEF TypeOK, Slips
  <1>10. kind \in {"folder", "base"} => keys = {}
    BY <1>1 DEF Swap
  <1> QED
    BY <1>3, <1>6, <1>7, <1>8, <1>9, <1>10

\* What the later steps of a publisher leave alone.
LEMMA StepKeeps ==
  ASSUME TypeOK, NEW p \in Publishers, PublishStep(p)
  PROVE  /\ UNCHANGED <<comp, subs, pull, got, slips>>
         /\ \A u \in Uris : cache'[u] \in {None, cache[u]}
         /\ gen' \in {gen, gen + 1}
         /\ pub[p] # IdlePub
         /\ Works(p) \/ Finishes(p)
  <1>1. Works(p) \/ Finishes(p)
    BY StepGoes DEF PublishStep
  <1> QED
    BY <1>1 DEF PublishStep, Bump, Rebuild, NextGeneration, Lookup, Evict, RemovePending,
                Works, Finishes

\* How the steps of a pull record what they overtook or were overtaken by.
LEMMA PullSlips ==
  ASSUME TypeOK, PullInv, NEW q \in Pulls, PullStep(q)
  PROVE  /\ UNCHANGED <<comp, gen, pub>>
         /\ \A r \in Pulls \ {q} : /\ pull'[r] = pull[r]
                                   /\ slips'.overtaken[r] = slips.overtaken[r]
                                   /\ slips'.doomed[r] = slips.doomed[r]
         /\ ~PullSnap(q) => slips'.overtaken[q] = slips.overtaken[q]
         /\ PullLookup(q) => slips'.doomed[q] =
              {u \in {w \in pull[q].docs : Hit(q, w)} :
                 u \in slips.missed \cup slips.overtaken[q] \/ ~Settled(u)}
         /\ ~PullSnap(q) /\ ~PullLookup(q) => slips'.doomed[q] = slips.doomed[q]
         /\ PullCommit(q) =>
              /\ slips'.unsubscribed = slips.unsubscribed \cup pull[q].fresh
              /\ slips'.missed = (slips.missed \ pull[q].fresh)
                                   \cup (pull[q].fresh \cap slips.overtaken[q])
         /\ PullReply(q) => slips'.unsubscribed = slips.unsubscribed \ pull[q].fresh
         /\ ~PullCommit(q) => slips'.missed = slips.missed /\ UNCHANGED cache
         /\ ~PullCommit(q) /\ ~PullReply(q) => slips'.unsubscribed = slips.unsubscribed
         /\ ~PullReply(q) => slips'.misled = slips.misled /\ UNCHANGED <<got, subs>>
  <1>1. UNCHANGED <<comp, gen, pub>>
    BY PullFrame DEF shared
  <1>2. \A r \in Pulls \ {q} : pull'[r] = pull[r]
    BY PullFrame DEF Goes, Ends
  <1>3. /\ slips \in Slips
        /\ DOMAIN slips.overtaken = Pulls
        /\ DOMAIN slips.doomed = Pulls
    BY DEF TypeOK, Slips
  <1>4. /\ PullSnap(q) => pull[q].pc = "snap"
        /\ PullLookup(q) => pull[q].pc = "lookup"
        /\ PullCommit(q) => pull[q].pc = "compute" /\ pull[q].todo = {}
        /\ PullReply(q) => pull[q].pc = "reply"
        /\ PullDoc(q) => pull[q].pc = "doc"
        /\ PullPending(q) => pull[q].pc = "pending"
        /\ \A u \in Uris : PullCompute(q, u) => pull[q].pc = "compute" /\ pull[q].todo # {}
    BY DEF PullSnap, PullLookup, PullCommit, PullReply, PullDoc, PullPending, PullCompute
  <1>5. CASE PullSnap(q)
    <2>1. slips' = [slips EXCEPT !.overtaken[q] = {}, !.doomed[q] = {}]
          /\ UNCHANGED <<cache, subs, got>>
      BY <1>5 DEF PullSnap
    <2>2. /\ \A r \in Pulls \ {q} : /\ slips'.overtaken[r] = slips.overtaken[r]
                                    /\ slips'.doomed[r] = slips.doomed[r]
          /\ slips'.missed = slips.missed
          /\ slips'.unsubscribed = slips.unsubscribed
          /\ slips'.misled = slips.misled
      BY <1>3, <2>1 DEF Slips
    <2> QED
      BY <1>1, <1>2, <1>4, <1>5, <2>1, <2>2
  <1>6. CASE PullLookup(q)
    <2> DEFINE D == {u \in {w \in pull[q].docs : Hit(q, w)} :
                       u \in slips.missed \cup slips.overtaken[q] \/ ~Settled(u)}
    <2>1. slips' = [slips EXCEPT !.doomed[q] = D] /\ UNCHANGED <<cache, subs, got>>
      BY <1>6 DEF PullLookup
    <2> HIDE DEF D
    <2>2. /\ \A r \in Pulls : slips'.overtaken[r] = slips.overtaken[r]
          /\ \A r \in Pulls \ {q} : slips'.doomed[r] = slips.doomed[r]
          /\ slips'.doomed[q] = D
          /\ slips'.missed = slips.missed
          /\ slips'.unsubscribed = slips.unsubscribed
          /\ slips'.misled = slips.misled
      BY <1>3, <2>1 DEF Slips
    <2> USE DEF D
    <2> QED
      BY <1>1, <1>2, <1>4, <1>6, <2>1, <2>2
  <1>7. CASE PullCommit(q)
    <2>1. /\ slips' = [slips EXCEPT
               !.unsubscribed = slips.unsubscribed \cup pull[q].fresh,
               !.missed = (slips.missed \ pull[q].fresh) \cup (pull[q].fresh \cap slips.overtaken[q])]
          /\ UNCHANGED <<subs, got>>
      BY <1>7 DEF PullCommit
    <2> QED
      BY <1>1, <1>2, <1>3, <1>4, <1>7, <2>1 DEF Slips
  <1>8. CASE PullReply(q)
    <2>1. PICK new \in SUBSET pull[q].docs :
            slips' = [slips EXCEPT
              !.unsubscribed = slips.unsubscribed \ pull[q].fresh,
              !.misled = (slips.misled \ new) \cup (new \cap slips.doomed[q])]
      BY <1>8 DEF PullReply
    <2>2. cache' = cache
      BY <1>8 DEF PullReply
    <2> QED
      BY <1>1, <1>2, <1>3, <1>4, <1>8, <2>1, <2>2 DEF Slips
  <1>9. CASE PullDoc(q) \/ PullPending(q) \/ \E u \in Uris : PullCompute(q, u)
    <2>1. UNCHANGED <<cache, subs, got, slips>>
      BY <1>9 DEF PullDoc, PullPending, PullCompute
    <2>2. ~PullSnap(q) /\ ~PullLookup(q) /\ ~PullCommit(q) /\ ~PullReply(q)
      BY <1>4, <1>9
    <2> QED
      BY <1>1, <1>2, <2>1, <2>2
  <1> QED
    BY <1>5, <1>6, <1>7, <1>8, <1>9 DEF PullStep

LEMMA NextKeys ==
  ASSUME TypeOK, KeyInv, [Next]_vars
  PROVE  KeyInv'
  <1>1. CASE UNCHANGED pub
    BY <1>1 DEF KeyInv
  <1>2. ASSUME NEW p \in Publishers, Publish(p) PROVE KeyInv'
    <2>1. \A o \in Publishers \ {p} : pub'[o] = pub[o]
      BY <1>2, PublishSwaps, StoreGoes DEF Swap
    <2>2. pub'[p].kind \in {"folder", "base"} => pub'[p].keys = {}
      <3>1. PICK c \in Compilation, kind \in {"edit", "file", "folder", "base"},
                 u \in Uris \cup {None}, keys \in SUBSET Uris : Swap(p, c, kind, u, keys)
        BY <1>2, PublishSwaps
      <3>2. pub'[p].kind = kind /\ pub'[p].keys = keys
        BY <3>1, StoreGoes DEF Swap
      <3> QED
        BY <3>1, <3>2 DEF Swap
    <2> QED
      BY <2>1, <2>2 DEF KeyInv
  <1>3. ASSUME NEW p \in Publishers, PublishStep(p) PROVE KeyInv'
    BY <1>3, StepKeeps DEF Works, Finishes, KeyInv
  <1>4. ASSUME NEW u \in Uris, Enqueue(u) PROVE UNCHANGED pub
    BY <1>4 DEF Enqueue
  <1>5. ASSUME NEW q \in Pulls, Pulling(q) \/ PullStep(q) PROVE UNCHANGED pub
    BY <1>5 DEF Pulling, PullStep, PullStart, PullDoc, PullPending, PullSnap, PullLookup,
                PullCompute, PullCommit, PullReply, shared
  <1>6. CASE UNCHANGED vars
    BY <1>1, <1>6 DEF vars
  <1> QED
    BY <1>1, <1>2, <1>3, <1>4, <1>5, <1>6 DEF Next

LEMMA NextSubs ==
  ASSUME TypeOK, PullInv, KeyInv, SubsInv, [Next]_vars
  PROVE  SubsInv'
  <1>1. CASE UNCHANGED <<cache, subs, slips>>
    BY <1>1 DEF SubsInv
  <1>2. ASSUME NEW p \in Publishers, Publish(p) PROVE SubsInv'
    BY <1>2, PublishOvertakes DEF SubsInv
  <1>3. ASSUME NEW p \in Publishers, PublishStep(p) PROVE SubsInv'
    BY <1>3, StepKeeps DEF SubsInv
  <1>4. ASSUME NEW q \in Pulls, PullStep(q) PROVE SubsInv'
    <2>1. CASE PullCommit(q)
      <3>1. /\ slips'.unsubscribed = slips.unsubscribed \cup pull[q].fresh
            /\ subs' = subs
            /\ \A u \in Uris \ pull[q].fresh : cache'[u] = cache[u]
        BY <1>4, <2>1, PullSlips DEF PullCommit
      <3> QED
        BY <3>1 DEF SubsInv
    <2>2. CASE PullReply(q)
      <3>1. /\ slips'.unsubscribed = slips.unsubscribed \ pull[q].fresh
            /\ cache' = cache
            /\ \A u \in Uris : subs'[u] = IF u \in pull[q].fresh THEN Observes[u] ELSE subs[u]
        BY <1>4, <2>2, PullSlips DEF PullReply, Subscribe
      <3> QED
        BY <3>1 DEF SubsInv
    <2>3. CASE ~PullCommit(q) /\ ~PullReply(q)
      BY <1>4, <2>3, PullSlips DEF SubsInv
    <2> QED
      BY <2>1, <2>2, <2>3
  <1>5. ASSUME NEW u \in Uris, Enqueue(u) PROVE UNCHANGED <<cache, subs, slips>>
    BY <1>5 DEF Enqueue
  <1>6. ASSUME NEW q \in Pulls, Pulling(q) PROVE UNCHANGED <<cache, subs, slips>>
    BY <1>6 DEF Pulling, PullStart
  <1>7. CASE UNCHANGED vars
    BY <1>1, <1>7 DEF vars
  <1> QED
    BY <1>1, <1>2, <1>3, <1>4, <1>5, <1>6, <1>7 DEF Next

\* The generation a pull has read stays behind the current one.
LEMMA PullGen ==
  ASSUME TypeOK, NEW q \in Pulls, pull[q] # IdlePull
  PROVE  gen \in Nat /\ pull[q].gen \in Nat /\ pull[q].gen <= gen
  BY PullShape DEF TypeOK

LEMMA NextSnap ==
  ASSUME TypeOK, PubInv, PullInv, KeyInv, SnapInv, [Next]_vars
  PROVE  SnapInv'
  <1> DEFINE Mine(q) == Snapped(q) =>
        /\ \A u \in Uris \ slips.overtaken[q] : Seen(u, pull[q].snap) = Seen(u, comp)
        /\ pull[q].gen = gen /\ Filtered => pull[q].snap.sup = comp.sup
  <1>0. \A q \in Pulls : Mine(q)
    BY DEF SnapInv
  <1> SUFFICES \A q \in Pulls : Mine(q)'
    BY DEF SnapInv
  <1>1. ASSUME NEW q \in Pulls, pull'[q] = pull[q],
               Snapped(q) => \A u \in Uris \ slips'.overtaken[q] :
                               u \notin slips.overtaken[q] /\ Seen(u, comp') = Seen(u, comp)
        PROVE  Mine(q)'
    <2> SUFFICES ASSUME Snapped(q)
                 PROVE  /\ \A u \in Uris \ slips'.overtaken[q] : Seen(u, pull[q].snap) = Seen(u, comp')
                        /\ pull[q].gen = gen' /\ Filtered' => pull[q].snap.sup = comp'.sup
      BY <1>1 DEF Snapped, Seen
    <2>1. \A u \in Uris \ slips'.overtaken[q] : Seen(u, pull[q].snap) = Seen(u, comp')
      BY <1>0, <1>1
    <2>2. ASSUME pull[q].gen = gen', Filtered' PROVE pull[q].snap.sup = comp'.sup
      <3>1. pull[q].gen \in Nat /\ pull[q].gen <= gen
        BY PullGen DEF Snapped, IdlePull
      <3>2. pull[q].gen = gen /\ Filtered /\ comp'.sup = comp.sup
        BY <2>2, <3>1, GenStays
      <3> QED
        BY <1>0, <3>2
    <2> QED
      BY <2>1, <2>2
  <1>2. CASE UNCHANGED <<comp, pull, slips>>
    BY <1>1, <1>2 DEF Seen
  <1>3. ASSUME NEW p \in Publishers, Publish(p), NEW q \in Pulls PROVE Mine(q)'
    <2>1. pull' = pull
      BY <1>3 DEF Publish, StoreEdit, StoreFile, StoreFolder, StoreBase, Store
    <2>2. Snapped(q) => \A u \in Uris \ slips'.overtaken[q] :
            u \notin slips.overtaken[q] /\ Seen(u, comp') = Seen(u, comp)
      BY <1>3, PublishOvertakes
    <2> QED
      BY <1>1, <2>1, <2>2
  <1>4. ASSUME NEW p \in Publishers, PublishStep(p) PROVE UNCHANGED <<comp, pull, slips>>
    BY <1>4, StepKeeps
  <1>5. ASSUME NEW q \in Pulls, NEW kind, NEW docs, PullStart(q, kind, docs), NEW r \in Pulls
        PROVE  Mine(r)'
    <2>1. /\ UNCHANGED <<comp, slips>>
          /\ \A o \in Pulls \ {q} : pull'[o] = pull[o]
          /\ pull'[q].pc = "doc"
      BY <1>5, StartGoes
    <2>2. CASE r = q
      BY <2>1, <2>2 DEF Snapped
    <2>3. CASE r # q
      BY <1>1, <2>1, <2>3 DEF Seen
    <2> QED
      BY <2>2, <2>3
  <1>6. ASSUME NEW q \in Pulls, PullStep(q), NEW r \in Pulls PROVE Mine(r)'
    <2>1. /\ UNCHANGED <<comp, gen, pub>>
          /\ \A o \in Pulls \ {q} : pull'[o] = pull[o] /\ slips'.overtaken[o] = slips.overtaken[o]
          /\ ~PullSnap(q) => slips'.overtaken[q] = slips.overtaken[q]
      BY <1>6, PullSlips
    <2>2. CASE r # q
      BY <1>1, <2>1, <2>2 DEF Seen
    <2>3. CASE r = q
      <3>1. CASE Ends(q)
        BY <2>3, <3>1 DEF Ends, IdlePull, Snapped
      <3>2. CASE PullDoc(q)
        BY <2>3, <3>2, DocGoes DEF Snapped
      <3>3. CASE PullPending(q) /\ ~Ends(q)
        BY <2>3, <3>3, PendingGoes DEF Snapped
      <3>4. CASE PullSnap(q) /\ ~Ends(q)
        <4>1. pull'[q].snap = comp
          BY <3>4, SnapGoes
        <4> QED
          BY <2>1, <2>3, <4>1 DEF Seen
      <3>5. CASE (PullLookup(q) \/ (\E u \in Uris : PullCompute(q, u)) \/ PullCommit(q)) /\ ~Ends(q)
        <4>1. /\ pull'[q].snap = pull[q].snap
              /\ pull'[q].gen = pull[q].gen
              /\ pull[q].pc \in {"lookup", "compute"}
          BY <3>5, LookupGoes, ComputeGoes, CommitGoes
        <4>2. ~PullSnap(q) /\ Snapped(q)
          BY <4>1 DEF PullSnap, Snapped
        <4>3. /\ \A u \in Uris \ slips.overtaken[q] : Seen(u, pull[q].snap) = Seen(u, comp)
              /\ pull[q].gen = gen /\ Filtered => pull[q].snap.sup = comp.sup
          BY <1>0, <4>2
        <4>4. (Filtered' <=> Filtered) /\ \A u \in Uris : \A c : Seen(u, c)' = Seen(u, c)
          BY <2>1 DEF Filtered, Seen
        <4> QED
          BY <2>1, <2>3, <4>1, <4>2, <4>3, <4>4
      <3>6. PullReply(q) => Ends(q)
        BY FailEnds DEF PullReply
      <3> QED
        BY <1>6, <3>1, <3>2, <3>3, <3>4, <3>5, <3>6 DEF PullStep
    <2> QED
      BY <2>2, <2>3
  <1>7. ASSUME NEW u \in Uris, Enqueue(u) PROVE UNCHANGED <<comp, pull, slips>>
    BY <1>7 DEF Enqueue
  <1>8. CASE UNCHANGED vars
    BY <1>2, <1>8 DEF vars
  <1> HIDE DEF Mine
  <1> QED
    BY <1>2, <1>3, <1>4, <1>5, <1>6, <1>7, <1>8 DEF Next, Pulling

\* With no publisher left to evict it, an entry that is not missed is current.
LEMMA OwesUnsettled ==
  ASSUME SubsInv, NEW u \in Uris, NEW p \in Publishers, Owes(p, u)
  PROVE  ~Settled(u)
  BY DEF SubsInv, Owes, Settled

\* A publisher that has to evict u goes on having to until u is evicted.
LEMMA OwesStays ==
  ASSUME TypeOK, KeyInv, NEW p \in Publishers, PublishStep(p), NEW u \in Uris,
         cache'[u] # None, NEW o \in Publishers, Owes(o, u)
  PROVE  Owes(o, u)'
  <1>1. subs' = subs /\ (Works(p) \/ Finishes(p))
    BY StepKeeps
  <1>2. CASE o # p
    BY <1>1, <1>2 DEF Owes, Works, Finishes
  <1>3. CASE o = p
    <2>1. CASE Bump(p)
      <3>1. pub[p].pc = "stored" /\ subs[u] \cap pub[p].keys # {}
        BY <1>3, <2>1 DEF Bump, Owes
      <3>2. pub[p].kind \notin {"folder", "base"}
        BY <3>1, PubShape DEF KeyInv, IdlePub
      <3>3. pub'[p].pc = "lookup" /\ pub'[p].keys = pub[p].keys
        BY <2>1, <3>2, StepGoes DEF Works
      <3> QED
        BY <1>1, <1>3, <3>1, <3>3 DEF Owes
    <2>2. CASE Lookup(p)
      <3>1. pub[p].pc = "lookup" /\ subs[u] \cap pub[p].keys # {}
        BY <1>3, <2>2 DEF Lookup, Owes
      <3>2. pub'[p].pc = "evict" /\ pub'[p].inval = {w \in Uris : subs[w] \cap pub[p].keys # {}}
        BY <2>2, StepGoes
      <3> QED
        BY <1>3, <3>1, <3>2 DEF Owes
    <2>3. ~Evict(p)
      BY <1>3 DEF Evict, Owes
    <2>4. ~Rebuild(p) /\ ~NextGeneration(p) /\ ~RemovePending(p)
      BY <1>3 DEF Owes, Rebuild, NextGeneration, RemovePending
    <2> QED
      BY <2>1, <2>2, <2>3, <2>4 DEF PublishStep
  <1> QED
    BY <1>2, <1>3

LEMMA NextEntry ==
  ASSUME TypeOK, PubInv, PullInv, OwnInv, KeyInv, SubsInv, SnapInv, EntryInv, OutInv, [Next]_vars
  PROVE  EntryInv'
  <1> DEFINE Mine(u) == cache[u] # None =>
        /\ cache[u].gen <= gen
        /\ cache[u].gen = gen /\ Filtered => cache[u].diag.sup = comp.sup
        /\ u \notin slips.missed =>
             cache[u].diag.seen = Seen(u, comp) \/ \E p \in Publishers : Owes(p, u)
  <1>0. \A u \in Uris : Mine(u)
    BY DEF EntryInv
  <1> SUFFICES ASSUME NEW u \in Uris PROVE Mine(u)'
    BY DEF EntryInv
  <1>00. gen \in Nat /\ gen' \in Nat /\ gen <= gen'
    BY NextGen DEF TypeOK
  \* The first two conjuncts of an entry that stays.
  <1>1. ASSUME cache[u] # None, cache'[u] = cache[u]
        PROVE  /\ cache'[u].gen <= gen'
               /\ cache'[u].gen = gen' /\ Filtered' => cache'[u].diag.sup = comp'.sup
    <2>1. cache[u].gen \in Nat /\ cache[u].gen <= gen
      BY <1>0, <1>1 DEF TypeOK, CacheEntry
    <2>2. ASSUME cache[u].gen = gen', Filtered' PROVE cache[u].diag.sup = comp'.sup
      <3>1. cache[u].gen = gen /\ Filtered /\ comp'.sup = comp.sup
        BY <2>1, <2>2, GenStays
      <3> QED
        BY <1>0, <1>1, <3>1
    <2> QED
      BY <1>00, <1>1, <2>1, <2>2
  <1>2. CASE UNCHANGED <<cache, subs, comp, pub>> /\ slips'.missed = slips.missed
    <2>1. (\A p \in Publishers : Owes(p, u)' <=> Owes(p, u)) /\ Seen(u, comp)' = Seen(u, comp)
      BY <1>2 DEF Owes, Seen
    <2> QED
      BY <1>0, <1>1, <1>2, <2>1
  <1>3. ASSUME NEW p \in Publishers, Publish(p) PROVE Mine(u)'
    <2> SUFFICES ASSUME cache'[u] # None, u \notin slips'.missed
                 PROVE  cache'[u].diag.seen = Seen(u, comp') \/ \E o \in Publishers : Owes(o, u)'
      BY <1>1, <1>3, PublishOvertakes DEF Seen
    <2>1. /\ UNCHANGED <<cache, subs>>
          /\ u \notin slips.missed
          /\ \/ Seen(u, comp') = Seen(u, comp)
             \/ u \notin slips.unsubscribed /\ pub'[p].pc = "stored"
                /\ Observes[u] \cap pub'[p].keys # {}
          /\ pub[p] = IdlePub
          /\ \A o \in Publishers \ {p} : pub'[o] = pub[o]
      BY <1>3, PublishOvertakes
    <2>2. CASE Seen(u, comp') = Seen(u, comp)
      <3>1. cache[u].diag.seen = Seen(u, comp) \/ \E o \in Publishers : Owes(o, u)
        BY <1>0, <2>1
      <3>2. ~Owes(p, u)
        BY <2>1 DEF Owes, IdlePub
      <3>3. \A o \in Publishers \ {p} : Owes(o, u) => Owes(o, u)'
        BY <2>1 DEF Owes
      <3> QED
        BY <2>1, <2>2, <3>1, <3>2, <3>3
    <2>3. CASE /\ u \notin slips.unsubscribed
               /\ pub'[p].pc = "stored"
               /\ Observes[u] \cap pub'[p].keys # {}
      <3>1. subs'[u] = Observes[u]
        BY <2>1, <2>3 DEF SubsInv
      <3>2. Owes(p, u)'
        BY <2>3, <3>1 DEF Owes
      <3> QED
        BY <3>2
    <2> QED
      BY <2>1, <2>2, <2>3
  <1>4. ASSUME NEW p \in Publishers, PublishStep(p) PROVE Mine(u)'
    <2>1. /\ UNCHANGED <<comp, slips>>
          /\ cache'[u] \in {None, cache[u]}
      BY <1>4, StepKeeps
    <2>2. cache'[u] # None => \A o \in Publishers : Owes(o, u) => Owes(o, u)'
      BY <1>4, OwesStays
    <2>3. Seen(u, comp)' = Seen(u, comp)
      BY <2>1 DEF Seen
    <2> QED
      BY <1>0, <1>1, <2>1, <2>2, <2>3
  <1>5. ASSUME NEW q \in Pulls, PullStep(q) PROVE Mine(u)'
    <2>0. UNCHANGED <<comp, gen, pub>>
      BY <1>5, PullSlips
    <2>00. (Filtered' <=> Filtered) /\ Seen(u, comp)' = Seen(u, comp)
      BY <2>0 DEF Filtered, Seen
    <2>1. CASE PullCommit(q)
      <3>1. /\ slips'.missed = (slips.missed \ pull[q].fresh) \cup (pull[q].fresh \cap slips.overtaken[q])
            /\ subs' = subs
            /\ pull[q].pc = "compute"
            /\ cache'[u] = IF u \in pull[q].fresh
                           THEN Entry(pull[q].ver[u], pull[q].snap, pull[q].gen, pull[q].out[u])
                           ELSE cache[u]
        BY <1>5, <2>1, PullSlips DEF PullCommit
      <3>2. \A p \in Publishers : Owes(p, u)' <=> Owes(p, u)
        BY <2>0, <3>1 DEF Owes
      <3>3. CASE u \notin pull[q].fresh
        BY <1>0, <1>1, <2>00, <3>1, <3>2, <3>3
      <3>4. CASE u \in pull[q].fresh
        <4>1. pull[q] # IdlePull /\ Snapped(q)
          BY <3>1 DEF IdlePull, Snapped
        <4>2. u \in pull[q].docs
          BY <3>4, <4>1, PullShape
        <4>3. pull[q].out[u] = Truth(u, pull[q].ver[u], pull[q].snap)
          BY <3>1, <3>4, <4>2 DEF OutInv
        <4>4. cache'[u] = [ver |-> pull[q].ver[u], base |-> pull[q].snap.base,
                           gen |-> pull[q].gen, diag |-> Truth(u, pull[q].ver[u], pull[q].snap)]
          BY <3>1, <3>4, <4>3 DEF Entry
        <4>5. /\ cache'[u].gen = pull[q].gen
              /\ cache'[u].diag.seen = Seen(u, pull[q].snap)
              /\ cache'[u].diag.sup = pull[q].snap.sup
          BY <4>4 DEF Truth, Seen
        <4>6. /\ u \notin slips.overtaken[q] => Seen(u, pull[q].snap) = Seen(u, comp)
              /\ pull[q].gen = gen /\ Filtered => pull[q].snap.sup = comp.sup
          BY <4>1 DEF SnapInv
        <4>7. pull[q].gen <= gen
          BY <4>1, PullGen
        <4> QED
          BY <2>0, <2>00, <3>1, <3>4, <4>5, <4>6, <4>7
      <3> QED
        BY <3>3, <3>4
    <2>2. CASE PullReply(q)
      <3>1. /\ cache' = cache
            /\ slips'.missed = slips.missed
            /\ subs'[u] = IF u \in pull[q].fresh THEN Observes[u] ELSE subs[u]
        BY <1>5, <2>2, PullSlips DEF PullReply, PullCommit, Subscribe
      <3>2. subs[u] \subseteq subs'[u]
        BY <3>1 DEF SubsInv
      <3>3. \A p \in Publishers : Owes(p, u) => Owes(p, u)'
        BY <2>0, <3>2 DEF Owes
      <3> QED
        BY <1>0, <1>1, <2>00, <3>1, <3>3
    <2>3. CASE ~PullCommit(q) /\ ~PullReply(q)
      BY <1>2, <1>5, <2>0, <2>3, PullSlips
    <2> QED
      BY <2>1, <2>2, <2>3
  <1>6. ASSUME NEW w \in Uris, Enqueue(w)
        PROVE  UNCHANGED <<cache, subs, comp, pub>> /\ slips'.missed = slips.missed
    BY <1>6 DEF Enqueue
  <1>7. ASSUME NEW q \in Pulls, NEW kind, NEW docs, PullStart(q, kind, docs)
        PROVE  UNCHANGED <<cache, subs, comp, pub>> /\ slips'.missed = slips.missed
    BY <1>7, StartGoes
  <1>8. CASE UNCHANGED vars
    BY <1>2, <1>8 DEF vars
  <1> HIDE DEF Mine
  <1> QED
    BY <1>2, <1>3, <1>4, <1>5, <1>6, <1>7, <1>8 DEF Next, Pulling

LEMMA NextOut ==
  ASSUME TypeOK, PubInv, PullInv, KeyInv, SubsInv, SnapInv, EntryInv, OutInv, [Next]_vars
  PROVE  OutInv'
  <1> DEFINE Mine(q, u) ==
        /\ u \in pull[q].fresh => pull[q].out[u] = Truth(u, pull[q].ver[u], pull[q].snap)
        /\ u \notin pull[q].todo /\ ~pull[q].cancelled =>
             /\ u \notin slips.doomed[q] => pull[q].out[u].seen = Seen(u, pull[q].snap)
             /\ pull[q].gen = gen /\ Filtered => pull[q].out[u].sup = comp.sup
  <1>0. \A q \in Pulls : pull[q].pc \in {"compute", "reply"} => \A u \in pull[q].docs : Mine(q, u)
    BY DEF OutInv
  <1> SUFFICES ASSUME NEW q \in Pulls, pull'[q].pc \in {"compute", "reply"}, NEW u \in pull'[q].docs
               PROVE  Mine(q, u)'
    BY DEF OutInv
  <1>1. ASSUME pull'[q] = pull[q], slips'.doomed[q] = slips.doomed[q] PROVE Mine(q, u)'
    <2>1. Mine(q, u) /\ pull[q] # IdlePull
      BY <1>0, <1>1 DEF IdlePull
    <2>2. ASSUME pull[q].gen = gen', Filtered'
          PROVE  pull[q].gen = gen /\ Filtered /\ comp'.sup = comp.sup
      BY <2>1, <2>2, PullGen, GenStays
    <2> QED
      BY <1>1, <2>1, <2>2 DEF Truth, Seen
  <1>2. ASSUME NEW p \in Publishers, Publish(p) PROVE Mine(q, u)'
    <2>1. pull' = pull
      BY <1>2 DEF Publish, StoreEdit, StoreFile, StoreFolder, StoreBase, Store
    <2>2. u \in Uris
      BY <2>1, PullShape DEF IdlePull
    <2>3. slips'.doomed = slips.doomed
      BY <1>2, <2>2, PublishOvertakes
    <2> QED
      BY <1>1, <2>1, <2>3
  <1>3. ASSUME NEW p \in Publishers, PublishStep(p) PROVE Mine(q, u)'
    BY <1>1, <1>3, StepKeeps
  <1>4. ASSUME NEW r \in Pulls, NEW kind, NEW docs, PullStart(r, kind, docs) PROVE Mine(q, u)'
    BY <1>1, <1>4, StartGoes
  <1>5. ASSUME NEW r \in Pulls, PullStep(r) PROVE Mine(q, u)'
    <2>0. /\ UNCHANGED <<comp, gen, pub>>
          /\ r # q => pull'[q] = pull[q] /\ slips'.doomed[q] = slips.doomed[q]
      BY <1>5, PullSlips
    <2>00. Filtered' <=> Filtered
      BY <2>0 DEF Filtered
    <2>1. CASE r # q
      BY <1>1, <2>0, <2>1
    <2>2. CASE r = q
      <3>0. ~Ends(q)
        BY DEF Ends, IdlePull
      <3>1. CASE PullLookup(q)
        <4>1. /\ pull[q].pc = "lookup"
              /\ Goes(q)
              /\ pull'[q].gen = pull[q].gen
              /\ pull'[q].snap = pull[q].snap
              /\ pull'[q].fresh = pull[q].fresh
              /\ pull'[q].todo = {w \in pull[q].docs : ~Hit(q, w)}
              /\ \A w \in pull[q].docs : Hit(q, w) => pull'[q].out[w] = cache[w].diag
          BY <3>0, <3>1, LookupGoes
        <4>2. /\ pull'[q].fresh = {}
              /\ pull'[q].docs = pull[q].docs
              /\ pull[q].docs \subseteq Uris
              /\ Snapped(q)
          BY <4>1, PullShape DEF PullInv, Goes, Snapped, IdlePull
        <4>3. slips'.doomed[q] = {w \in {v \in pull[q].docs : Hit(q, v)} :
                                    w \in slips.missed \cup slips.overtaken[q] \/ ~Settled(w)}
          BY <1>5, <2>2, <3>1, PullSlips
        <4>4. ASSUME Hit(q, u), u \notin slips'.doomed[q]
              PROVE  cache[u].diag.seen = Seen(u, pull[q].snap)
          <5>1. u \in Uris /\ u \notin slips.missed /\ u \notin slips.overtaken[q] /\ Settled(u)
            BY <4>2, <4>3, <4>4
          <5>2. cache[u].diag.seen = Seen(u, comp)
            BY <4>4, <5>1, OwesUnsettled DEF EntryInv, Hit
          <5>3. Seen(u, pull[q].snap) = Seen(u, comp)
            BY <4>2, <5>1 DEF SnapInv
          <5> QED
            BY <5>2, <5>3
        <4>5. ASSUME Hit(q, u), pull[q].gen = gen, Filtered
              PROVE  cache[u].diag.sup = comp.sup
          BY <4>2, <4>5 DEF Hit, EntryInv
        <4>6. Seen(u, pull'[q].snap) = Seen(u, pull[q].snap)
          BY <4>1
        <4> QED
          BY <2>0, <2>00, <4>1, <4>2, <4>4, <4>5, <4>6 DEF Truth, Seen
      <3>2. ASSUME NEW w \in Uris, PullCompute(q, w) PROVE Mine(q, u)'
        <4>1. /\ Goes(q)
              /\ w \in pull[q].docs
              /\ pull[q].pc = "compute"
              /\ pull'[q].gen = pull[q].gen
              /\ pull'[q].snap = pull[q].snap
              /\ pull'[q].ver = pull[q].ver
              /\ pull'[q].todo = pull[q].todo \ {w}
              /\ \A v \in pull[q].docs \ {w} : pull'[q].out[v] = pull[q].out[v]
              /\ \/ /\ Current(q)
                    /\ pull'[q].cancelled = pull[q].cancelled
                    /\ pull'[q].fresh = pull[q].fresh \cup {w}
                    /\ pull'[q].out[w] = Truth(w, pull[q].ver[w], pull[q].snap)
                 \/ /\ ~Current(q)
                    /\ pull'[q].cancelled
                    /\ pull'[q].fresh = pull[q].fresh
          BY <3>2, ComputeGoes
        <4>2. /\ pull'[q].docs = pull[q].docs
              /\ Snapped(q)
              /\ Mine(q, u)
          BY <1>0, <4>1 DEF Goes, Snapped
        <4>3. slips'.doomed[q] = slips.doomed[q]
          BY <1>5, <2>2, <4>1, PullSlips DEF PullSnap, PullLookup
        <4>4. w \in pull[q].todo /\ pull[q].todo \cap pull[q].fresh = {}
          BY <3>2, <4>1 DEF PullCompute, PullInv
        <4>5. CASE u # w
          <5>1. /\ u \in pull'[q].fresh => u \in pull[q].fresh
                /\ u \notin pull'[q].todo => u \notin pull[q].todo
                /\ ~pull'[q].cancelled => ~pull[q].cancelled
                /\ pull'[q].out[u] = pull[q].out[u]
            BY <4>1, <4>2, <4>5
          <5> QED
            BY <2>0, <2>00, <4>1, <4>2, <4>3, <5>1 DEF Truth, Seen
        <4>6. CASE u = w /\ Current(q)
          <5>1. pull'[q].out[u] = Truth(u, pull[q].ver[u], pull[q].snap)
            BY <4>1, <4>6
          <5>2. pull'[q].out[u].seen = Seen(u, pull[q].snap) /\ pull'[q].out[u].sup = pull[q].snap.sup
            BY <5>1 DEF Truth, Seen
          <5>3. pull[q].gen = gen /\ Filtered => pull[q].snap.sup = comp.sup
            BY <4>2 DEF SnapInv
          <5> QED
            BY <2>0, <2>00, <4>1, <5>1, <5>2, <5>3 DEF Truth, Seen
        <4>7. CASE u = w /\ ~Current(q)
          BY <4>1, <4>4, <4>7
        <4> QED
          BY <4>5, <4>6, <4>7
      <3>3. CASE PullCommit(q)
        <4>1. /\ Goes(q)
              /\ pull[q].pc = "compute"
              /\ pull'[q].gen = pull[q].gen
              /\ pull'[q].snap = pull[q].snap
              /\ pull'[q].ver = pull[q].ver
              /\ pull'[q].fresh = pull[q].fresh
              /\ pull'[q].todo = pull[q].todo
              /\ pull'[q].out = pull[q].out
              /\ pull'[q].cancelled = pull[q].cancelled
          BY <3>0, <3>3, CommitGoes
        <4>2. pull'[q].docs = pull[q].docs
          BY <4>1 DEF Goes
        <4>3. Mine(q, u)
          BY <1>0, <4>1, <4>2
        <4>4. slips'.doomed[q] = slips.doomed[q]
          BY <1>5, <2>2, <4>1, PullSlips DEF PullSnap, PullLookup
        <4> QED
          BY <2>0, <2>00, <4>1, <4>3, <4>4 DEF Truth, Seen
      <3>4. ~PullDoc(q) /\ ~PullPending(q) /\ ~PullSnap(q)
        BY <3>0, DocGoes, PendingGoes, SnapGoes
      <3>5. ~PullReply(q)
        BY <3>0, FailEnds DEF PullReply
      <3> QED
        BY <1>5, <2>2, <3>1, <3>2, <3>3, <3>4, <3>5 DEF PullStep
    <2> QED
      BY <2>1, <2>2
  <1>6. ASSUME NEW w \in Uris, Enqueue(w) PROVE Mine(q, u)'
    BY <1>1, <1>6 DEF Enqueue
  <1>7. CASE UNCHANGED vars
    BY <1>1, <1>7 DEF vars
  <1> HIDE DEF Mine
  <1> QED
    BY <1>2, <1>3, <1>4, <1>5, <1>6, <1>7 DEF Next, Pulling

LEMMA NextReport ==
  ASSUME TypeOK, PubInv, PullInv, KeyInv, OutInv, ReportInv, [Next]_vars
  PROVE  ReportInv'
  <1> DEFINE Mine(u) == got[u] # None =>
        /\ got[u].id[4] \in 0 .. gen
        /\ got[u].id[4] = gen /\ Filtered => got[u].diag.sup = comp.sup
        /\ u \notin Loose \cup slips.misled =>
             got[u].diag.seen = [k \in Observes[u] |-> got[u].id[2][k]]
  <1>0. \A u \in Uris : Mine(u)
    BY DEF ReportInv
  <1> SUFFICES ASSUME NEW u \in Uris, got'[u] # None PROVE Mine(u)'
    BY DEF ReportInv
  <1>00. gen \in Nat /\ gen' \in Nat /\ gen <= gen'
    BY NextGen DEF TypeOK
  <1>1. ASSUME got'[u] = got[u], u \notin slips'.misled => u \notin slips.misled PROVE Mine(u)'
    <2>1. /\ got[u].id[4] \in 0 .. gen
          /\ got[u].id[4] = gen /\ Filtered => got[u].diag.sup = comp.sup
          /\ u \notin Loose \cup slips.misled =>
               got[u].diag.seen = [k \in Observes[u] |-> got[u].id[2][k]]
      BY <1>0, <1>1
    <2>2. ASSUME got[u].id[4] = gen', Filtered'
          PROVE  got[u].id[4] = gen /\ Filtered /\ comp'.sup = comp.sup
      <3>1. got[u].id[4] \in Nat /\ got[u].id[4] <= gen
        BY <1>00, <2>1
      <3> QED
        BY <2>2, <3>1, GenStays
    <2>3. got[u].id[4] \in 0 .. gen'
      BY <1>00, <2>1
    <2> QED
      BY <1>1, <2>1, <2>2, <2>3
  <1>2. ASSUME NEW p \in Publishers, Publish(p) PROVE Mine(u)'
    <2>1. got' = got /\ slips'.misled = slips.misled
      BY <1>2, PublishOvertakes
    <2> QED
      BY <1>1, <2>1
  <1>3. ASSUME NEW p \in Publishers, PublishStep(p) PROVE Mine(u)'
    BY <1>1, <1>3, StepKeeps
  <1>4. ASSUME NEW q \in Pulls, PullStep(q), ~PullReply(q) PROVE Mine(u)'
    BY <1>1, <1>4, PullSlips
  <1>5. ASSUME NEW q \in Pulls, PullReply(q) PROVE Mine(u)'
    <2> DEFINE new == {w \in pull[q].docs :
                         got[w] = None \/ got[w].id # ResultId(pull[q].ver[w], pull[q].snap, pull[q].gen)}
    <2>1. /\ got'[u] = IF u \in new
                       THEN [id |-> ResultId(pull[q].ver[u], pull[q].snap, pull[q].gen),
                             diag |-> pull[q].out[u]]
                       ELSE got[u]
          /\ slips' = [slips EXCEPT !.unsubscribed = slips.unsubscribed \ pull[q].fresh,
                                    !.misled = (slips.misled \ new) \cup (new \cap slips.doomed[q])]
          /\ pull[q].pc = "reply"
          /\ UNCHANGED <<comp, gen, pub>>
      BY <1>5 DEF PullReply, shared
    <2>2. new \subseteq pull[q].docs
      OBVIOUS
    <2> HIDE DEF new
    <2>3. slips'.misled = (slips.misled \ new) \cup (new \cap slips.doomed[q])
      BY <2>1 DEF TypeOK, Slips
    <2>4. CASE u \notin new
      BY <1>1, <2>1, <2>3, <2>4
    <2>5. CASE u \in new
      <3>1. /\ pull[q] # IdlePull
            /\ u \in pull[q].docs
            /\ pull[q].todo = {} /\ ~pull[q].cancelled
        BY <2>1, <2>2, <2>5 DEF PullInv, IdlePull
      <3>2. /\ u \notin slips.doomed[q] => pull[q].out[u].seen = Seen(u, pull[q].snap)
            /\ pull[q].gen = gen /\ Filtered => pull[q].out[u].sup = comp.sup
        BY <2>1, <3>1 DEF OutInv
      <3>3. /\ got'[u].id = ResultId(pull[q].ver[u], pull[q].snap, pull[q].gen)
            /\ got'[u].diag = pull[q].out[u]
        BY <2>1, <2>5
      <3>4. /\ got'[u].id[4] = pull[q].gen
            /\ got'[u].id[2] = [k \in Uris \ Loose |-> pull[q].snap.sym[k]]
        BY <3>3 DEF ResultId
      <3>5. u \notin Loose => \A k \in Observes[u] : k \in Uris \ Loose
        BY ScopeAssumption
      <3>6. u \notin Loose => [k \in Observes[u] |-> got'[u].id[2][k]] = Seen(u, pull[q].snap)
        BY <3>4, <3>5 DEF Seen
      <3>7. got'[u].id[4] \in 0 .. gen
        BY <3>1, <3>4, PullGen
      <3>8. Filtered' <=> Filtered
        BY <2>1 DEF Filtered
      <3> QED
        BY <2>1, <2>3, <2>5, <3>2, <3>3, <3>4, <3>6, <3>7, <3>8
    <2> QED
      BY <2>4, <2>5
  <1>6. ASSUME NEW q \in Pulls, NEW kind, NEW docs, PullStart(q, kind, docs) PROVE Mine(u)'
    BY <1>1, <1>6, StartGoes
  <1>7. ASSUME NEW w \in Uris, Enqueue(w) PROVE Mine(u)'
    BY <1>1, <1>7 DEF Enqueue
  <1>8. CASE UNCHANGED vars
    BY <1>1, <1>8 DEF vars
  <1> HIDE DEF Mine
  <1> QED
    BY <1>2, <1>3, <1>4, <1>5, <1>6, <1>7, <1>8 DEF Next, Pulling

LEMMA CurrentAlways == Spec => [](AnyOrder /\ CurrentInv)
  <1>1. Init => CurrentInv
    <2> SUFFICES ASSUME Init PROVE CurrentInv
      OBVIOUS
    <2>1. \A q \in Pulls : pull[q].pc = "idle"
      BY DEF Init, IdlePull
    <2>2. SnapInv /\ OutInv
      BY <2>1 DEF SnapInv, OutInv, Snapped
    <2>3. KeyInv /\ SubsInv /\ EntryInv /\ ReportInv
      BY DEF Init, KeyInv, SubsInv, EntryInv, ReportInv
    <2> QED
      BY <2>2, <2>3 DEF CurrentInv
  <1>2. AnyOrder /\ CurrentInv /\ [Next]_vars => CurrentInv'
    BY NextKeys, NextSubs, NextSnap, NextEntry, NextOut, NextReport DEF AnyOrder, CurrentInv
  <1> QED
    BY <1>1, <1>2, AnyOrderAlways, PTL DEF Spec

\* Diagnostics whose four parts are the current ones are the current ones.
LEMMA TruthParts ==
  ASSUME NEW u \in Uris, NEW d \in Diag, NEW ver,
         d.own = ver, d.base = comp.base, d.sup = comp.sup, d.seen = Seen(u, comp)
  PROVE  d = Truth(u, ver, comp)
  BY DEF Truth, Diag, Seen

\* However pulls and publishers interleave, with no publisher at work an entry
\* the next pull would hit holds what that pull would compute
\* (cst_diagnostics_with_cache): text and base scripts are keys of the entry,
\* the overridden base scripts are covered by legacy_db_generation, and a
\* change of a symbol that was looked up evicts the entry through its
\* subscription (register_cst_subscriptions, evict_cache_entries).  What is
\* missed is named: the symbols changed after the pull's snapshot and before
\* its subscription, or changed in a scan.
THEOREM CacheAlwaysSound == Spec => []CacheIsSound
  <1>1. AnyOrder /\ CurrentInv => CacheIsSound
    <2> SUFFICES ASSUME AnyOrder, CurrentInv, Quiet, NEW u \in Uris \ slips.missed, cache[u] # None,
                        cache[u].ver = comp.ver[u], cache[u].base = comp.base, cache[u].gen = gen
                 PROVE  cache[u].diag = Truth(u, comp.ver[u], comp)
      BY DEF CacheIsSound
    <2>1. Filtered /\ Settled(u)
      BY DEF Quiet, Filtered, Settled, IdlePub
    <2>2. cache[u].diag.sup = comp.sup /\ cache[u].diag.seen = Seen(u, comp)
      BY <2>1, OwesUnsettled DEF CurrentInv, EntryInv
    <2>3. /\ cache[u].diag \in Diag
          /\ cache[u].diag.own = comp.ver[u]
          /\ cache[u].diag.base = comp.base
      BY DEF AnyOrder, OwnInv, Keyed
    <2> QED
      BY <2>2, <2>3, TruthParts
  <1> QED
    BY <1>1, CurrentAlways, PTL

\* However pulls and publishers interleave, with no publisher at work a client
\* that holds the current result_id of a workspace file holds its current
\* diagnostics, so that answering Unchanged is right (document_diagnostic,
\* result_id_for), unless the report was made of a cache entry that its pull
\* should not have been given: one that was missed, or about to be evicted, or
\* of symbols newer than the snapshot of the pull.
THEOREM UnchangedAlwaysSound == Spec => []UnchangedIsSound
  <1>1. AnyOrder /\ CurrentInv => UnchangedIsSound
    <2> SUFFICES ASSUME AnyOrder, CurrentInv, Quiet, NEW u \in (Uris \ Loose) \ slips.misled,
                        got[u] # None, got[u].id = CurrentId(u)
                 PROVE  got[u].diag = Truth(u, comp.ver[u], comp)
      BY DEF UnchangedIsSound
    <2>1. /\ got[u].id[1] = comp.ver[u]
          /\ got[u].id[2] = [k \in Uris \ Loose |-> comp.sym[k]]
          /\ got[u].id[3] = comp.base
          /\ got[u].id[4] = gen
      BY DEF CurrentId, ResultId
    <2>2. /\ got[u].diag \in Diag
          /\ got[u].diag.own = comp.ver[u]
          /\ got[u].diag.base = comp.base
      BY <2>1 DEF AnyOrder, OwnInv, Keyed
    <2>3. Filtered
      BY DEF Filtered, Quiet
    <2>4. got[u].diag.sup = comp.sup
      BY <2>1, <2>3 DEF CurrentInv, ReportInv
    <2>5. got[u].diag.seen = Seen(u, comp)
      <3>1. got[u].diag.seen = [k \in Observes[u] |-> got[u].id[2][k]]
        BY DEF CurrentInv, ReportInv
      <3>2. \A k \in Observes[u] : k \in Uris \ Loose
        BY ScopeAssumption
      <3> QED
        BY <2>1, <3>1, <3>2 DEF Seen
    <2> QED
      BY <2>2, <2>4, <2>5, TruthParts
  <1> QED
    BY <1>1, CurrentAlways, PTL
=============================================================================
