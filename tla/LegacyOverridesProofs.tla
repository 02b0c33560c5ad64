----------------------- MODULE LegacyOverridesProofs -----------------------
(***************************************************************************)
(* Theorems about LegacyOverrides: types, and the completion list that a   *)
(* request would take from the cache.  Both hold whatever settings, files, *)
(* tasks and requests overlap.                                             *)
(*                                                                         *)
(* What is inductive is about the lists of steps: whoever changes what is  *)
(* suppressed, or the catalogs, still has to drop the cache, and until it  *)
(* has, its list says so.                                                  *)
(***************************************************************************)
EXTENDS LegacyOverrides, SequenceTheorems, TLAPS

-----------------------------------------------------------------------------
(* Lists of steps.                                                         *)

Steps(s) == {s[i] : i \in DOMAIN s}

\* Steps about the document of the main loop.
DocSteps == {"reuse", "scopeOf", "route", "dropLoose", "readClosed", "keepParse",
             "reindexClosed", "ifLegacy", "closed", "watched"}

\* Steps that change what is suppressed or the catalogs.
Changing == {"publish", "suppress", "catalogs"}

\* Behind each of them the completion cache is dropped.
Settles(s) == \A i \in DOMAIN s : s[i] \in Changing => \E j \in DOMAIN s : i < j /\ s[j] = "forget"

Plain(s) == s \in Seq(StepNames) /\ Settles(s) /\ Steps(s) \cap DocSteps = {}

LEMMA TailOf ==
  ASSUME NEW s \in Seq(StepNames), s # <<>>, Settles(s)
  PROVE  /\ Tail(s) \in Seq(StepNames) /\ Settles(Tail(s))
         /\ Steps(s) = {Head(s)} \cup Steps(Tail(s))
         /\ Head(s) \in Changing => "forget" \in Steps(Tail(s))
<1>1. /\ Tail(s) \in Seq(StepNames) /\ Len(Tail(s)) = Len(s) - 1 /\ Len(s) \in Nat \ {0}
      /\ \A i \in 1 .. Len(s) - 1 : Tail(s)[i] = s[i + 1]
      /\ Head(s) = s[1] /\ DOMAIN s = 1 .. Len(s) /\ DOMAIN Tail(s) = 1 .. Len(s) - 1
  OBVIOUS
<1>2. Settles(Tail(s))
  <2>1. SUFFICES ASSUME NEW i \in DOMAIN Tail(s), Tail(s)[i] \in Changing
                 PROVE  \E j \in DOMAIN Tail(s) : i < j /\ Tail(s)[j] = "forget"
    BY DEF Settles
  <2>2. i + 1 \in DOMAIN s /\ s[i + 1] \in Changing
    BY <1>1, <2>1
  <2>3. PICK j \in DOMAIN s : i + 1 < j /\ s[j] = "forget"
    BY <2>2 DEF Settles
  <2>4. j - 1 \in DOMAIN Tail(s) /\ i < j - 1 /\ Tail(s)[j - 1] = "forget"
    BY <1>1, <2>1, <2>3
  <2>. QED BY <2>4
<1>3. ASSUME NEW i \in DOMAIN s, i # 1 PROVE i - 1 \in DOMAIN Tail(s) /\ Tail(s)[i - 1] = s[i]
  BY <1>1, <1>3
<1>4. ASSUME NEW i \in DOMAIN Tail(s) PROVE i + 1 \in DOMAIN s /\ s[i + 1] = Tail(s)[i]
  BY <1>1, <1>4
<1>5. Steps(s) = {Head(s)} \cup Steps(Tail(s))
  <2>1. ASSUME NEW x \in Steps(s) PROVE x \in {Head(s)} \cup Steps(Tail(s))
    <3>1. PICK i \in DOMAIN s : x = s[i]
      BY <2>1 DEF Steps
    <3>2. CASE i = 1
      BY <1>1, <3>1, <3>2
    <3>3. CASE i # 1
      BY <1>3, <3>1, <3>3 DEF Steps
    <3>. QED BY <3>2, <3>3
  <2>2. ASSUME NEW x \in Steps(Tail(s)) PROVE x \in Steps(s)
    BY <1>4, <2>2 DEF Steps
  <2>3. Head(s) \in Steps(s)
    BY <1>1 DEF Steps
  <2>. QED BY <2>1, <2>2, <2>3
<1>6. ASSUME Head(s) \in Changing PROVE "forget" \in Steps(Tail(s))
  <2>1. PICK j \in DOMAIN s : 1 < j /\ s[j] = "forget"
    BY <1>1, <1>6 DEF Settles
  <2>2. j # 1
    BY <1>1, <2>1
  <2>3. j - 1 \in DOMAIN Tail(s) /\ Tail(s)[j - 1] = "forget"
    BY <1>3, <2>1, <2>2
  <2>. QED BY <2>3 DEF Steps
<1>. QED BY <1>1, <1>2, <1>5, <1>6

LEMMA ConcatOf ==
  ASSUME NEW s \in Seq(StepNames), NEW t \in Seq(StepNames), Settles(s), Settles(t)
  PROVE  s \o t \in Seq(StepNames) /\ Settles(s \o t) /\ Steps(s \o t) = Steps(s) \cup Steps(t)
<1>1. /\ s \o t \in Seq(StepNames) /\ Len(s) \in Nat /\ Len(t) \in Nat
      /\ DOMAIN s = 1 .. Len(s) /\ DOMAIN t = 1 .. Len(t) /\ DOMAIN (s \o t) = 1 .. Len(s) + Len(t)
      /\ \A i \in 1 .. Len(s) : (s \o t)[i] = s[i]
      /\ \A i \in Len(s) + 1 .. Len(s) + Len(t) : (s \o t)[i] = t[i - Len(s)]
  BY ConcatProperties
<1>2. ASSUME NEW i \in DOMAIN s PROVE i \in DOMAIN (s \o t) /\ (s \o t)[i] = s[i]
  BY <1>1, <1>2
<1>3. ASSUME NEW i \in DOMAIN t PROVE Len(s) + i \in DOMAIN (s \o t) /\ (s \o t)[Len(s) + i] = t[i]
  <2>1. i \in 1 .. Len(t) /\ Len(s) + i \in Len(s) + 1 .. Len(s) + Len(t) /\ (Len(s) + i) - Len(s) = i
    BY <1>1, <1>3
  <2>. QED BY <1>1, <2>1
<1>4. ASSUME NEW i \in DOMAIN (s \o t) PROVE i \in DOMAIN s \/ (i - Len(s) \in DOMAIN t /\ i = Len(s) + (i - Len(s)))
  BY <1>1, <1>4
<1>5. Settles(s \o t)
  <2>1. SUFFICES ASSUME NEW i \in DOMAIN (s \o t), (s \o t)[i] \in Changing
                 PROVE  \E j \in DOMAIN (s \o t) : i < j /\ (s \o t)[j] = "forget"
    BY DEF Settles
  <2>2. CASE i \in DOMAIN s
    <3>1. PICK j \in DOMAIN s : i < j /\ s[j] = "forget"
      BY <1>2, <2>1, <2>2 DEF Settles
    <3>. QED BY <1>2, <3>1
  <2>3. CASE i - Len(s) \in DOMAIN t /\ i = Len(s) + (i - Len(s))
    <3>1. PICK j \in DOMAIN t : i - Len(s) < j /\ t[j] = "forget"
      BY <1>3, <2>1, <2>3 DEF Settles
    <3>2. i < Len(s) + j
      BY <1>1, <2>3, <3>1
    <3>. QED BY <1>3, <3>1, <3>2
  <2>. QED BY <1>4, <2>2, <2>3
<1>6. Steps(s \o t) = Steps(s) \cup Steps(t)
  <2>1. ASSUME NEW x \in Steps(s \o t) PROVE x \in Steps(s) \cup Steps(t)
    <3>1. PICK i \in DOMAIN (s \o t) : x = (s \o t)[i]
      BY <2>1 DEF Steps
    <3>2. CASE i \in DOMAIN s
      BY <1>2, <3>1, <3>2 DEF Steps
    <3>3. CASE i - Len(s) \in DOMAIN t /\ i = Len(s) + (i - Len(s))
      BY <1>3, <3>1, <3>3 DEF Steps
    <3>. QED BY <1>4, <3>2, <3>3
  <2>2. ASSUME NEW x \in Steps(s) PROVE x \in Steps(s \o t)
    BY <1>2, <2>2 DEF Steps
  <2>3. ASSUME NEW x \in Steps(t) PROVE x \in Steps(s \o t)
    BY <1>3, <2>3 DEF Steps
  <2>. QED BY <2>1, <2>2, <2>3
<1>. QED BY <1>1, <1>5, <1>6

\* The rest of a list, from any place on.
LEMMA RestOf ==
  ASSUME NEW s \in Seq(StepNames), NEW n \in Nat, Settles(s)
  PROVE  LET rest == SubSeq(s, n + 1, Len(s))
         IN rest \in Seq(StepNames) /\ Settles(rest) /\ Steps(rest) \subseteq Steps(s)
<1> DEFINE rest == SubSeq(s, n + 1, Len(s))
<1>1. Len(s) \in Nat /\ DOMAIN s = 1 .. Len(s) /\ rest \in Seq(StepNames)
  OBVIOUS
<1>2. ASSUME NEW i \in DOMAIN rest PROVE i \in Nat /\ n + i \in DOMAIN s /\ rest[i] = s[n + i]
  BY <1>1, <1>2
<1>3. ASSUME NEW i \in DOMAIN s, n < i PROVE i - n \in DOMAIN rest /\ rest[i - n] = s[i]
  BY <1>1, <1>3
<1>4. Settles(rest)
  <2>1. SUFFICES ASSUME NEW i \in DOMAIN rest, rest[i] \in Changing
                 PROVE  \E j \in DOMAIN rest : i < j /\ rest[j] = "forget"
    BY DEF Settles
  <2>2. PICK j \in DOMAIN s : n + i < j /\ s[j] = "forget"
    BY <1>2, <2>1 DEF Settles
  <2>3. j \in Nat /\ n < j /\ i < j - n
    BY <1>1, <1>2, <2>1, <2>2
  <2>. QED BY <1>3, <2>2, <2>3
<1>5. Steps(rest) \subseteq Steps(s)
  BY <1>2 DEF Steps
<1>. QED BY <1>1, <1>4, <1>5

Listed(s) == s \in Seq(StepNames) /\ Settles(s)

LEMMA OneStep ==
  ASSUME NEW x \in StepNames, x \notin Changing
  PROVE  Listed(<<x>>) /\ Steps(<<x>>) = {x}
BY DEF Listed, Settles, Steps

LEMMA Harmless ==
  ASSUME NEW s \in Seq(StepNames), \A i \in 1 .. Len(s) : s[i] \notin Changing /\ s[i] \notin DocSteps
  PROVE  Plain(s)
<1>1. DOMAIN s = 1 .. Len(s)
  OBVIOUS
<1>. QED BY <1>1 DEF Plain, Settles, Steps

\* The lists that are about no document.
LEMMA PlainLists ==
  /\ Plain(<<>>) /\ Plain(ScopeStatus) /\ Plain(Statuses) /\ Plain(RefreshMaps)
  /\ Plain(NoBase) /\ Plain(IndexBase) /\ Plain(Reindex) /\ Plain(Fetch)
  /\ Plain(OnStartup) /\ Plain(OnSettings) /\ Plain(AfterManifest)
  /\ "forget" \in Steps(NoBase)
<1>0. ASSUME NEW s, NEW t, Plain(s), Plain(t) PROVE Plain(s \o t)
  BY <1>0, ConcatOf DEF Plain
<1>1. Plain(<<>>)
  <2> DEFINE s == <<>>
  <2>1. s \in Seq(StepNames) /\ Len(s) = 0
    BY DEF StepNames
  <2>2. \A i \in 1 .. 0 : s[i] \notin Changing /\ s[i] \notin DocSteps
    BY DEF Changing, DocSteps
  <2>. QED BY <2>1, <2>2, Harmless
<1>2. Plain(ScopeStatus)
  <2> DEFINE s == ScopeStatus
  <2>1. s \in Seq(StepNames) /\ Len(s) = 3
    BY DEF StepNames, ScopeStatus
  <2>2. \A i \in 1 .. 3 : s[i] \notin Changing /\ s[i] \notin DocSteps
    BY DEF Changing, DocSteps, ScopeStatus
  <2>. QED BY <2>1, <2>2, Harmless
<1>3. Plain(RefreshMaps)
  <2>1. RefreshMaps \in Seq(StepNames) /\ DOMAIN RefreshMaps = 1 .. 5
    BY DEF RefreshMaps, StepNames
  <2>2. RefreshMaps[5] = "forget" /\ \A i \in 1 .. 5 : RefreshMaps[i] \notin DocSteps
    BY DEF RefreshMaps, DocSteps
  <2>3. RefreshMaps[5] \notin Changing
    BY <2>2 DEF Changing
  <2>4. Settles(RefreshMaps)
    <3>1. SUFFICES ASSUME NEW i \in 1 .. 5, RefreshMaps[i] \in Changing PROVE i < 5
      BY <2>1, <2>2 DEF Settles
    <3>. QED BY <2>3, <3>1
  <2>5. Steps(RefreshMaps) \cap DocSteps = {}
    BY <2>1, <2>2 DEF Steps
  <2>. QED BY <2>1, <2>4, <2>5 DEF Plain
<1>4. Plain(<<"legacy", "record", "notify">>)
  <2> DEFINE s == <<"legacy", "record", "notify">>
  <2>1. s \in Seq(StepNames) /\ Len(s) = 3
    BY DEF StepNames
  <2>2. \A i \in 1 .. 3 : s[i] \notin Changing /\ s[i] \notin DocSteps
    BY DEF Changing, DocSteps
  <2>. QED BY <2>1, <2>2, Harmless
<1>5. Plain(Statuses)
  BY <1>0, <1>2, <1>4 DEF Statuses
<1>6. /\ Plain(<<"publish", "replace", "catalogs", "forget", "stale", "prune">>)
      /\ "forget" \in Steps(<<"publish", "replace", "catalogs", "forget", "stale", "prune">>)
  <2> DEFINE s == <<"publish", "replace", "catalogs", "forget", "stale", "prune">>
  <2>1. s \in Seq(StepNames) /\ DOMAIN s = 1 .. 6 /\ s[4] = "forget"
    BY DEF StepNames
  <2>2. \A i \in 5 .. 6 : s[i] \notin Changing
    BY DEF Changing
  <2>3. s[4] \notin Changing
    BY DEF Changing
  <2>4. Settles(s)
    <3>1. SUFFICES ASSUME NEW i \in 1 .. 6, s[i] \in Changing PROVE i < 4
      BY <2>1 DEF Settles
    <3>. QED BY <2>2, <2>3, <3>1
  <2>5. \A i \in 1 .. 6 : s[i] \notin DocSteps
    BY DEF DocSteps
  <2>6. Steps(s) \cap DocSteps = {} /\ "forget" \in Steps(s)
    BY <2>1, <2>5 DEF Steps
  <2>. QED BY <2>1, <2>4, <2>6 DEF Plain
<1>7. Plain(NoBase) /\ "forget" \in Steps(NoBase)
  <2>1. Plain(NoBase)
    BY <1>0, <1>5, <1>6 DEF NoBase
  <2>2. "forget" \in Steps(NoBase)
    BY <1>5, <1>6, ConcatOf DEF NoBase, Plain
  <2>. QED BY <2>1, <2>2
<1>8. Plain(<<"plan", "read", "publish", "replace", "openBase", "merge", "catalogs",
             "forget", "open", "sync", "stale", "prune">>)
  <2> DEFINE s == <<"plan", "read", "publish", "replace", "openBase", "merge", "catalogs",
                    "forget", "open", "sync", "stale", "prune">>
  <2>1. s \in Seq(StepNames) /\ DOMAIN s = 1 .. 12 /\ s[8] = "forget"
    BY DEF StepNames
  <2>2. \A i \in 9 .. 12 : s[i] \notin Changing
    BY DEF Changing
  <2>3. s[8] \notin Changing
    BY DEF Changing
  <2>4. Settles(s)
    <3>1. SUFFICES ASSUME NEW i \in 1 .. 12, s[i] \in Changing PROVE i < 8
      BY <2>1 DEF Settles
    <3>. QED BY <2>2, <2>3, <3>1
  <2>5. \A i \in 1 .. 12 : s[i] \notin DocSteps
    BY DEF DocSteps
  <2>6. Steps(s) \cap DocSteps = {}
    BY <2>1, <2>5 DEF Steps
  <2>. QED BY <2>1, <2>4, <2>6 DEF Plain
<1>9. Plain(IndexBase)
  BY <1>0, <1>5, <1>8 DEF IndexBase
<1>10. Plain(<<"walk", "filter", "index", "discover", "manifests">>)
  <2> DEFINE s == <<"walk", "filter", "index", "discover", "manifests">>
  <2>1. s \in Seq(StepNames) /\ Len(s) = 5
    BY DEF StepNames
  <2>2. \A i \in 1 .. 5 : s[i] \notin Changing /\ s[i] \notin DocSteps
    BY DEF Changing, DocSteps
  <2>. QED BY <2>1, <2>2, Harmless
<1>11. Plain(Reindex)
  BY <1>0, <1>9, <1>10 DEF Reindex
<1>12. Plain(Fetch)
  <2> DEFINE s == Fetch
  <2>1. s \in Seq(StepNames) /\ Len(s) = 3
    BY DEF StepNames, Fetch
  <2>2. \A i \in 1 .. 3 : s[i] \notin Changing /\ s[i] \notin DocSteps
    BY DEF Changing, DocSteps, Fetch
  <2>. QED BY <2>1, <2>2, Harmless
<1>13. Plain(<<"ready">>) /\ Plain(<<"spawn">>)
  <2>1. "ready" \in StepNames /\ "spawn" \in StepNames
    BY DEF StepNames
  <2>. QED BY <2>1, OneStep DEF Listed, Plain, Changing, DocSteps
<1>17. Plain(<<"scopes", "reroute">>)
  <2> DEFINE s == <<"scopes", "reroute">>
  <2>1. s \in Seq(StepNames) /\ Len(s) = 2
    BY DEF StepNames
  <2>2. \A i \in 1 .. 2 : s[i] \notin Changing /\ s[i] \notin DocSteps
    BY DEF Changing, DocSteps
  <2>. QED BY <2>1, <2>2, Harmless
<1>14. Plain(OnStartup)
  BY <1>0, <1>11, <1>12, <1>13 DEF OnStartup
<1>15. Plain(OnSettings)
  BY <1>0, <1>2, <1>11, <1>17 DEF OnSettings
<1>16. Plain(AfterManifest)
  BY <1>0, <1>3, <1>5, <1>13 DEF AfterManifest
<1>. QED BY <1>1, <1>2, <1>3, <1>5, <1>7, <1>9, <1>11, <1>12, <1>14, <1>15, <1>16

-----------------------------------------------------------------------------
(* What an actor has left to do, and whose document it is about.           *)

TodoInv ==
  /\ todo \in [Actors -> Seq(StepNames)]
  /\ \A a \in Actors : Settles(todo[a]) /\ (Steps(todo[a]) \cap DocSteps # {} => doc \in Files)

LEMMA GotoTodo ==
  ASSUME TodoInv, NEW a \in Actors, NEW s, Listed(s), Goto(a, s),
         doc' = doc \/ doc' \in Files, Steps(s) \cap DocSteps = {} \/ doc' \in Files
  PROVE  TodoInv'
BY DEF TodoInv, Listed, Goto

LEMMA DoneTodo ==
  ASSUME TodoInv, NEW a \in Actors, Busy(a), Done(a), doc' = doc
  PROVE  TodoInv'
<1>1. /\ todo[a] \in Seq(StepNames) /\ todo[a] # <<>> /\ Settles(todo[a])
      /\ Steps(todo[a]) \cap DocSteps # {} => doc \in Files
  BY DEF TodoInv, Busy
<1>2. Listed(Tail(todo[a])) /\ (Steps(Tail(todo[a])) \cap DocSteps = {} \/ doc \in Files)
  BY <1>1, TailOf DEF Listed
<1>. QED BY <1>2, GotoTodo DEF Done

\* Plain steps put before the rest of a list.
LEMMA AheadTodo ==
  ASSUME TodoInv, NEW a \in Actors, Busy(a), NEW s, Plain(s), Goto(a, s \o Tail(todo[a])), doc' = doc
  PROVE  TodoInv'
<1>1. /\ todo[a] \in Seq(StepNames) /\ todo[a] # <<>> /\ Settles(todo[a])
      /\ Steps(todo[a]) \cap DocSteps # {} => doc \in Files
  BY DEF TodoInv, Busy
<1>2. /\ Tail(todo[a]) \in Seq(StepNames) /\ Settles(Tail(todo[a]))
      /\ Steps(Tail(todo[a])) \subseteq Steps(todo[a])
  BY <1>1, TailOf
<1>3. /\ Listed(s \o Tail(todo[a]))
      /\ Steps(s \o Tail(todo[a])) = Steps(s) \cup Steps(Tail(todo[a]))
  BY <1>2, ConcatOf DEF Plain, Listed
<1>. QED BY <1>1, <1>2, <1>3, GotoTodo DEF Plain

\* Any steps, about a document.
LEMMA AboutTodo ==
  ASSUME TodoInv, NEW s, Listed(s), Goto(Main, s), doc' \in Files
  PROVE  TodoInv'
BY GotoTodo DEF Actors

LEMMA DocOf ==
  ASSUME TodoInv, NEW a \in Actors, NEW step \in DocSteps, At(a, step)
  PROVE  doc \in Files
<1>1. todo[a] \in Seq(StepNames) /\ todo[a] # <<>> /\ Settles(todo[a]) /\ Head(todo[a]) = step
  BY DEF TodoInv, At, Busy
<1>2. step \in Steps(todo[a])
  BY <1>1, TailOf
<1>. QED BY <1>2 DEF TodoInv

-----------------------------------------------------------------------------
(* Types.                                                                  *)

TypedInv == TypeOK /\ TodoInv

Frame == UNCHANGED <<client, requests, inputs>>

LEMMA BlankTyped == Blank \in Reads("scope", Scopes)
<1>1. [f \in {} |-> "inProject"] \in [{} -> Scopes]
  OBVIOUS
<1>2. [f \in {} |-> "inProject"] \in Maps(Scopes)
  BY <1>1 DEF Maps
<1>3. NoConfig \in Configs
  BY DEF NoConfig, Configs
<1>. QED BY <1>2, <1>3 DEF Blank, Reads

\* A scope is one of Scopes.
LEMMA ScopeTyped == \A f : FileScope(f) \in Scopes
BY DEF FileScope, Scopes

LEMMA ScopesTyped == ASSUME NEW fs \in SUBSET Files PROVE ScopesOf(fs) \in Maps(Scopes)
<1>1. ScopesOf(fs) \in [fs -> Scopes]
  BY ScopeTyped DEF ScopesOf
<1>. QED BY <1>1 DEF Maps

LEMMA DirsTyped ==
  ASSUME TypeOK
  PROVE  /\ EffectiveLegacyDirs \subseteq Dirs /\ BaseDirs \subseteq Dirs
         /\ Discovered \subseteq {ProjectDir} /\ \A f : {f} \cap Files \subseteq Files
BY DEF TypeOK, Servers, Configs, EffectiveLegacyDirs, BaseDirs, Discovered, Dirs

LEMMA ParsedTyped ==
  ASSUME NEW prev \in Configs, NEW answer \in Settings
  PROVE  Parsed(prev, answer) \in Configs
<1>1. answer \in [game : {GameDir, Unset}, legacy : {Unset} \cup SUBSET SetDirs, detect : {FALSE, Unset}]
  BY DirsAssumption
<1>. QED BY <1>1 DEF Parsed, Configs

LEMMA RoutedTyped ==
  ASSUME TypeOK, NEW scopes, DOMAIN scopes \subseteq Files
  PROVE  Routed(scopes) \in Dbs /\ Outdated(scopes) \subseteq Files
BY DEF TypeOK, Dbs, Routed, Put, Outdated, History

LEMMA KeepTyped ==
  ASSUME TypedInv, NEW a \in Actors, NEW data \in Memory, Keep(a, data), Frame, TodoInv'
  PROVE  TypedInv'
BY DEF TypedInv, TypeOK, Keep, Frame, TodoInv

LEMMA AssignTyped ==
  ASSUME TypedInv, NEW s \in Servers, Assign(s), Frame, TodoInv'
  PROVE  TypedInv'
BY DEF TypedInv, TypeOK, Assign, Frame, TodoInv

LEMMA PublishTyped ==
  ASSUME TypedInv, NEW next \in Dbs, PublishDb(next), Frame, TodoInv'
  PROVE  TypedInv'
BY DEF TypedInv, TypeOK, PublishDb, Frame, TodoInv

LEMMA OfActors == ASSUME TypedInv, NEW a \in Actors PROVE has[a] \in Memory
BY DEF TypedInv, TypeOK

LEMMA MapsOf == ASSUME NEW m \in Memory PROVE DOMAIN m.of \subseteq Files
BY DEF Memory, Reads, Maps

\* Whatever an actor has read is a status of the kind it says.
LEMMA WithTyped ==
  ASSUME TypedInv, NEW a \in Actors, NEW statuses \in [Files -> Shown]
  PROVE  With(statuses, a) \in [Files -> Shown]
<1>1. CASE has[a] \in Reads("legacy", BOOLEAN)
  <2>1. has[a].kind = "legacy" /\ \A f \in DOMAIN has[a].of : has[a].of[f] \in BOOLEAN
    BY <1>1 DEF Reads, Maps
  <2>2. ASSUME NEW f \in DOMAIN has[a].of, f \in Files
        PROVE  [statuses[f] EXCEPT !["legacy"] = has[a].of[f]] \in Shown
    BY <2>1, <2>2 DEF Shown
  <2>. QED BY <2>1, <2>2 DEF With
<1>2. CASE has[a] \in Reads("scope", Scopes)
  <2>1. has[a].kind = "scope" /\ \A f \in DOMAIN has[a].of : has[a].of[f] \in Scopes
    BY <1>2 DEF Reads, Maps
  <2>2. ASSUME NEW f \in DOMAIN has[a].of, f \in Files
        PROVE  [statuses[f] EXCEPT !["scope"] = has[a].of[f]] \in Shown
    BY <2>1, <2>2 DEF Shown
  <2>. QED BY <2>1, <2>2 DEF With
<1>. QED BY <1>1, <1>2, OfActors DEF Memory

\* Some of the statuses read are read ones too.
LEMMA SomeTyped ==
  ASSUME NEW m \in Memory, NEW fs, fs \subseteq DOMAIN m.of
  PROVE  [m EXCEPT !.of = [f \in fs |-> @[f]]] \in Memory
<1>1. ASSUME NEW values, m.of \in Maps(values) PROVE [f \in fs |-> m.of[f]] \in Maps(values)
  <2>1. PICK gs \in SUBSET Files : m.of \in [gs -> values]
    BY <1>1 DEF Maps
  <2>2. fs \in SUBSET Files /\ [f \in fs |-> m.of[f]] \in [fs -> values]
    BY <2>1
  <2>. QED BY <2>2 DEF Maps
<1>2. CASE m \in Reads("legacy", BOOLEAN)
  BY <1>1, <1>2 DEF Memory, Reads
<1>3. CASE m \in Reads("scope", Scopes)
  BY <1>1, <1>3 DEF Memory, Reads
<1>. QED BY <1>2, <1>3 DEF Memory

\* Steps that only read.
LEMMA ReadTyped ==
  ASSUME TypedInv, NEW a \in Actors, Frame,
         Ask(a) \/ Answer(a) \/ Walk(a) \/ Filter(a) \/ Discover(a) \/ Read(a) \/ OpenBase(a)
           \/ Open(a) \/ Stale(a) \/ ReadScopes(a) \/ ScopeOf(a)
  PROVE  TypedInv'
<1>1. ASSUME Busy(a), Done(a), NEW data \in Memory, Keep(a, data) PROVE TypedInv'
  BY <1>1, DoneTodo, KeepTyped DEF TypedInv, Keep
<1>2. /\ Blank \in Reads("scope", Scopes) /\ has[a] \in Memory
      /\ server \in Servers /\ db \in Dbs /\ client.disk \subseteq Files
  BY BlankTyped, OfActors DEF TypedInv, TypeOK
<1>3. /\ server.config \in Configs /\ server.ready \in BOOLEAN
      /\ db.docs \subseteq Files /\ db.wsDocs \subseteq Files
      /\ has[a].files \subseteq Files /\ has[a].legacy \subseteq Files
  BY <1>2 DEF Servers, Dbs, Memory, Reads
<1>4. ASSUME NEW files, files \subseteq Files PROVE [Blank EXCEPT !.files = files] \in Memory
  BY <1>2, <1>4 DEF Memory, Reads
<1>5. ASSUME NEW files, files \subseteq Files, NEW legacy, legacy \subseteq Files
      PROVE  [Blank EXCEPT !.legacy = legacy, !.files = files] \in Memory
  BY <1>2, <1>5 DEF Memory, Reads
<1>6. ASSUME NEW of \in Maps(Scopes) PROVE [Blank EXCEPT !.of = of] \in Memory
  BY <1>2 DEF Memory, Reads
<1>7. CASE Ask(a)
  <2>1. [Blank EXCEPT !.prev = server.config, !.ready = server.ready] \in Memory
    BY <1>2, <1>3 DEF Memory, Reads
  <2>. QED BY <1>1, <1>7, <2>1 DEF Ask, At
<1>8. CASE Answer(a)
  <2>1. PICK next \in {Unset, Parsed(has[a].prev, client.settings)} :
          Keep(a, [has[a] EXCEPT !.next = next])
    BY <1>8 DEF Answer
  <2>2. has[a].prev \in Configs /\ client.settings \in Settings
    BY <1>2 DEF Memory, Reads, TypedInv, TypeOK
  <2>3. next \in Configs \cup {Unset}
    BY <2>1, <2>2, ParsedTyped
  <2>4. [has[a] EXCEPT !.next = next] \in Memory
    BY <1>2, <2>3 DEF Memory, Reads
  <2>. QED BY <1>1, <1>8, <2>1, <2>4 DEF Answer, At
<1>9. CASE Walk(a)
  BY <1>1, <1>2, <1>4, <1>9 DEF Walk, At
<1>10. CASE Filter(a)
  BY <1>1, <1>3, <1>4, <1>10 DEF Filter, At
<1>11. CASE Discover(a)
  <2>1. [Blank EXCEPT !.dirs = Discovered] \in Memory
    BY <1>2, DirsTyped DEF Memory, Reads, TypedInv, Dirs
  <2>. QED BY <1>1, <1>11, <2>1 DEF Discover, At
<1>12. CASE Read(a)
  <2>1. [Blank EXCEPT !.base = client.disk \cap In(has[a].baseDirs),
                      !.legacy = client.disk \cap In(has[a].dirs)] \in Memory
    BY <1>2 DEF Memory, Reads
  <2>. QED BY <1>1, <1>12, <2>1 DEF Read, At
<1>13. CASE OpenBase(a)
  <2>1. {f \in db.docs : IsBase(f)} \subseteq Files
    BY <1>3
  <2>. QED BY <1>1, <1>3, <1>5, <1>13, <2>1 DEF OpenBase, At
<1>14. CASE Open(a)
  BY <1>1, <1>3, <1>5, <1>14 DEF Open, At
<1>15. CASE Stale(a)
  BY <1>1, <1>3, <1>4, <1>15 DEF Stale, At
<1>16. CASE ReadScopes(a)
  BY <1>1, <1>3, <1>6, <1>16, ScopesTyped DEF ReadScopes, At
<1>17. CASE ScopeOf(a)
  <2>1. doc \in Files
    BY <1>17, DocOf DEF ScopeOf, DocSteps, TypedInv
  <2>2. ScopesOf({doc}) \in Maps(Scopes)
    BY <2>1, ScopesTyped
  <2>. QED BY <1>1, <1>6, <1>17, <2>2 DEF ScopeOf, At
<1>. QED BY <1>7, <1>8, <1>9, <1>10, <1>11, <1>12, <1>13, <1>14, <1>15, <1>16, <1>17

\* Steps that store something, or publish the compilation.
LEMMA StoreTyped ==
  ASSUME TypedInv, NEW a \in Actors, Frame,
         StoreManifests(a) \/ Replace(a) \/ Ready(a) \/ IndexFound(a) \/ Publish(a) \/ Merge(a)
           \/ Sync(a) \/ Prune(a) \/ Suppress(a) \/ Catalogs(a) \/ Reuse(a) \/ PublishWatched(a)
  PROVE  TypedInv'
<1>1. ASSUME Busy(a), Done(a), NEW s \in Servers, Assign(s) PROVE TypedInv'
  BY <1>1, DoneTodo, AssignTyped DEF TypedInv, Assign
<1>2. ASSUME Busy(a), Done(a), NEW next \in Dbs, PublishDb(next) PROVE TypedInv'
  BY <1>2, DoneTodo, PublishTyped DEF TypedInv, PublishDb
<1>3. /\ server \in Servers /\ db \in Dbs
      /\ has[a].files \subseteq Files /\ has[a].legacy \subseteq Files /\ has[a].base \subseteq Files
  BY OfActors DEF TypedInv, TypeOK, Memory, Reads
<1>4. /\ Replaced(has[a].base, has[a].legacy) \subseteq Files
      /\ Replacing(has[a].base, has[a].legacy) \subseteq Files
  BY <1>3 DEF Replaced, Replacing
<1>5. CASE StoreManifests(a)
  <2>1. has[a].dirs \subseteq Dirs
    BY OfActors DEF Memory, Reads
  <2>2. [server EXCEPT !.manifests = has[a].dirs] \in Servers
    BY <1>3, <2>1 DEF Servers
  <2>. QED BY <1>1, <1>5, <2>2 DEF StoreManifests, At
<1>6. CASE Replace(a)
  <2>1. [server EXCEPT !.replacements = Replacing(has[a].base, has[a].legacy)] \in Servers
    BY <1>3, <1>4 DEF Servers
  <2>. QED BY <1>1, <1>6, <2>1 DEF Replace, At
<1>7. CASE Ready(a)
  <2>1. [server EXCEPT !.ready = TRUE] \in Servers
    BY <1>3 DEF Servers
  <2>. QED BY <1>1, <1>7, <2>1 DEF Ready, At
<1>8. CASE IndexFound(a)
  <2>1. [db EXCEPT !.ws = @ \cup has[a].files, !.wsDocs = @ \cup has[a].files] \in Dbs
    BY <1>3 DEF Dbs
  <2>. QED BY <1>2, <1>8, <2>1 DEF IndexFound, At
<1>9. CASE Publish(a)
  <2>1. [db EXCEPT !.base = has[a].base, !.baseDocs = has[a].base,
                   !.suppressed = Replaced(has[a].base, has[a].legacy)] \in Dbs
    BY <1>3, <1>4 DEF Dbs
  <2>. QED BY <1>2, <1>9, <2>1 DEF Publish, At
<1>10. CASE Merge(a)
  <2>1. [db EXCEPT !.base = @ \cup has[a].files] \in Dbs
    BY <1>3 DEF Dbs
  <2>. QED BY <1>2, <1>10, <2>1 DEF Merge, At
<1>11. CASE Sync(a)
  <2>1. LET found == has[a].legacy \ has[a].files
        IN [db EXCEPT !.ws = @ \cup found, !.wsDocs = @ \cup found] \in Dbs
    BY <1>3 DEF Dbs
  <2>. QED BY <1>2, <1>11, <2>1 DEF Sync, At
<1>12. CASE Prune(a)
  <2>1. [db EXCEPT !.ws = @ \ has[a].files, !.wsDocs = @ \ has[a].files] \in Dbs
    BY <1>3 DEF Dbs
  <2>. QED BY <1>2, <1>12, <2>1 DEF Prune, At
<1>13. CASE Suppress(a)
  <2>1. [db EXCEPT !.suppressed = Replaced(has[a].base, has[a].legacy)] \in Dbs
    BY <1>3, <1>4 DEF Dbs
  <2>. QED BY <1>2, <1>13, <2>1 DEF Suppress, At
<1>14. CASE Catalogs(a)
  <2>1. [db EXCEPT !.catalogs = db.suppressed] \in Dbs
    BY <1>3 DEF Dbs
  <2>. QED BY <1>2, <1>14, <2>1 DEF Catalogs, At
<1>15. CASE Reuse(a)
  <2>1. doc \in Files
    BY <1>15, DocOf DEF Reuse, DocSteps, TypedInv
  <2>2. [db EXCEPT !.docs = @ \cup {doc}] \in Dbs
    BY <1>3, <2>1 DEF Dbs
  <2>. QED BY <1>2, <1>15, <2>2 DEF Reuse, At
<1>16. CASE PublishWatched(a)
  <2>1. [db EXCEPT !.ws = (@ \ {doc}) \cup has[a].files, !.wsDocs = (@ \ {doc}) \cup has[a].files] \in Dbs
    BY <1>3 DEF Dbs
  <2>. QED BY <1>2, <1>16, <2>1 DEF PublishWatched, At
<1>. QED BY <1>5, <1>6, <1>7, <1>8, <1>9, <1>10, <1>11, <1>12, <1>13, <1>14, <1>15, <1>16

\* The first steps of a refresh, and the steps that choose what follows.
LEMMA ChooseTyped ==
  ASSUME TypedInv, NEW a \in Actors, Frame,
         Plan(a) \/ Pair(a) \/ Store(a) \/ RefreshIfLegacy(a) \/ StoreManifest(a)
  PROVE  TypedInv'
<1>1. /\ server \in Servers /\ db \in Dbs /\ slips \in History /\ Blank \in Reads("scope", Scopes)
      /\ has[a] \in Memory
  BY BlankTyped, OfActors DEF TypedInv, TypeOK
<1>2. ASSUME NEW data \in Memory, StartRefresh(a, data), TodoInv' PROVE TypedInv'
  <2>1. [slips EXCEPT !.crossed = \E b \in Actors \ {a} : Refreshing(b)] \in History
    BY <1>1 DEF History
  <2>. QED BY <1>2, <2>1 DEF TypedInv, TypeOK, TodoInv, StartRefresh, Frame
<1>3. CASE Plan(a)
  <2>1. [Blank EXCEPT !.baseDirs = BaseDirs, !.dirs = EffectiveLegacyDirs] \in Memory
    BY <1>1, DirsTyped DEF Memory, Reads, TypedInv
  <2>2. doc' = doc /\ Busy(a)
    BY <1>3 DEF Plan, StartRefresh, At
  <2>3. CASE Done(a)
    BY <1>2, <1>3, <2>1, <2>2, <2>3, DoneTodo DEF Plan, TypedInv
  <2>4. CASE Goto(a, NoBase \o SubSeq(todo[a], Len(IndexBase) + 1, Len(todo[a])))
    <3> DEFINE rest == SubSeq(todo[a], Len(IndexBase) + 1, Len(todo[a]))
    <3>1. todo[a] \in Seq(StepNames) /\ Settles(todo[a])
      BY DEF TypedInv, TodoInv
    <3>2. Len(IndexBase) \in Nat
      BY PlainLists DEF Plain
    <3>3. rest \in Seq(StepNames) /\ Settles(rest) /\ Steps(rest) \subseteq Steps(todo[a])
      BY <3>1, <3>2, RestOf
    <3>4. Listed(NoBase \o rest) /\ Steps(NoBase \o rest) = Steps(NoBase) \cup Steps(rest)
      BY <3>3, PlainLists, ConcatOf DEF Plain, Listed
    <3>5. Steps(NoBase \o rest) \cap DocSteps = {} \/ doc \in Files
      BY <3>3, <3>4, PlainLists DEF Plain, TypedInv, TodoInv
    <3>6. TodoInv'
      BY <2>2, <2>4, <3>4, <3>5, GotoTodo DEF TypedInv
    <3>. QED BY <1>2, <1>3, <2>1, <3>6 DEF Plan
  <2>. QED BY <1>3, <2>3, <2>4 DEF Plan
<1>4. CASE Pair(a)
  <2>1. [Blank EXCEPT !.base = db.baseDocs, !.legacy = db.ws \cap In(EffectiveLegacyDirs)] \in Memory
    BY <1>1 DEF Memory, Reads, Dbs
  <2>. QED BY <1>2, <1>4, <2>1, DoneTodo DEF Pair, At, StartRefresh, TypedInv
<1>5. CASE Store(a)
  <2>1. Plain(Fetched(has[a]))
    BY PlainLists DEF Fetched
  <2>2. TodoInv'
    BY <1>5, <2>1, AheadTodo DEF Store, At, TypedInv
  <2>3. has[a].next \in Configs \cup {Unset}
    BY <1>1 DEF Memory, Reads
  <2>4. server' \in Servers
    BY <1>1, <1>5, <2>3 DEF Store, Servers
  <2>5. Blank \in Memory
    BY <1>1 DEF Memory
  <2>. QED BY <1>5, <2>2, <2>4, <2>5 DEF Store, TypedInv, TypeOK, TodoInv, Frame
<1>6. CASE RefreshIfLegacy(a)
  <2>1. Plain(IfLegacy(doc, RefreshMaps))
    BY PlainLists DEF IfLegacy
  <2>2. TodoInv'
    BY <1>6, <2>1, AheadTodo DEF RefreshIfLegacy, At, TypedInv
  <2>. QED BY <1>6, <2>2 DEF RefreshIfLegacy, TypedInv, TypeOK, TodoInv, Frame
<1>7. CASE StoreManifest(a)
  <2>1. Plain(IF has[a].baseDirs = has[a].dirs THEN <<>> ELSE AfterManifest)
    BY PlainLists
  <2>2. TodoInv'
    BY <1>7, <2>1, AheadTodo DEF StoreManifest, At, Assign, TypedInv
  <2>3. has[a].dirs \subseteq Dirs
    BY <1>1 DEF Memory, Reads
  <2>4. [server EXCEPT !.manifests = has[a].dirs] \in Servers
    BY <1>1, <2>3 DEF Servers
  <2>. QED BY <1>7, <2>2, <2>4, AssignTyped DEF StoreManifest
<1>. QED BY <1>3, <1>4, <1>5, <1>6, <1>7

\* Steps that keep a history too.
LEMMA SlipTyped ==
  ASSUME TypedInv, NEW a \in Actors, Frame,
         Forget(a) \/ Look(a) \/ Record(a) \/ Notify(a) \/ Reroute(a) \/ Route(a)
           \/ DropLoose(a) \/ KeepParse(a) \/ ReindexClosed(a) \/ ReadClosed(a) \/ Closed(a)
  PROVE  TypedInv'
<1>1. /\ server \in Servers /\ db \in Dbs /\ slips \in History /\ Blank \in Memory
      /\ has[a] \in Memory /\ sent \in [Files -> Shown] /\ shown \in [Files -> Shown]
      /\ Blank \in Reads("scope", Scopes)
  BY BlankTyped, OfActors DEF TypedInv, TypeOK, Memory
<1>2. DOMAIN has[a].of \subseteq Files /\ has[a].kind \in Kinds /\ has[a].files \subseteq Files
  BY <1>1, MapsOf DEF Memory, Reads, Kinds
<1>3. ASSUME Busy(a), Done(a), doc' = doc PROVE TodoInv'
  BY <1>3, DoneTodo DEF TypedInv
<1>4. ASSUME NEW fs \in SUBSET Files PROVE Astray(a, fs) \in SUBSET (Files \X Kinds)
  BY <1>1, <1>2 DEF Astray, History
<1>5. CASE Forget(a)
  <2>1. [server EXCEPT !.cache = Unset] \in Servers
    BY <1>1 DEF Servers
  <2>2. [slips EXCEPT !.late = Waiting] \in History
    BY <1>1 DEF History, Waiting
  <2>. QED BY <1>3, <1>5, <2>1, <2>2 DEF Forget, At, TypedInv, TypeOK, TodoInv, Frame
<1>6. CASE Look(a)
  <2>1. PICK kind \in Kinds :
          has' = [has EXCEPT ![a] = [Blank EXCEPT !.kind = kind,
                                                  !.of = [f \in db.docs |-> StatusOf(f)[kind]]]]
    BY <1>6 DEF Look
  <2> DEFINE of == [f \in db.docs |-> StatusOf(f)[kind]]
  <2>2. db.docs \in SUBSET Files
    BY <1>1 DEF Dbs
  <2>3. ASSUME kind = "legacy" PROVE [Blank EXCEPT !.kind = kind, !.of = of] \in Memory
    <3>1. ASSUME NEW f PROVE StatusOf(f)["legacy"] \in BOOLEAN
      <4>1. StatusOf(f)["legacy"] = (f \in server.replacements)
        BY ZenonT(20) DEF StatusOf
      <4>. QED BY <4>1
    <3>2. of \in Maps(BOOLEAN)
      BY <2>2, <2>3, <3>1 DEF Maps
    <3> HIDE DEF of
    <3>. QED BY <1>1, <2>3, <3>2 DEF Memory, Reads
  <2>4. ASSUME kind = "scope" PROVE [Blank EXCEPT !.kind = kind, !.of = of] \in Memory
    <3>1. of \in [db.docs -> Scopes]
      BY <2>4, ScopeTyped DEF StatusOf
    <3>2. of \in Maps(Scopes)
      BY <2>2, <3>1 DEF Maps
    <3> HIDE DEF of
    <3>. QED BY <1>1, <2>4, <3>2 DEF Memory, Reads
  <2>5. [Blank EXCEPT !.kind = kind, !.of = of] \in Memory
    BY <1>1, <2>3, <2>4 DEF Kinds, Memory, Reads
  <2>6. [slips EXCEPT !.passed = @ \ {a}] \in History
    BY <1>1 DEF History
  <2>. QED BY <1>3, <1>6, <2>1, <2>5, <2>6 DEF Look, At, TypedInv, TypeOK, TodoInv, Frame
<1>7. CASE Record(a)
  <2> DEFINE kind == has[a].kind
             new  == {f \in DOMAIN has[a].of : sent[f][kind] # has[a].of[f]}
  <2>1. [has[a] EXCEPT !.of = [f \in new |-> @[f]]] \in Memory
    BY <1>1, SomeTyped
  <2>2. With(sent, a) \in [Files -> Shown]
    BY <1>1, WithTyped
  <2>3. [slips EXCEPT !.astray = Astray(a, new),
                      !.passed = @ \cup {b \in Sending \ {a} : has[b].kind = kind}] \in History
    <3>1. Astray(a, new) \in SUBSET (Files \X Kinds)
      BY <1>2, <1>4
    <3>2. {b \in Sending \ {a} : has[b].kind = kind} \subseteq Actors
      BY DEF Sending
    <3> HIDE DEF new, kind
    <3>. QED BY <1>1, <3>1, <3>2 DEF History, kind
  <2>4. has' = [has EXCEPT ![a] = [has[a] EXCEPT !.of = [f \in new |-> @[f]]]]
    BY <1>7 DEF Record, TypedInv, TypeOK
  <2>. QED BY <1>3, <1>7, <2>1, <2>2, <2>3, <2>4 DEF Record, At, TypedInv, TypeOK, TodoInv, Frame
<1>8. CASE Notify(a)
  <2>1. With(shown, a) \in [Files -> Shown]
    BY <1>1, WithTyped
  <2>2. [slips EXCEPT !.astray = Astray(a, DOMAIN has[a].of), !.passed = @ \ {a}] \in History
    BY <1>1, <1>2, <1>4 DEF History
  <2>. QED BY <1>1, <1>3, <1>8, <2>1, <2>2 DEF Notify, At, TypedInv, TypeOK, TodoInv, Frame
<1>9. ASSUME NEW scopes, DOMAIN scopes \subseteq Files
      PROVE  [slips EXCEPT !.outdated = Outdated(scopes)] \in History /\ Routed(scopes) \in Dbs
  BY <1>1, <1>9, RoutedTyped DEF TypedInv, History
<1>10. CASE Reroute(a)
  <2> DEFINE scopes == [f \in DOMAIN has[a].of \cap db.docs |-> has[a].of[f]]
  <2>1. DOMAIN scopes \subseteq Files
    BY <1>2
  <2>2. [slips EXCEPT !.outdated = Outdated(scopes)] \in History /\ Routed(scopes) \in Dbs
    BY <1>9, <2>1
  <2> HIDE DEF scopes
  <2>3. db' = Routed(scopes) /\ slips' = [slips EXCEPT !.outdated = Outdated(scopes)]
    BY <1>10 DEF Reroute, scopes
  <2>. QED BY <1>3, <1>10, <2>2, <2>3 DEF Reroute, At, TypedInv, TypeOK, TodoInv, Frame
<1>11. CASE Route(a)
  <2>1. doc \in Files
    BY <1>11, DocOf DEF Route, DocSteps, TypedInv
  <2>2. [slips EXCEPT !.outdated = Outdated(has[a].of)] \in History /\ Routed(has[a].of) \in Dbs
    BY <1>2, <1>9
  <2>3. [Routed(has[a].of) EXCEPT !.docs = @ \cup {doc}] \in Dbs
    BY <2>1, <2>2 DEF Dbs
  <2>. QED BY <1>1, <1>3, <1>11, <2>2, <2>3 DEF Route, At, TypedInv, TypeOK, TodoInv, Frame
<1>12. ASSUME doc \in Files, NEW index, LeftIn(index) PROVE slips' \in History
  BY <1>1, <1>12 DEF LeftIn, History
<1>13. CASE DropLoose(a)
  <2>1. doc \in Files
    BY <1>13, DocOf DEF DropLoose, DocSteps, TypedInv
  <2>2. [db EXCEPT !.docs = @ \ {doc}, !.loose = @ \ {doc}] \in Dbs
    BY <1>1 DEF Dbs
  <2>3. slips' \in History
    BY <1>12, <1>13, <2>1 DEF DropLoose
  <2>. QED BY <1>3, <1>13, <2>2, <2>3 DEF DropLoose, At, TypedInv, TypeOK, TodoInv, Frame
<1>14. has[a].index \in {"ws", "base"}
  BY <1>1 DEF Memory, Reads
<1>15. CASE KeepParse(a)
  <2>1. doc \in Files
    BY <1>15, DocOf DEF KeepParse, DocSteps, TypedInv
  <2>2. [db EXCEPT !.docs = @ \ {doc}, ![DocsOf(has[a].index)] = @ \cup has[a].files] \in Dbs
    <3>1. CASE has[a].index = "ws"
      BY <1>1, <1>2, <3>1 DEF Dbs, DocsOf
    <3>2. CASE has[a].index = "base"
      BY <1>1, <1>2, <3>2 DEF Dbs, DocsOf
    <3>. QED BY <1>14, <3>1, <3>2
  <2>3. slips' \in History
    BY <1>12, <1>15, <2>1 DEF KeepParse
  <2>. QED BY <1>3, <1>15, <2>2, <2>3 DEF KeepParse, At, TypedInv, TypeOK, TodoInv, Frame
<1>16. CASE ReindexClosed(a)
  <2>1. doc \in Files
    BY <1>16, DocOf DEF ReindexClosed, DocSteps, TypedInv
  <2>2. [db EXCEPT !.docs = @ \ {doc},
                   ![has[a].index] = (@ \ {doc}) \cup has[a].files,
                   ![DocsOf(has[a].index)] = (@ \ {doc}) \cup has[a].files] \in Dbs
    <3>1. CASE has[a].index = "ws"
      BY <1>1, <1>2, <3>1 DEF Dbs, DocsOf
    <3>2. CASE has[a].index = "base"
      BY <1>1, <1>2, <3>2 DEF Dbs, DocsOf
    <3>. QED BY <1>14, <3>1, <3>2
  <2>3. slips' \in History
    BY <1>12, <1>16, <2>1 DEF ReindexClosed
  <2>. QED BY <1>3, <1>16, <2>2, <2>3 DEF ReindexClosed, At, TypedInv, TypeOK, TodoInv, Frame
<1>17. CASE ReadClosed(a)
  <2>1. doc \in Files
    BY <1>17, DocOf DEF ReadClosed, DocSteps, TypedInv
  <2>2. PICK index \in {"ws", "base"} :
          \/ /\ Goto(a, <<"keepParse">> \o Tail(todo[a]))
             /\ \E kept \in SUBSET {doc} : Keep(a, [Blank EXCEPT !.index = index, !.files = kept])
          \/ /\ Goto(a, <<"reindexClosed", "ifLegacy">> \o Tail(todo[a]))
             /\ Keep(a, [Blank EXCEPT !.index = index, !.files = {doc} \cap client.disk])
    <3>1. CASE IsBase(doc)
      BY <1>17, <3>1 DEF ReadClosed
    <3>2. CASE ~IsBase(doc)
      BY <1>17, <3>2 DEF ReadClosed
    <3>. QED BY <3>1, <3>2
  <2>3. PICK files \in SUBSET {doc} : Keep(a, [Blank EXCEPT !.index = index, !.files = files])
    BY <2>2
  <2>4. [Blank EXCEPT !.index = index, !.files = files] \in Memory
    BY <1>1, <2>1 DEF Memory, Reads
  <2>5. /\ Tail(todo[a]) \in Seq(StepNames) /\ Settles(Tail(todo[a]))
    BY <1>17, TailOf DEF ReadClosed, At, Busy, TypedInv, TodoInv
  <2>6. Listed(<<"keepParse">>) /\ Listed(<<"reindexClosed", "ifLegacy">>)
    BY DEF Listed, Settles, Changing, StepNames
  <2>7. Listed(<<"keepParse">> \o Tail(todo[a])) /\ Listed(<<"reindexClosed", "ifLegacy">> \o Tail(todo[a]))
    BY <2>5, <2>6, ConcatOf DEF Listed
  <2>8. TodoInv'
    BY <2>1, <2>2, <2>3, <2>7, GotoTodo DEF Keep, TypedInv
  <2>. QED BY <2>3, <2>4, <2>8, KeepTyped
<1>18. CASE Closed(a)
  <2>1. doc \in Files
    BY <1>18, DocOf DEF Closed, DocSteps, TypedInv
  <2>2. [sent EXCEPT ![doc].scope = Unset] \in [Files -> Shown]
    BY <1>1, <2>1 DEF Shown
  <2>. QED BY <1>3, <1>18, <2>2 DEF Closed, At, TypedInv, TypeOK, TodoInv, Frame
<1>. QED BY <1>5, <1>6, <1>7, <1>8, <1>10, <1>11, <1>13, <1>15, <1>16, <1>17, <1>18

LEMMA StepTyped == ASSUME TypedInv, NEW a \in Actors, Step(a) PROVE TypedInv'
BY ReadTyped, StoreTyped, ChooseTyped, SlipTyped DEF Step, Frame

\* A list that begins with a step about a document.
LEMMA DocLists ==
  ASSUME NEW first \in DocSteps, NEW s, Plain(s)
  PROVE  Listed(<<first>> \o s) /\ <<first>> \o s \in Seq(StepNames)
<1>1. first \in StepNames /\ first \notin Changing
  BY DEF DocSteps, StepNames, Changing
<1>2. Listed(<<first>>)
  BY <1>1, OneStep
<1>. QED BY <1>2, ConcatOf DEF Listed, Plain

LEMMA PlainConcat == ASSUME NEW s, NEW t, Plain(s), Plain(t) PROVE Plain(s \o t)
BY ConcatOf DEF Plain

LEMMA OpenTyped == ASSUME TypedInv, NEW f \in Files, DidOpen(f) PROVE TypedInv'
<1>1. Plain(IfLegacy(f, RefreshMaps) \o Statuses)
  BY PlainLists, PlainConcat DEF IfLegacy
<1>2. Listed(<<"reuse">> \o Statuses)
  BY PlainLists, DocLists DEF DocSteps
<1>3. Listed(<<"scopeOf", "route">> \o IfLegacy(f, RefreshMaps) \o Statuses)
  <2>1. Listed(<<"scopeOf", "route">>)
    BY DEF Listed, Settles, Changing, StepNames
  <2>2. Listed(IfLegacy(f, RefreshMaps)) /\ Listed(Statuses)
    BY PlainLists DEF IfLegacy, Plain, Listed
  <2>3. Listed(<<"scopeOf", "route">> \o IfLegacy(f, RefreshMaps))
    BY <2>1, <2>2, ConcatOf DEF Listed
  <2>. QED BY <2>2, <2>3, ConcatOf DEF Listed
<1>4. TodoInv'
  BY <1>2, <1>3, AboutTodo DEF DidOpen, TypedInv
<1>5. [sent EXCEPT ![f] = NoStatus] \in [Files -> Shown]
  BY DEF TypedInv, TypeOK, NoStatus, Shown, Kinds
<1>6. inputs' \in 0 .. MaxInputs
  BY DirsAssumption DEF DidOpen, Handle, Input, TypedInv, TypeOK
<1>. QED BY <1>4, <1>5, <1>6 DEF DidOpen, TypedInv, TypeOK, TodoInv

LEMMA CloseTyped == ASSUME TypedInv, NEW f \in Files, DidClose(f) PROVE TypedInv'
<1>1. Listed(AfterClose)
  <2>1. Listed(<<"closed">>)
    BY OneStep DEF StepNames, Changing
  <2>2. Listed(ScopeStatus)
    BY PlainLists DEF Plain, Listed
  <2>. QED BY <2>1, <2>2, ConcatOf DEF Listed, AfterClose
<1>2. Listed(<<"dropLoose">>) /\ Listed(<<"readClosed">>)
  BY OneStep DEF StepNames, Changing
<1>3. Listed((IF IsLoose(f) THEN <<"dropLoose">> ELSE <<"readClosed">>) \o AfterClose)
  BY <1>1, <1>2, ConcatOf DEF Listed
<1>4. TodoInv'
  BY <1>3, AboutTodo DEF DidClose, TypedInv
<1>5. [shown EXCEPT ![f] = NoStatus] \in [Files -> Shown]
  BY DEF TypedInv, TypeOK, NoStatus, Shown, Kinds
<1>6. inputs' \in 0 .. MaxInputs
  BY DirsAssumption DEF DidClose, Handle, Input, TypedInv, TypeOK
<1>. QED BY <1>4, <1>5, <1>6 DEF DidClose, TypedInv, TypeOK, TodoInv

LEMMA EventTyped ==
  ASSUME TypedInv, WatchedManifest \/ \E f \in Files : WatchedScript(f)
  PROVE  TypedInv'
<1>1. Blank \in Reads("scope", Scopes)
  BY BlankTyped
<1>2. ASSUME NEW x
      PROVE  [client EXCEPT !.events = @ \ {x}] \in
               [settings : Settings, toml : BOOLEAN, events : SUBSET (Files \cup {Toml}), disk : SUBSET Files]
  BY DEF TypedInv, TypeOK
<1>3. CASE WatchedManifest
  <2>1. Plain(<<"manifest">>)
    BY OneStep DEF StepNames, Changing, DocSteps, Plain, Listed
  <2>2. TodoInv'
    BY <1>3, <2>1, GotoTodo DEF WatchedManifest, TypedInv, Plain, Listed, Actors
  <2>3. [Blank EXCEPT !.baseDirs = server.manifests, !.dirs = Discovered] \in Memory
    BY <1>1, DirsTyped DEF Memory, Reads, TypedInv, TypeOK, Servers, Dirs
  <2>4. client' \in [settings : Settings, toml : BOOLEAN, events : SUBSET (Files \cup {Toml}), disk : SUBSET Files]
    BY <1>2, <1>3 DEF WatchedManifest
  <2>. QED BY <1>3, <2>2, <2>3, <2>4 DEF WatchedManifest, TypedInv, TypeOK, TodoInv, Actors
<1>4. ASSUME NEW f \in Files, WatchedScript(f) PROVE TypedInv'
  <2>1. client' \in [settings : Settings, toml : BOOLEAN, events : SUBSET (Files \cup {Toml}), disk : SUBSET Files]
    BY <1>2, <1>4 DEF WatchedScript
  <2>2. CASE f \in db.docs
    BY <1>4, <2>1, <2>2 DEF WatchedScript, TypedInv, TypeOK, TodoInv
  <2>3. CASE f \notin db.docs
    <3>1. Plain(IfLegacy(f, RefreshMaps \o Statuses))
      BY PlainLists, PlainConcat DEF IfLegacy
    <3>2. Listed(<<"watched">> \o IfLegacy(f, RefreshMaps \o Statuses))
      BY <3>1, DocLists DEF DocSteps
    <3>3. TodoInv'
      BY <1>4, <2>3, <3>2, AboutTodo DEF WatchedScript, TypedInv
    <3>4. [Blank EXCEPT !.files = {f} \cap client.disk] \in Memory
      BY <1>1 DEF Memory, Reads
    <3>5. has' = [has EXCEPT ![Main] = [Blank EXCEPT !.files = {f} \cap client.disk]] /\ doc' = f
      BY <1>4, <2>3 DEF WatchedScript
    <3>7. has' \in [Actors -> Memory] /\ doc' \in Files
      BY <3>4, <3>5 DEF TypedInv, TypeOK
    <3>6. UNCHANGED <<server, db, sent, shown, requests, slips, inputs>>
      BY <1>4 DEF WatchedScript
    <3>. QED BY <2>1, <3>3, <3>6, <3>7 DEF TypedInv, TypeOK, TodoInv
  <2>. QED BY <2>2, <2>3
<1>. QED BY <1>3, <1>4

LEMMA TaskTyped ==
  ASSUME TypedInv, NEW k \in Tasks, Spawn(k) \/ \E s \in Settings : ChangeSettings(k, s)
  PROVE  TypedInv'
<1>1. CASE Spawn(k)
  <2>1. /\ todo[Main] \in Seq(StepNames) /\ todo[Main] # <<>> /\ Settles(todo[Main])
        /\ Steps(todo[Main]) \cap DocSteps # {} => doc \in Files
    BY <1>1 DEF Spawn, At, Busy, TypedInv, TodoInv, Actors
  <2>2. /\ Tail(todo[Main]) \in Seq(StepNames) /\ Settles(Tail(todo[Main]))
        /\ Steps(Tail(todo[Main])) \subseteq Steps(todo[Main])
    BY <2>1, TailOf
  <2>3. k # Main /\ k \in Actors /\ Main \in Actors
    BY DistinctAssumption DEF Actors
  <2>4. TodoInv'
    <3>1. IndexBase \in Seq(StepNames) /\ Settles(IndexBase) /\ Steps(IndexBase) \cap DocSteps = {}
      BY PlainLists DEF Plain
    <3>2. todo' \in [Actors -> Seq(StepNames)]
      BY <1>1, <2>2, <2>3, <3>1 DEF Spawn, TypedInv, TodoInv
    <3>3. /\ todo'[Main] = Tail(todo[Main]) /\ todo'[k] = IndexBase
          /\ \A a \in Actors : a # k /\ a # Main => todo'[a] = todo[a]
      BY <1>1, <2>3 DEF Spawn, TypedInv, TodoInv
    <3>4. doc' = doc
      BY <1>1 DEF Spawn
    <3>5. ASSUME NEW a \in Actors
          PROVE  Settles(todo'[a]) /\ (Steps(todo'[a]) \cap DocSteps # {} => doc' \in Files)
      <4>1. CASE a = k
        BY <3>1, <3>3, <4>1
      <4>2. CASE a = Main
        BY <2>1, <2>2, <3>3, <3>4, <4>2
      <4>3. CASE a # k /\ a # Main
        BY <3>3, <3>4, <4>3 DEF TypedInv, TodoInv
      <4>. QED BY <4>1, <4>2, <4>3
    <3>. QED BY <3>2, <3>5 DEF TodoInv
  <2>. QED BY <1>1, <2>4 DEF Spawn, TypedInv, TypeOK, TodoInv
<1>2. ASSUME NEW s \in Settings, ChangeSettings(k, s) PROVE TypedInv'
  <2>1. TodoInv'
    BY <1>2, PlainLists, GotoTodo DEF ChangeSettings, TypedInv, Plain, Listed, Actors
  <2>2. inputs' \in 0 .. MaxInputs
    BY <1>2, DirsAssumption DEF ChangeSettings, Change, Input, TypedInv, TypeOK
  <2>3. [client EXCEPT !.settings = s] \in
          [settings : Settings, toml : BOOLEAN, events : SUBSET (Files \cup {Toml}), disk : SUBSET Files]
    BY DEF TypedInv, TypeOK
  <2>. QED BY <1>2, <2>1, <2>2, <2>3 DEF ChangeSettings, TypedInv, TypeOK, TodoInv
<1>. QED BY <1>1, <1>2

LEMMA RequestTyped ==
  ASSUME TypedInv, NEW r \in Requests, TakeHandles(r) \/ Complete(r)
  PROVE  TypedInv'
<1>1. Handles \in Lists /\ slips \in History /\ server \in Servers
  BY DEF TypedInv, TypeOK, Dbs, Handles, Lists
<1>2. UNCHANGED <<todo, doc>>
  BY DEF TakeHandles, Complete
<1>3. TodoInv'
  BY <1>2 DEF TypedInv, TodoInv
<1>4. CASE TakeHandles(r)
  <2>1. inputs' \in 0 .. MaxInputs
    BY <1>4, DirsAssumption DEF TakeHandles, Input, TypedInv, TypeOK
  <2>2. slips' \in History /\ requests' \in [Requests -> Lists \cup {Unset}]
    BY <1>1, <1>4 DEF TakeHandles, TypedInv, TypeOK, History
  <2>. QED BY <1>3, <1>4, <2>1, <2>2 DEF TakeHandles, TypedInv, TypeOK
<1>5. CASE Complete(r)
  <2>1. requests' \in [Requests -> Lists \cup {Unset}] /\ requests[r] \in Lists
    BY <1>5 DEF Complete, TypedInv, TypeOK
  <2>2. server' \in Servers
    BY <1>1, <1>5, <2>1 DEF Complete, Servers
  <2>3. slips' \in History
    BY <1>1, <1>5 DEF Complete, History
  <2>. QED BY <1>3, <1>5, <2>1, <2>2, <2>3 DEF Complete, TypedInv, TypeOK
<1>. QED BY <1>4, <1>5

LEMMA WorldTyped == ASSUME TypedInv, World PROVE TypedInv'
<1>1. /\ Toml \notin Files /\ UNCHANGED <<server, db, sent, shown, todo, has, doc, requests, slips>>
      /\ inputs < MaxInputs /\ inputs' = inputs + 1
  BY DistinctAssumption DEF World, ManifestChange, FileChange, Change, Input
<1>2. client' \in [settings : Settings, toml : BOOLEAN, events : SUBSET (Files \cup {Toml}), disk : SUBSET Files]
  <2>1. CASE ManifestChange
    BY <2>1 DEF ManifestChange, TypedInv, TypeOK
  <2>2. ASSUME NEW f \in Files, FileChange(f)
        PROVE  client' \in [settings : Settings, toml : BOOLEAN, events : SUBSET (Files \cup {Toml}),
                            disk : SUBSET Files]
    BY <2>2 DEF FileChange, TypedInv, TypeOK
  <2>. QED BY <2>1, <2>2 DEF World
<1>3. inputs' \in 0 .. MaxInputs
  BY <1>1, DirsAssumption DEF TypedInv, TypeOK
<1>. QED BY <1>1, <1>2, <1>3 DEF TypedInv, TypeOK, TodoInv

LEMMA InitTyped == ASSUME Init PROVE TypedInv
<1>1. server \in Servers
  <2>1. client.settings \in Settings /\ NoConfig \in Configs
    BY DEF Init, NoConfig, Configs
  <2>. QED BY <2>1, ParsedTyped DEF Init, Servers
<1>2. TodoInv
  <2>1. OnStartup \in Seq(StepNames) /\ Settles(OnStartup) /\ Steps(OnStartup) \cap DocSteps = {}
    BY PlainLists DEF Plain
  <2>2. <<>> \in Seq(StepNames) /\ Settles(<<>>) /\ Steps(<<>>) \cap DocSteps = {}
    BY PlainLists DEF Plain
  <2>. QED BY <2>1, <2>2 DEF Init, TodoInv
<1>3. has \in [Actors -> Memory] /\ slips \in History
  BY BlankTyped DEF Init, Memory, NoSlips, History
<1>4. sent \in [Files -> Shown] /\ shown \in [Files -> Shown]
  BY DEF Init, NoStatus, Shown, Kinds
<1>5. /\ db \in Dbs /\ doc \in Files \cup {Unset} /\ inputs \in 0 .. MaxInputs
      /\ requests \in [Requests -> Lists \cup {Unset}]
      /\ client \in [settings : Settings, toml : BOOLEAN, events : SUBSET (Files \cup {Toml}), disk : SUBSET Files]
  BY DirsAssumption DEF Init, Dbs
<1>. QED BY <1>1, <1>2, <1>3, <1>4, <1>5 DEF TypedInv, TypeOK, TodoInv

LEMMA NextTyped == TypedInv /\ [Next]_vars => TypedInv'
<1>1. ASSUME TypedInv, Next PROVE TypedInv'
  BY <1>1, StepTyped, OpenTyped, CloseTyped, EventTyped, TaskTyped, RequestTyped, WorldTyped
     DEF Next, MainLoop
<1>2. ASSUME TypedInv, UNCHANGED vars PROVE TypedInv'
  BY <1>2 DEF vars, TypedInv, TypeOK, TodoInv
<1>. QED BY <1>1, <1>2

\* Types of LegacyOverrides, among them that a status a sender has read is of
\* the kind it is going to send and that a handler's document is a file,
\* whatever overlaps and whatever is missing on disk.
THEOREM TypeCorrect == Spec => []TypeOK
<1>1. TypedInv => TypeOK
  BY DEF TypedInv
<1>. QED BY <1>1, InitTyped, NextTyped, PTL DEF Spec

-----------------------------------------------------------------------------
(* The completion cache.  A list is current when it hides what is          *)
(* suppressed and was made with the catalogs there are.                    *)

Current(list) == list # Unset => list.suppressed = db.suppressed /\ list.catalogs = db.catalogs

\* Somebody still has to drop the cache.
Owes(a) == "forget" \in Steps(todo[a])
Owed    == \E a \in Actors : Owes(a)

\* Until the cache is dropped, what is in it or in the hands of a request may
\* be older than the catalogs; afterwards only what is known to be late is.
CacheInv ==
  \/ Owed
  \/ /\ Cache \notin slips.late => Current(server.cache)
     /\ \A r \in Requests \ slips.late : Current(requests[r])

\* What no step but a few touches.
ListParts == <<db.suppressed, db.catalogs, server.cache, requests, slips.late>>

LEMMA SameCache ==
  ASSUME CacheInv, UNCHANGED ListParts, \A a \in Actors : Owes(a) => Owes(a)'
  PROVE  CacheInv'
BY DEF CacheInv, Owed, ListParts, Current

\* A step that is not the one that drops the cache leaves it owed.
LEMMA OwesStill ==
  ASSUME TypedInv, NEW a \in Actors, Busy(a), Head(todo[a]) # "forget", NEW s \in Seq(StepNames),
         Steps(Tail(todo[a])) \subseteq Steps(s), Goto(a, s), NEW b \in Actors, Owes(b)
  PROVE  Owes(b)'
<1>1. Steps(todo[a]) = {Head(todo[a])} \cup Steps(Tail(todo[a]))
  BY TailOf DEF Busy, TypedInv, TodoInv
<1>2. todo'[a] = s /\ (b # a => todo'[b] = todo[b])
  BY DEF Goto, TypedInv, TodoInv
<1>3. CASE b = a
  BY <1>1, <1>2, <1>3 DEF Owes
<1>4. CASE b # a
  BY <1>2, <1>4 DEF Owes
<1>. QED BY <1>3, <1>4

LEMMA OwesDone ==
  ASSUME TypedInv, NEW a \in Actors, Busy(a), Head(todo[a]) # "forget", Done(a),
         NEW b \in Actors, Owes(b)
  PROVE  Owes(b)'
<1>1. Tail(todo[a]) \in Seq(StepNames)
  BY TailOf DEF Busy, TypedInv, TodoInv
<1>. QED BY <1>1, OwesStill DEF Done

LEMMA OwesAhead ==
  ASSUME TypedInv, NEW a \in Actors, Busy(a), Head(todo[a]) # "forget",
         NEW s \in Seq(StepNames), Settles(s), Goto(a, s \o Tail(todo[a])), NEW b \in Actors, Owes(b)
  PROVE  Owes(b)'
<1>1. Tail(todo[a]) \in Seq(StepNames) /\ Settles(Tail(todo[a]))
  BY TailOf DEF Busy, TypedInv, TodoInv
<1>2. s \o Tail(todo[a]) \in Seq(StepNames) /\ Steps(Tail(todo[a])) \subseteq Steps(s \o Tail(todo[a]))
  BY <1>1, ConcatOf
<1>. QED BY <1>2, OwesStill

\* Whoever changes what a list depends on then owes.
LEMMA ChangeCache ==
  ASSUME TypedInv, NEW a \in Actors, Publish(a) \/ Suppress(a) \/ Catalogs(a)
  PROVE  CacheInv'
<1>1. Busy(a) /\ Head(todo[a]) \in Changing /\ Done(a)
  BY DEF Publish, Suppress, Catalogs, At, Changing
<1>2. "forget" \in Steps(Tail(todo[a]))
  BY <1>1, TailOf DEF Busy, TypedInv, TodoInv
<1>3. todo'[a] = Tail(todo[a])
  BY <1>1 DEF Done, Goto, TypedInv, TodoInv
<1>4. Owed'
  BY <1>2, <1>3 DEF Owed, Owes
<1>. QED BY <1>4 DEF CacheInv

LEMMA ForgetCache == ASSUME TypedInv, NEW a \in Actors, Frame, Forget(a) PROVE CacheInv'
<1>1. server'.cache = Unset /\ slips'.late = Waiting /\ requests' = requests
  BY DEF Forget, TypedInv, TypeOK, Servers, History, Frame
<1>2. \A r \in Requests \ slips'.late : requests'[r] = Unset
  BY <1>1 DEF Waiting
<1>. QED BY <1>1, <1>2 DEF CacheInv, Current

\* Steps that go on with the rest of the list.
LEMMA DoneCache ==
  ASSUME TypedInv, CacheInv, NEW a \in Actors, Frame,
         \/ Ask(a) \/ Answer(a) \/ Walk(a) \/ Filter(a) \/ IndexFound(a) \/ Discover(a)
         \/ StoreManifests(a) \/ Read(a) \/ Replace(a) \/ OpenBase(a) \/ Merge(a) \/ Open(a)
         \/ Sync(a) \/ Stale(a) \/ Prune(a) \/ ReadScopes(a) \/ Reroute(a) \/ Ready(a) \/ Pair(a)
         \/ Look(a) \/ Record(a) \/ Notify(a) \/ Reuse(a) \/ ScopeOf(a) \/ Route(a) \/ DropLoose(a)
         \/ KeepParse(a) \/ ReindexClosed(a) \/ Closed(a) \/ PublishWatched(a)
  PROVE  CacheInv'
<1>1. Busy(a) /\ Done(a) /\ Head(todo[a]) # "forget"
  <2>1. \A kind \in Kinds : kind # "forget"
    BY DEF Kinds
  <2>. QED BY <2>1 DEF Ask, Answer, Walk, Filter, IndexFound, Discover, StoreManifests, Read, Replace,
         OpenBase, Merge, Open, Sync, Stale, Prune, ReadScopes, Reroute, Ready, Pair, Look, Record,
         Notify, Reuse, ScopeOf, Route, DropLoose, KeepParse, ReindexClosed, Closed, PublishWatched, At
<1>2. server \in Servers /\ db \in Dbs /\ slips \in History /\ has[a].index \in {"ws", "base"}
  BY OfActors DEF TypedInv, TypeOK, Memory, Reads
<1>3. db'.suppressed = db.suppressed /\ db'.catalogs = db.catalogs
  <2>1. CASE UNCHANGED db
    BY <2>1
  <2>2. CASE IndexFound(a) \/ Merge(a) \/ Sync(a) \/ Prune(a) \/ Reuse(a) \/ PublishWatched(a) \/ DropLoose(a)
    BY <1>2, <2>2 DEF IndexFound, Merge, Sync, Prune, Reuse, PublishWatched, DropLoose, PublishDb, Dbs
  <2>3. CASE Reroute(a) \/ Route(a)
    BY <1>2, <2>3 DEF Reroute, Route, Routed, Dbs
  <2>4. CASE KeepParse(a) \/ ReindexClosed(a)
    BY <1>2, <2>4 DEF KeepParse, ReindexClosed, DocsOf, Dbs
  <2>. QED BY <2>1, <2>2, <2>3, <2>4
       DEF Ask, Answer, Walk, Filter, Discover, StoreManifests, Read, Replace, OpenBase, Open, Stale,
           ReadScopes, Ready, Pair, Look, Record, Notify, ScopeOf, Closed, Keep, Assign, StartRefresh
<1>4. server'.cache = server.cache
  <2>1. CASE UNCHANGED server
    BY <2>1
  <2>2. CASE StoreManifests(a) \/ Replace(a) \/ Ready(a)
    BY <1>2, <2>2 DEF StoreManifests, Replace, Ready, Assign, Servers
  <2>. QED BY <2>1, <2>2
       DEF Ask, Answer, Walk, Filter, IndexFound, Discover, Read, OpenBase, Merge, Open, Sync, Stale,
           Prune, ReadScopes, Reroute, Pair, Look, Record, Notify, Reuse, ScopeOf, Route, DropLoose,
           KeepParse, ReindexClosed, Closed, PublishWatched, Keep, PublishDb, StartRefresh
<1>5. slips'.late = slips.late
  <2>1. CASE UNCHANGED slips
    BY <2>1
  <2>2. CASE Reroute(a) \/ Route(a) \/ Pair(a) \/ Look(a) \/ Record(a) \/ Notify(a)
    BY <1>2, <2>2 DEF Reroute, Route, Pair, StartRefresh, Look, Record, Notify, History
  <2>3. CASE DropLoose(a) \/ KeepParse(a) \/ ReindexClosed(a)
    BY <1>2, <2>3 DEF DropLoose, KeepParse, ReindexClosed, LeftIn, History
  <2>. QED BY <2>1, <2>2, <2>3
       DEF Ask, Answer, Walk, Filter, IndexFound, Discover, StoreManifests, Read, Replace, OpenBase,
           Merge, Open, Sync, Stale, Prune, ReadScopes, Ready, Reuse, ScopeOf, Closed, PublishWatched,
           Keep, Assign, PublishDb
<1>. QED BY <1>1, <1>3, <1>4, <1>5, OwesDone, SameCache DEF ListParts, Frame

\* Steps that choose what follows.
LEMMA ChooseCache ==
  ASSUME TypedInv, CacheInv, NEW a \in Actors, Frame,
         Plan(a) \/ Store(a) \/ ReadClosed(a) \/ RefreshIfLegacy(a) \/ StoreManifest(a)
  PROVE  CacheInv'
<1>1. Busy(a) /\ Head(todo[a]) # "forget"
  BY DEF Plan, Store, ReadClosed, RefreshIfLegacy, StoreManifest, At
<1>2. server \in Servers /\ slips \in History
  BY DEF TypedInv, TypeOK
<1>3. UNCHANGED ListParts
  <2>1. server'.cache = server.cache
    BY <1>2 DEF Plan, Store, ReadClosed, RefreshIfLegacy, StoreManifest, Keep, Assign, StartRefresh, Servers
  <2>2. slips'.late = slips.late
    BY <1>2 DEF Plan, Store, ReadClosed, RefreshIfLegacy, StoreManifest, Keep, Assign, StartRefresh, History
  <2>3. UNCHANGED <<db, requests>>
    BY DEF Plan, Store, ReadClosed, RefreshIfLegacy, StoreManifest, Keep, Assign, StartRefresh, Frame
  <2>. QED BY <2>1, <2>2, <2>3 DEF ListParts
<1>4. ASSUME NEW s, Plain(s), Goto(a, s \o Tail(todo[a])) PROVE CacheInv'
  BY <1>1, <1>3, <1>4, OwesAhead, SameCache DEF Plain
<1>5. CASE Plan(a)
  <2>1. CASE Done(a)
    BY <1>1, <1>3, <2>1, OwesDone, SameCache
  <2>2. CASE Goto(a, NoBase \o SubSeq(todo[a], Len(IndexBase) + 1, Len(todo[a])))
    <3> DEFINE rest == SubSeq(todo[a], Len(IndexBase) + 1, Len(todo[a]))
    <3>1. todo[a] \in Seq(StepNames) /\ Settles(todo[a]) /\ Len(IndexBase) \in Nat
      BY PlainLists DEF TypedInv, TodoInv, Plain
    <3>2. rest \in Seq(StepNames) /\ Settles(rest)
      BY <3>1, RestOf
    <3>3. "forget" \in Steps(NoBase \o rest)
      BY <3>2, PlainLists, ConcatOf DEF Plain
    <3>4. todo'[a] = NoBase \o rest
      BY <2>2 DEF Goto, TypedInv, TodoInv
    <3>. QED BY <3>3, <3>4 DEF CacheInv, Owed, Owes
  <2>. QED BY <1>5, <2>1, <2>2 DEF Plan
<1>6. CASE Store(a)
  <2>1. Plain(Fetched(has[a]))
    BY PlainLists DEF Fetched
  <2>. QED BY <1>4, <1>6, <2>1 DEF Store
<1>7. CASE ReadClosed(a)
  <2>1. Listed(<<"keepParse">>) /\ Listed(<<"reindexClosed", "ifLegacy">>)
    BY DEF Listed, Settles, Changing, StepNames
  <2>2. PICK s \in {<<"keepParse">>, <<"reindexClosed", "ifLegacy">>} : Goto(a, s \o Tail(todo[a]))
    BY <1>7 DEF ReadClosed
  <2>. QED BY <1>1, <1>3, <2>1, <2>2, OwesAhead, SameCache DEF Listed
<1>8. CASE RefreshIfLegacy(a)
  <2>1. Plain(IfLegacy(doc, RefreshMaps))
    BY PlainLists DEF IfLegacy
  <2>. QED BY <1>4, <1>8, <2>1 DEF RefreshIfLegacy
<1>9. CASE StoreManifest(a)
  <2>1. Plain(IF has[a].baseDirs = has[a].dirs THEN <<>> ELSE AfterManifest)
    BY PlainLists
  <2>. QED BY <1>4, <1>9, <2>1 DEF StoreManifest
<1>. QED BY <1>5, <1>6, <1>7, <1>8, <1>9

\* Handlers and tasks begin where nothing was left to do.
LEMMA BeginCache ==
  ASSUME TypedInv, CacheInv,
         \/ MainLoop \/ World
         \/ \E k \in Tasks : Spawn(k) \/ \E s \in Settings : ChangeSettings(k, s)
  PROVE  CacheInv'
<1>1. UNCHANGED ListParts
  BY DEF MainLoop, World, WatchedManifest, DidOpen, DidClose, WatchedScript, ManifestChange, FileChange,
         Spawn, ChangeSettings, ListParts
<1>2. ASSUME NEW a \in Actors, ~Busy(a) PROVE ~Owes(a)
  BY <1>2 DEF Busy, Owes, Steps
<1>3. ASSUME NEW a \in Actors, ~Busy(a), NEW s, Goto(a, s), NEW b \in Actors, Owes(b) PROVE Owes(b)'
  <2>1. b # a
    BY <1>2, <1>3
  <2>. QED BY <1>3, <2>1 DEF Goto, Owes, TypedInv, TodoInv
<1>4. Main \in Actors /\ \A k \in Tasks : k \in Actors /\ k # Main
  BY DistinctAssumption DEF Actors
<1>5. ASSUME UNCHANGED todo, NEW b \in Actors, Owes(b) PROVE Owes(b)'
  BY <1>5 DEF Owes
<1>6. CASE MainLoop
  <2>1. UNCHANGED todo \/ (~Busy(Main) /\ \E s : Goto(Main, s))
    BY <1>6 DEF MainLoop, WatchedManifest, DidOpen, DidClose, WatchedScript, Handle
  <2>. QED BY <1>1, <1>3, <1>4, <1>5, <2>1, SameCache
<1>7. CASE World
  BY <1>1, <1>5, <1>7, SameCache DEF World, ManifestChange, FileChange
<1>8. ASSUME NEW k \in Tasks, Spawn(k) PROVE CacheInv'
  <2>1. Busy(Main) /\ Head(todo[Main]) # "forget" /\ ~Busy(k)
    BY <1>8 DEF Spawn, At
  <2>2. Steps(todo[Main]) = {Head(todo[Main])} \cup Steps(Tail(todo[Main]))
    BY <1>4, <2>1, TailOf DEF Busy, TypedInv, TodoInv
  <2>3. todo'[Main] = Tail(todo[Main]) /\ \A b \in Actors : b # Main /\ b # k => todo'[b] = todo[b]
    BY <1>4, <1>8 DEF Spawn, TypedInv, TodoInv
  <2>4. ASSUME NEW b \in Actors, Owes(b) PROVE Owes(b)'
    <3>1. b # k
      BY <1>2, <2>1, <2>4
    <3>. QED BY <2>1, <2>2, <2>3, <2>4, <3>1 DEF Owes
  <2>. QED BY <1>1, <2>4, SameCache
<1>9. ASSUME NEW k \in Tasks, NEW s \in Settings, ChangeSettings(k, s) PROVE CacheInv'
  BY <1>1, <1>3, <1>4, <1>9, SameCache DEF ChangeSettings
<1>. QED BY <1>6, <1>7, <1>8, <1>9

\* A request takes what there is now; it leaves behind what it took.
LEMMA RequestCache ==
  ASSUME TypedInv, CacheInv, NEW r \in Requests, TakeHandles(r) \/ Complete(r)
  PROVE  CacheInv'
<1>1. UNCHANGED <<db, todo>> /\ slips \in History /\ server \in Servers
  BY DEF TakeHandles, Complete, TypedInv, TypeOK
<1>2. CASE Owed
  BY <1>1, <1>2 DEF CacheInv, Owed, Owes
<1>3. CASE ~Owed
  <2>1. /\ Cache \notin slips.late => Current(server.cache)
        /\ \A q \in Requests \ slips.late : Current(requests[q])
    BY <1>3 DEF CacheInv
  <2>2. r # Cache
    BY DistinctAssumption
  <2>3. CASE TakeHandles(r)
    <3>1. requests' = [requests EXCEPT ![r] = Handles] /\ UNCHANGED server /\ slips'.late = slips.late \ {r}
      BY <1>1, <2>3 DEF TakeHandles, History
    <3>2. Handles.suppressed = db.suppressed /\ Handles.catalogs = db.catalogs
      BY DEF Handles
    <3>. QED BY <1>1, <2>1, <2>2, <3>1, <3>2 DEF CacheInv, Current, TypedInv, TypeOK
  <2>4. CASE Complete(r)
    <3>1. requests' = [requests EXCEPT ![r] = Unset]
      BY <2>4 DEF Complete
    <3>2. CASE Hits(requests[r])
      <4>1. UNCHANGED server /\ slips'.late = slips.late \ {r}
        BY <1>1, <2>4, <3>2 DEF Complete, History
      <4>. QED BY <1>1, <2>1, <2>2, <3>1, <4>1 DEF CacheInv, Current, TypedInv, TypeOK
    <3>3. CASE ~Hits(requests[r])
      <4>1. /\ server'.cache = requests[r]
            /\ slips'.late = IF r \in slips.late THEN (slips.late \ {r}) \cup {Cache}
                             ELSE slips.late \ {Cache}
        BY <1>1, <2>4, <3>3 DEF Complete, History, Servers
      <4>2. ASSUME NEW q \in Requests \ slips'.late PROVE Current(requests[q])' \/ requests'[q] = Unset
        BY <1>1, <2>1, <3>1, <4>1, <4>2, DistinctAssumption DEF Current, TypedInv, TypeOK
      <4>. QED BY <1>1, <2>1, <2>2, <4>1, <4>2 DEF CacheInv, Current
    <3>. QED BY <3>2, <3>3
  <2>. QED BY <2>3, <2>4
<1>. QED BY <1>2, <1>3

LEMMA NextCache == TypedInv /\ CacheInv /\ [Next]_vars => CacheInv'
<1>1. ASSUME TypedInv, CacheInv, NEW a \in Actors, Step(a) PROVE CacheInv'
  BY <1>1, DoneCache, ChooseCache, ChangeCache, ForgetCache DEF Step, Frame
<1>2. ASSUME TypedInv, CacheInv, Next PROVE CacheInv'
  BY <1>1, <1>2, BeginCache, RequestCache DEF Next
<1>3. ASSUME CacheInv, UNCHANGED vars PROVE CacheInv'
  BY <1>3 DEF vars, CacheInv, Current, Owed, Owes
<1>. QED BY <1>2, <1>3

\* Whatever settings, files, handlers, tasks and completion requests overlap,
\* a list taken from the cache at rest, because the index surfaces are the
\* same, is the list a request would build, unless a request that had taken
\* its snapshot before the catalogs changed has filled the cache since.
THEOREM CompletionCurrentHolds == Spec => []CompletionCurrent
<1>1. ASSUME Init PROVE CacheInv
  BY <1>1 DEF Init, NoSlips, CacheInv, Current
<1>2. ASSUME TypedInv, CacheInv, Settled, Hits(Handles), Cache \notin slips.late
      PROVE  server.cache = Handles
  <2>1. \A a \in Actors : ~Owes(a)
    BY <1>2 DEF Settled, Quiet, Busy, Owes, Steps
  <2>2. server.cache # Unset /\ server.cache.ws = Handles.ws /\ server.cache.base = Handles.base
    BY <1>2 DEF Hits
  <2>3. server.cache.suppressed = db.suppressed /\ server.cache.catalogs = db.catalogs
    BY <1>2, <2>1, <2>2 DEF CacheInv, Owed, Current
  <2>4. server.cache \in Lists
    BY <1>2, <2>2 DEF TypedInv, TypeOK, Servers
  <2>. QED BY <2>2, <2>3, <2>4 DEF Handles, Lists
<1>3. TypedInv /\ CacheInv => CompletionCurrent
  BY <1>2 DEF CompletionCurrent
<1>. QED BY <1>1, <1>3, InitTyped, NextTyped, NextCache, PTL DEF Spec
=============================================================================
