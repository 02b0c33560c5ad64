--------------------------- MODULE SemanticTokens ---------------------------
(***************************************************************************)
(* Semantic tokens of one document: computed_semantic_tokens and the full  *)
(* and delta handlers (queries/semantic_tokens.rs), the cache they share   *)
(* (semantic_tokens_cache.rs), the encoding (semantic_tokens/mod.rs), and  *)
(* what did_close does to the cache, beside the edit writer and publishes  *)
(* of other files.  Requests run on their own threads, and one that the    *)
(* client has given up on runs to its end.                                 *)
(*                                                                         *)
(* A text is an opaque value.  Which tokens it has depends on the symbols  *)
(* of other files too, here the value of "world".                          *)
(***************************************************************************)
EXTENDS Integers, Sequences, FiniteSetsExt

CONSTANTS
  Texts,     \* texts of the document
  Worlds,    \* what other files define
  Raw,       \* Raw[t][w]: the tokens of t, in the order of the walk
  Requests,  \* requests the server works on at one time
  None,      \* no document, no entry, no request, no reply
  MaxEdits   \* bound on edits, publishes of other files, and reopenings

(* Line, start, length and type.                                           *)
Token == Nat \X Nat \X Nat \X STRING

ASSUME TokenAssumption ==
  /\ Raw \in [Texts -> [Worlds -> Seq(Token)]]
  /\ MaxEdits \in Nat

VARIABLES
  doc,       \* the document in the published compilation
  world,     \* the rest of it
  pending,   \* the queued edit
  version,   \* state_version
  cache,     \* semantic_tokens_cache[uri]
  nextId,    \* semantic_tokens_result_id
  request,   \* request[k]: where request k is
  shown,     \* what the client shows, under the result id it got it with
  waiting,   \* the request whose reply the client takes
  due,       \* the client was told to ask again
  closing,   \* did_close has published and not yet dropped the cache entry
  issued,    \* issued[i]: the tokens result id i was given for
  edits      \* edits and publishes so far

tokenVars == <<doc, world, pending, version, cache, nextId, request, shown, waiting, due, closing, issued, edits>>

Idle == [pc |-> "idle"]

-----------------------------------------------------------------------------
(* Encoding and deltas.  A token is <<line, start, length, type>>.         *)

Encode(tokens) ==
  [i \in 1 .. Len(tokens) |->
     LET t == tokens[i]
         p == IF i = 1 THEN <<0, 0>> ELSE tokens[i - 1]
     IN <<t[1] - p[1], IF t[1] = p[1] THEN t[2] - p[2] ELSE t[2], t[3], t[4]>>]

Shorter(a, b) == Min({Len(a), Len(b)})

(* The longest common prefix, and the longest suffix beside it.            *)
Prefix(prev, cur) ==
  Max({n \in 0 .. Shorter(prev, cur) : \A i \in 1 .. n : prev[i] = cur[i]})

Suffix(prev, cur) ==
  Max({n \in 0 .. Shorter(prev, cur) - Prefix(prev, cur) :
         \A i \in 0 .. n - 1 : prev[Len(prev) - i] = cur[Len(cur) - i]})

(* semantic_token_edits: none, or one.                                     *)
SemanticTokenEdits(prev, cur) ==
  LET p == Prefix(prev, cur)
      s == Suffix(prev, cur)
  IN IF prev = cur THEN <<>>
     ELSE <<[start |-> p, delete |-> Len(prev) - p - s, data |-> SubSeq(cur, p + 1, Len(cur) - s)]>>

(* The client's side of a delta, and of the encoding.                      *)
Apply(data, delta) ==
  IF delta = <<>> THEN data
  ELSE LET e == delta[1]
       IN SubSeq(data, 1, e.start) \o e.data \o SubSeq(data, e.start + e.delete + 1, Len(data))

Decode(data) ==
  LET at[i \in 0 .. Len(data)] ==
        IF i = 0 THEN <<0, 0>>
        ELSE <<at[i - 1][1] + data[i][1],
               IF data[i][1] = 0 THEN at[i - 1][2] + data[i][2] ELSE data[i][2]>>
  IN [i \in 1 .. Len(data) |-> at[i] \o SubSeq(data[i], 3, 4)]

-----------------------------------------------------------------------------
TokenInit ==
  /\ doc \in [text : Texts, version : {0}]
  /\ world \in Worlds
  /\ pending = None
  /\ version = 0
  /\ cache = None
  /\ nextId = 0
  /\ request = [k \in Requests |-> Idle]
  /\ shown = None
  /\ waiting = None
  /\ due = TRUE
  /\ closing = FALSE
  /\ issued = <<>>
  /\ edits = 0

rest == <<shown, waiting, issued, edits>>

(* An edit is queued; its version is above every version before.           *)
Edit(t) ==
  /\ edits < MaxEdits
  /\ doc # None /\ doc.text # t
  /\ edits' = edits + 1
  /\ pending' = [text |-> t, version |-> edits + 1]
  /\ due' = TRUE
  /\ UNCHANGED <<doc, world, version, cache, nextId, request, shown, waiting, issued, closing>>

(* The edit writer publishes, and removes the entry later.  Every bump of  *)
(* state_version ends in a refresh of the client.                          *)
WriterPublish ==
  /\ pending # None /\ doc # None /\ doc # pending
  /\ doc' = pending
  /\ version' = version + 1
  /\ due' = TRUE
  /\ UNCHANGED <<world, pending, cache, nextId, request, rest, closing>>

WriterRemove ==
  /\ pending # None /\ doc \in {pending, None}
  /\ pending' = None
  /\ UNCHANGED <<doc, world, version, cache, nextId, request, due, rest, closing>>

PublishOther(w) ==
  /\ edits < MaxEdits
  /\ w # world
  /\ edits' = edits + 1
  /\ world' = w
  /\ version' = version + 1
  /\ due' = TRUE
  /\ UNCHANGED <<doc, pending, cache, nextId, request, shown, waiting, issued, closing>>

(* did_close publishes, and drops the cache entry after it; the next       *)
(* notification waits for both.  The client forgets what it showed.  A     *)
(* close that leaves an edit in the queue is TextSync's subject.           *)
Close ==
  /\ doc # None /\ pending = None
  /\ edits < MaxEdits
  /\ doc' = None
  /\ version' = version + 1
  /\ shown' = None /\ waiting' = None
  /\ due' = FALSE
  /\ edits' = edits + 1
  /\ closing' = TRUE
  /\ UNCHANGED <<world, pending, cache, nextId, request, issued>>

CloseForget ==
  /\ closing
  /\ closing' = FALSE
  /\ cache' = None
  /\ UNCHANGED <<doc, world, pending, version, nextId, request, due, rest>>

Reopen(t) ==
  /\ doc = None /\ ~closing
  /\ doc' = [text |-> t, version |-> edits]
  /\ version' = version + 1
  /\ due' = TRUE
  /\ UNCHANGED <<world, pending, cache, nextId, request, rest, closing>>

-----------------------------------------------------------------------------
(* Requests.                                                               *)

(* The client asks for everything, or for the change since what it shows,  *)
(* and takes no reply to an earlier request from then on.                  *)
Ask(k, base) ==
  /\ due /\ doc # None
  /\ request[k] = Idle
  /\ request' = [request EXCEPT ![k] = [pc |-> "snapshot", base |-> base]]
  /\ waiting' = k
  /\ due' = FALSE
  /\ UNCHANGED <<doc, world, pending, version, cache, nextId, shown, issued, edits, closing>>

At(k, pc)      == request[k].pc = pc
Goto(k, state) == request' = [request EXCEPT ![k] = state]
Finish(k)      == Goto(k, Idle) /\ waiting' = IF waiting = k THEN None ELSE waiting

Snapshot(k) ==
  /\ At(k, "snapshot")
  /\ IF doc = None THEN Finish(k)
     ELSE /\ Goto(k, [pc |-> "queue", base |-> request[k].base, doc |-> doc, world |-> world])
          /\ UNCHANGED waiting
  /\ UNCHANGED <<doc, world, pending, version, cache, nextId, shown, due, issued, edits, closing>>

\* Variant: an entry the writer has published but not removed counts.
AheadOrSame(k) == pending # None /\ pending.version >= request[k].doc.version

(* pending_target_for: a queued edit above the snapshot.                   *)
Ahead(k) == pending # None /\ pending.version > request[k].doc.version

(* CONTENT_MODIFIED, or on with the version of now.                        *)
Queue(k) ==
  /\ At(k, "queue")
  /\ IF Ahead(k) THEN Finish(k)
     ELSE /\ Goto(k, [request[k] EXCEPT !.pc = "compute"])
          /\ UNCHANGED waiting
  /\ UNCHANGED <<doc, world, pending, version, cache, nextId, shown, due, issued, edits, closing>>

LoadVersion(k) ==
  /\ At(k, "compute")
  /\ Goto(k, [pc |-> "walk", base |-> request[k].base, version |-> version,
              data |-> Encode(Raw[request[k].doc.text][request[k].world])])
  /\ UNCHANGED <<doc, world, pending, version, cache, nextId, rest, due, closing>>

(* Between two declarations the walk gives up on a newer version; after    *)
(* the last one nothing is looked at.                                      *)
Walk(k) ==
  /\ At(k, "walk")
  /\ IF request[k].version # version THEN Finish(k) /\ UNCHANGED nextId
     ELSE /\ Goto(k, [pc |-> "store", base |-> request[k].base, data |-> request[k].data, id |-> nextId])
          /\ nextId' = nextId + 1
          /\ UNCHANGED waiting
  /\ issued' = IF request[k].version # version THEN issued ELSE Append(issued, request[k].data)
  /\ UNCHANGED <<doc, world, pending, version, cache, shown, due, edits, closing>>

\* Variant: the result id asked for is not compared.
KnownAny(k) == request[k].base # None /\ cache # None

(* The cache still holds what the client has.                              *)
Known(k) == request[k].base # None /\ cache # None /\ cache.id = request[k].base.id

(* Under the lock of the cache: a delta or everything, and the new entry.  *)
Store(k) ==
  /\ At(k, "store")
  /\ LET r == request[k]
     IN /\ cache' = [id |-> r.id, data |-> r.data]
        /\ Goto(k, [pc |-> "reply", base |-> r.base, id |-> r.id,
                    delta |-> Known(k),
                    data |-> IF Known(k) THEN SemanticTokenEdits(cache.data, r.data) ELSE r.data])
  /\ UNCHANGED <<doc, world, pending, version, nextId, rest, due, closing>>

Reply(k) ==
  /\ At(k, "reply")
  /\ LET r == request[k]
     IN shown' = IF waiting # k THEN shown
                 ELSE [id |-> r.id, data |-> IF r.delta THEN Apply(r.base.data, r.data) ELSE r.data]
  /\ Finish(k)
  /\ UNCHANGED <<doc, world, pending, version, cache, nextId, due, issued, edits, closing>>

Work(k) == Snapshot(k) \/ Queue(k) \/ LoadVersion(k) \/ Walk(k) \/ Store(k) \/ Reply(k)

AskAny == \E k \in Requests, base \in {None, shown} : Ask(k, base)

TokenNext ==
  \/ \E t \in Texts : Edit(t) \/ Reopen(t)
  \/ \E w \in Worlds : PublishOther(w)
  \/ WriterPublish \/ WriterRemove \/ Close \/ CloseForget
  \/ AskAny
  \/ \E k \in Requests : Work(k)

TokenSpec == TokenInit /\ [][TokenNext]_tokenVars

(* The writer and the requests run on threads that are scheduled, and the  *)
(* client asks when it is told to.                                         *)
TokenFairness ==
  /\ WF_tokenVars(WriterPublish) /\ WF_tokenVars(WriterRemove) /\ WF_tokenVars(AskAny)
  /\ \A k \in Requests : WF_tokenVars(Work(k))

-----------------------------------------------------------------------------
\* What the client shows under a result id are the tokens that id was given
\* for, however requests overlap, fail, or outlive a close of the document:
\* every delta fits the tokens it is applied to, and decodes to what the
\* walk collected (_semantic_tokens_full_delta, semantic_token_edits, encode).
DeltaFits ==
  shown # None => /\ shown.data = issued[shown.id + 1]
                  /\ \E t \in Texts, w \in Worlds : Decode(shown.data) = Raw[t][w]

\* Once the document and the others stay as they are, the client ends up
\* with the tokens of the text it has, or the document is closed
\* (computed_semantic_tokens, with the refresh of the bump before it).
TokensCatchUp ==
  <>[](doc # None => shown # None /\ Decode(shown.data) = Raw[doc.text][world])
=============================================================================
