------------------------------- MODULE Mirror -------------------------------
(***************************************************************************)
(* What text synchronisation promises, without saying how.  The editor     *)
(* owns the text of every document; the server keeps a view of it.  The    *)
(* view may lag, and may skip texts, but whenever it moves it moves to the *)
(* text the editor has at that moment: an older text never comes back, and *)
(* a closed document never comes back.                                     *)
(***************************************************************************)
CONSTANTS Uris,    \* documents
          Texts,   \* texts an editor buffer can hold
          NoText   \* "not open"

VARIABLES client,  \* client[u]: the editor's text of u, NoText when closed
          view     \* view[u]: the text the server answers queries from

vars == <<client, view>>

TypeOK == /\ client \in [Uris -> Texts \cup {NoText}]
          /\ view \in [Uris -> Texts \cup {NoText}]

Init == /\ client = [u \in Uris |-> NoText]
        /\ view = client

\* The editor opens, edits or closes u.
Edit(u) == /\ \E t \in Texts \cup {NoText} : client' = [client EXCEPT ![u] = t]
           /\ UNCHANGED view

\* The server catches up with the editor on u.
CatchUp(u) == /\ view' = [view EXCEPT ![u] = client[u]]
              /\ UNCHANGED client

Next == \E u \in Uris : Edit(u) \/ CatchUp(u)

Spec == Init /\ [][Next]_vars

\* With fairness: a view that differs from the editor's text does not stay so.
FairSpec == Spec /\ \A u \in Uris : WF_vars(CatchUp(u))
=============================================================================
