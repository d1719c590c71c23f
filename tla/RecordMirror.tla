----------------------------- MODULE RecordMirror -----------------------------
(***************************************************************************)
(* What an outbound mapping promises, without events, rows, retries or     *)
(* links: each record of the store has one document in ERPNext, and one    *)
(* more at most for each time ERPNext did not say whether it has one.      *)
(* They show states the record has been in, and are only ever told newer   *)
(* ones.  When that happens is left open (see RowsSettle and               *)
(* ReachesErpnext in OutboundPush).                                        *)
(***************************************************************************)
EXTENDS Integers

CONSTANTS
    Mirrored,  \* records
    States     \* states, numbered in the order they are taken

VARIABLES
    history,   \* per record: the states it has been in
    shows,     \* per record: the state its document told last shows, 0 for none
    documents, \* per record: how many documents it has
    doubts     \* per record: how often it stayed open whether there is one

mirrorVars == <<history, shows, documents, doubts>>

MirrorInit ==
    /\ history = [r \in Mirrored |-> {}]
    /\ shows = [r \in Mirrored |-> 0]
    /\ documents = [r \in Mirrored |-> 0]
    /\ doubts = [r \in Mirrored |-> 0]

\* The record takes a state no record was in before.
Become(r, n) ==
    /\ \A q \in Mirrored : \A m \in history[q] : m < n
    /\ history' = [history EXCEPT ![r] = @ \cup {n}]
    /\ UNCHANGED <<shows, documents, doubts>>

\* ERPNext does not say whether the record has a document.
Doubt(r) ==
    /\ doubts' = [doubts EXCEPT ![r] = @ + 1]
    /\ UNCHANGED <<history, shows, documents>>

\* A document shows a state that is not older, ...
Tell(r, n) ==
    /\ n \in history[r] /\ n >= shows[r]
    /\ shows' = [shows EXCEPT ![r] = n]
    /\ UNCHANGED <<history, doubts>>

\* ... one that is there, or a first one, or one that a doubt let in.
Update(r, n) == documents[r] > 0 /\ Tell(r, n) /\ UNCHANGED documents
Create(r, n) ==
    /\ documents[r] <= doubts[r]
    /\ Tell(r, n)
    /\ documents' = [documents EXCEPT ![r] = @ + 1]

MirrorNext ==
    \E r \in Mirrored :
        Doubt(r) \/ \E n \in States : Become(r, n) \/ Update(r, n) \/ Create(r, n)

MirrorSpec == MirrorInit /\ [][MirrorNext]_mirrorVars
=============================================================================
