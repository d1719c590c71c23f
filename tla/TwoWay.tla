--------------------------------- MODULE TwoWay ---------------------------------
(***************************************************************************)
(* One record with a mapping that moves both ways, changed by people on    *)
(* both sides.  A change in ERPNext sends a webhook with the document; its *)
(* application is an ordinary write here, whose event pushes the record    *)
(* back unless the push is seen to be an echo.  A push is an ordinary      *)
(* write there, whose webhook is dropped as this store's own.              *)
(*                                                                         *)
(* A value is the number of the edit that made it.  In half of the         *)
(* behaviours (inOrder) webhooks come in the order they were sent and one  *)
(* push of the record runs at a time; in the others neither holds.  No     *)
(* call fails (OutboundPush and CatalogueInbound model that), the record   *)
(* is selected, and the mapping does not skip unchanged payloads.          *)
(***************************************************************************)
EXTENDS Naturals, Sequences

CONSTANTS
    Pushers,   \* pushes that can be under way at once
    MaxEdits   \* bound: edits by people

ASSUME EditsAreBounded == MaxEdits \in Nat

VARIABLES
    inOrder,
    here, there,  \* the record's value in the store and in ERPNext
    emitted,      \* events of the store whose push has not begun
    sent,         \* webhooks not taken up: the value each carries and who wrote it
    applying,     \* the webhook in hand
    pusher,       \* per push: how far it is, and the record it read
    recent,       \* has an inbound row of the record succeeded within the echo window?
    edits

twoWayVars == <<inOrder, here, there, emitted, sent, applying, pusher, recent, edits>>

NoHook == [pc |-> "off", val |-> 0]
NoPush == [pc |-> "off", val |-> 0]

TwoWayTypes ==
    /\ inOrder \in BOOLEAN /\ recent \in BOOLEAN
    /\ here \in 0..edits /\ there \in 0..edits
    /\ emitted \in Nat
    /\ sent \in Seq([val: 0..edits, by: {"person", "store"}])
    /\ applying \in [pc: {"off", "write", "done"}, val: 0..edits]
    /\ pusher \in [Pushers -> [pc: {"off", "recent", "compare", "put"}, val: 0..edits]]
    /\ edits \in 0..MaxEdits

TwoWayInit ==
    /\ inOrder \in BOOLEAN
    /\ here = 0 /\ there = 0 /\ emitted = 0 /\ sent = <<>>
    /\ applying = NoHook /\ pusher = [p \in Pushers |-> NoPush]
    /\ recent = FALSE /\ edits = 0

-----------------------------------------------------------------------------
(* People *)

EditHere ==
    /\ edits < MaxEdits /\ edits' = edits + 1
    /\ here' = edits + 1 /\ emitted' = emitted + 1
    /\ UNCHANGED <<inOrder, there, sent, applying, pusher, recent>>

Sends(v, who) == sent' = Append(sent, [val |-> v, by |-> who])

EditThere ==
    /\ edits < MaxEdits /\ edits' = edits + 1
    /\ there' = edits + 1 /\ Sends(edits + 1, "person")
    /\ UNCHANGED <<inOrder, here, emitted, applying, pusher, recent>>

-----------------------------------------------------------------------------
(* ERPNext -> store: applyFrappeEvent *)

\* Fault: who wrote the document last is not asked.
NobodysWrite(hook) == FALSE

\* isOwnWrite: the API user wrote the document last.
OwnWrite(hook) == hook.by = "store"

Without(s, i) == SubSeq(s, 1, i - 1) \o SubSeq(s, i + 1, Len(s))

TakeHook(i) ==
    /\ applying.pc = "off"
    /\ i \in DOMAIN sent /\ (inOrder => i = 1)
    /\ sent' = Without(sent, i)
    /\ applying' = IF OwnWrite(sent[i]) THEN NoHook ELSE [pc |-> "write", val |-> sent[i].val]
    /\ UNCHANGED <<inOrder, here, there, emitted, pusher, recent, edits>>

\* The store's write emits its event before the row says success.
ApplyHook ==
    /\ applying.pc = "write"
    /\ here' = applying.val /\ emitted' = emitted + 1
    /\ applying' = [applying EXCEPT !.pc = "done"]
    /\ UNCHANGED <<inOrder, there, sent, pusher, recent, edits>>

HookDone ==
    /\ applying.pc = "done" /\ applying' = NoHook
    /\ recent' = TRUE
    /\ UNCHANGED <<inOrder, here, there, emitted, sent, pusher, edits>>

\* ECHO_WINDOW_MS has gone by.
WindowPasses ==
    /\ recent /\ recent' = FALSE
    /\ UNCHANGED <<inOrder, here, there, emitted, sent, applying, pusher, edits>>

-----------------------------------------------------------------------------
(* Store -> ERPNext: pushViaMapping, pushGenericDoc *)

Pushes(p, pc, v) == pusher' = [pusher EXCEPT ![p] = [pc |-> pc, val |-> v]]

\* The subscriber reads the record as it is by now.
BeginPush(p) ==
    /\ emitted > 0 /\ emitted' = emitted - 1
    /\ pusher[p].pc = "off" /\ (inOrder => \A q \in Pushers : pusher[q].pc = "off")
    /\ Pushes(p, "recent", here)
    /\ UNCHANGED <<inOrder, here, there, sent, applying, recent, edits>>

\* recentInboundEcho
AskRecent(p) ==
    /\ pusher[p].pc = "recent"
    /\ Pushes(p, IF recent THEN "compare" ELSE "put", pusher[p].val)
    /\ UNCHANGED <<inOrder, here, there, emitted, sent, applying, recent, edits>>

\* Fault: time alone tells an echo.
NeverChanges(v) == FALSE

\* pushChangesRemote: would the push change the document?
Changes(v) == v # there

Compare(p) ==
    /\ pusher[p].pc = "compare"
    /\ IF Changes(pusher[p].val) THEN Pushes(p, "put", pusher[p].val) ELSE Pushes(p, "off", 0)
    /\ UNCHANGED <<inOrder, here, there, emitted, sent, applying, recent, edits>>

Put(p) ==
    /\ pusher[p].pc = "put"
    /\ there' = pusher[p].val /\ Sends(pusher[p].val, "store")
    /\ Pushes(p, "off", 0)
    /\ UNCHANGED <<inOrder, here, emitted, applying, recent, edits>>

-----------------------------------------------------------------------------
PushStep(p) == BeginPush(p) \/ AskRecent(p) \/ Compare(p) \/ Put(p)
HookStep == ApplyHook \/ HookDone \/ \E i \in DOMAIN sent : TakeHook(i)

TwoWayNext ==
    \/ EditHere \/ EditThere \/ WindowPasses \/ HookStep
    \/ \E p \in Pushers : PushStep(p)

TwoWaySpec == TwoWayInit /\ [][TwoWayNext]_twoWayVars

-----------------------------------------------------------------------------
(* Properties *)

Quiet == emitted = 0 /\ sent = <<>> /\ applying.pc = "off" /\ \A p \in Pushers : pusher[p].pc = "off"

\* A change never bounces between the two for ever: when people stop, so do the
\* pushes and the webhooks, in whatever order they come and go.  With webhooks in order
\* and one push of a record at a time, both sides then show the same value: an echo is
\* dropped, and a person's edit inside the echo window is not.
EndsInStep == <>[](Quiet /\ (inOrder => here = there))
=============================================================================
