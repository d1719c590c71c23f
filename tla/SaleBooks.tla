------------------------------- MODULE SaleBooks -------------------------------
(***************************************************************************)
(* What the push and the cancellation of an order promise ERPNext, without *)
(* events, rows, retries, links or the lock: one paper of a kind at a      *)
(* time, made, submitted and taken back on top of the one it stands on.  A *)
(* Sales Invoice stands on the Sales Order, a Payment Entry on the invoice.*)
(* A draft that is discarded may be made again; a paper that was submitted *)
(* is never discarded, and one that is cancelled never made again.         *)
(***************************************************************************)
CONSTANT Entries  \* the Payment Entries, one per captured payment

VARIABLE paper    \* per kind: "none", or the status of its one paper

Papers == {"SO", "SI"} \cup Entries

\* The papers that stand on one.
OnTopOf(x) == CASE x = "SO" -> {"SI"} [] x = "SI" -> Entries [] OTHER -> {}

BooksInit == paper = [x \in Papers |-> "none"]

Becomes(x, from, to) == paper[x] = from /\ paper' = [paper EXCEPT ![x] = to]

\* An invoice is drafted on any order that stands, an entry on a submitted invoice.
Make(x) ==
    /\ x = "SI" => paper["SO"] \in {"draft", "submitted"}
    /\ x \in Entries => paper["SI"] = "submitted"
    /\ Becomes(x, "none", "draft")

Submit(x) ==
    /\ \A y \in Papers : x \in OnTopOf(y) => paper[y] = "submitted"
    /\ Becomes(x, "draft", "submitted")

\* Nothing is taken back from under a paper that is booked, nor the order from under
\* the draft of its invoice.
Free(x) ==
    /\ \A y \in OnTopOf(x) : paper[y] # "submitted"
    /\ x = "SO" => paper["SI"] # "draft"

Discard(x) == Free(x) /\ Becomes(x, "draft", "none")
Cancel(x) == Free(x) /\ Becomes(x, "submitted", "cancelled")

BooksNext == \E x \in Papers : Make(x) \/ Submit(x) \/ Discard(x) \/ Cancel(x)

BooksSpec == BooksInit /\ [][BooksNext]_paper
=============================================================================
