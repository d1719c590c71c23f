------------------------------- MODULE MappingGate -------------------------------
(***************************************************************************)
(* One sync: the mapping of one Medusa entity to one DocType, saved,       *)
(* rehearsed, switched on and off, folded, reseeded and deleted from the   *)
(* admin's tabs.  "A mapping goes live only after somebody HERE has tried  *)
(* it": the gate compares the fingerprint of what is being switched on     *)
(* with that of the last rehearsal that passed.  The job that pulls then   *)
(* asks whether ERPNext still has the fields it names, and switches it off *)
(* when one is gone.                                                       *)
(*                                                                         *)
(* A mapping is abstracted to what its fingerprint is taken of: a          *)
(* direction and the field pairs.  A save that ERPNext sends (from_erpnext)*)
(* has no caller and is left out.  A save says whether the mapping is on,  *)
(* as every form of the admin does: one that does not say passes the gate  *)
(* and is written as on.  The version, which counts saves, decides nothing *)
(* here and is left out.                                                   *)
(***************************************************************************)
EXTENDS Integers, FiniteSets

CONSTANTS
    Tabs,           \* the admin's open tabs, each doing one thing at a time
    PushNeeds,      \* field pairs without which ERPNext refuses a document
    PullNeeds,      \* field pairs without which the store makes no record
    OtherPairs,     \* pairs nobody needs
    Shipped,        \* what the shipped default of this pair does
    MaxSaves,       \* bound on saves, folds, seeds and deletions of the row
    MaxRehearsals,  \* bound on dry runs
    MaxDriftChecks  \* bound on drift checks

Pairs == PushNeeds \cup PullNeeds \cup OtherPairs
Ways == {"push", "pull", "both"}
Doings == [way : Ways, pairs : SUBSET Pairs]
NoDoing == [way |-> "none", pairs |-> {}]

ASSUME GateAssumption ==
    Shipped \in Doings /\ {MaxSaves, MaxRehearsals, MaxDriftChecks} \subseteq Nat

VARIABLES
    mapping,  \* the row: there, on, what it does, what was tested, the attention it
              \* waits for
    listed,   \* Settings: its DocType is under selection
    tab,      \* what each tab is in the middle of
    check,    \* the drift check: the row as it read it
    tried,    \* history: what passed a rehearsal, in some direction
    mistaken, \* history: what was signed as rehearsed when something else had been
    used      \* saves, rehearsals and drift checks so far

gateVars == <<mapping, listed, tab, check, tried, mistaken, used>>

NoMapping == [there |-> FALSE, on |-> FALSE, does |-> NoDoing, tested |-> NoDoing,
              flagged |-> FALSE]
NoCheck == [asks |-> FALSE, flagged |-> FALSE]
IdleTab == [doing |-> "nothing", next |-> NoDoing, on |-> FALSE, sawOn |-> FALSE,
            passed |-> FALSE, leg |-> "none", both |-> FALSE, pushed |-> FALSE]

GateInit ==
    /\ mapping = NoMapping /\ listed = FALSE
    /\ tab = [t \in Tabs |-> IdleTab] /\ check = NoCheck
    /\ tried = {} /\ mistaken = {}
    /\ used = [saves |-> 0, rehearsals |-> 0, checks |-> 0]

-----------------------------------------------------------------------------
(* Saving. *)

\* deriveSyncDoctypes: a mapping with a pull leg puts its DocType under selection.
Selects(row) == row.there /\ row.does.way \in {"pull", "both"}

\* syncSelectionFromMappings, which every write of a mapping ends with.  (One step with
\* it: two writes that overlap may leave the list with what the first one said.)
Relist == listed' = Selects(mapping')

\* Fault: a rehearsal stays good whatever is edited after it.
TestedAtAll(next) == mapping.tested # NoDoing

\* tested_signature = signatureOf(next): the very thing that is to run was tried.
Tested(next) == mapping.tested = next

\* mayEnable, of the row as the save finds it.
MayEnable(next, on) == ~on \/ mapping.on \/ Tested(next)

Saves == used.saves < MaxSaves /\ used' = [used EXCEPT !.saves = @ + 1]

\* A save of the mapping under its id (the form, the switch on the list, a reseed): the
\* row is looked up and the gate asked.
StartSave(t, next, on) ==
    /\ tab[t].doing = "nothing" /\ mapping.there /\ Saves
    /\ MayEnable(next, on)
    /\ tab' = [tab EXCEPT ![t] = [IdleTab EXCEPT !.doing = "saving", !.next = next, !.on = on,
                                                 !.sawOn = mapping.on]]
    /\ UNCHANGED <<mapping, listed, check, tried, mistaken>>

\* What was looked up is written, whatever was written since.  Switching it on settles
\* what it waited for.
WriteSave(t) ==
    /\ tab[t].doing = "saving"
    /\ mapping' = [mapping EXCEPT !.on = tab[t].on, !.does = tab[t].next,
                                  !.flagged = @ /\ ~tab[t].on]
    /\ Relist
    /\ tab' = [tab EXCEPT ![t] = IdleTab]
    /\ UNCHANGED <<check, tried, mistaken, used>>

\* The pair's first save: nothing that was never tried is switched on.
Create(next) ==
    /\ ~mapping.there
    /\ mapping' = [NoMapping EXCEPT !.there = TRUE, !.does = next]
    /\ Relist
    /\ UNCHANGED <<tab, check, tried, mistaken, used>>

\* mergeDirection, mergeFieldPairs.
Folded(a, b) == [way |-> IF a.way = b.way THEN a.way ELSE "both", pairs |-> a.pairs \cup b.pairs]

\* The guided setup describes the same sync again: the row of the pair is looked up...
StartFold(t, next) ==
    /\ tab[t].doing = "nothing" /\ mapping.there /\ Saves
    /\ tab' = [tab EXCEPT ![t] = [IdleTab EXCEPT !.doing = "folding", !.on = mapping.on,
                                     !.sawOn = mapping.on,
                                     !.next = Folded(mapping.does, next)]]
    /\ UNCHANGED <<mapping, listed, check, tried, mistaken>>

\* ...and written with the switch it had and the new pairs folded into those it had,
\* whatever was written since.  A flag stays.
WriteFold(t) ==
    /\ tab[t].doing = "folding"
    /\ mapping' = [mapping EXCEPT !.on = tab[t].on, !.does = tab[t].next]
    /\ Relist
    /\ tab' = [tab EXCEPT ![t] = IdleTab]
    /\ UNCHANGED <<check, tried, mistaken, used>>

\* seedCanonicalMappings saves the shipped default over the row, switched on.
Seed(t) == StartSave(t, Shipped, TRUE)

\* The saves, folds, rehearsals and the drift check under way find no row any more.
Delete ==
    /\ mapping.there /\ Saves
    /\ mapping' = NoMapping
    /\ Relist
    /\ tab' = [t \in Tabs |-> IdleTab] /\ check' = NoCheck
    /\ UNCHANGED <<tried, mistaken>>

-----------------------------------------------------------------------------
(* Rehearsing. *)

\* unmetRequired: a rehearsal passes when nothing the receiving side demands is left
\* out; where the DocType cannot be described, nothing is demanded.
Passes(does, leg, described) ==
    /\ does.pairs # {}
    /\ described => (IF leg = "push" THEN PushNeeds ELSE PullNeeds) \subseteq does.pairs

\* dryRunPush, or dryRunPull of a mapping that only pulls: the mapping is read.
Rehearse(t, described) ==
    /\ tab[t].doing = "nothing" /\ mapping.there
    /\ used.rehearsals < MaxRehearsals /\ used' = [used EXCEPT !.rehearsals = @ + 1]
    /\ LET leg == IF mapping.does.way = "pull" THEN "pull" ELSE "push"
       IN tab' = [tab EXCEPT ![t] = [IdleTab EXCEPT !.doing = "rehearsed", !.next = mapping.does,
                                       !.passed = Passes(mapping.does, leg, described), !.leg = leg,
                                       !.both = (mapping.does.way = "both")]]
    /\ UNCHANGED <<mapping, listed, check, tried, mistaken>>

\* recordMappingTest: the row as it is now is signed for, whatever was looked at.
Recorded(passed, looked) ==
    /\ mapping' = [mapping EXCEPT !.tested = IF passed THEN mapping.does ELSE NoDoing]
    /\ mistaken' = IF passed /\ mapping.does # looked THEN mistaken \cup {mapping.does}
                   ELSE mistaken

RecordTest(t) ==
    /\ tab[t].doing = "rehearsed"
    /\ Recorded(tab[t].passed, tab[t].next)
    /\ tried' = IF tab[t].passed THEN tried \cup {tab[t].next} ELSE tried
    /\ tab' = [tab EXCEPT
                  ![t] = IF ~tab[t].both THEN IdleTab
                         ELSE [tab[t] EXCEPT !.doing = IF tab[t].leg = "push" THEN "turning"
                                                       ELSE "summing up"]]
    /\ UNCHANGED <<listed, check, used>>

\* dryRunPull, the second leg of a mapping that goes both ways.
RehearsePull(t, described) ==
    /\ tab[t].doing = "turning"
    /\ tab' = [tab EXCEPT ![t].doing = "rehearsed", ![t].leg = "pull", ![t].next = mapping.does,
                          ![t].passed = Passes(mapping.does, "pull", described),
                          ![t].pushed = tab[t].passed]
    /\ UNCHANGED <<mapping, listed, check, tried, mistaken, used>>

\* dryRun of a mapping that goes both ways passes when both legs did.
SumUp(t) ==
    /\ tab[t].doing = "summing up"
    /\ Recorded(tab[t].passed /\ tab[t].pushed, tab[t].next)
    /\ tab' = [tab EXCEPT ![t] = IdleTab]
    /\ UNCHANGED <<listed, check, tried, used>>

\* A rehearsal comes to nothing: the record lacks what a pair requires, or an answer
\* does not come.  What was recorded so far stays.
Abandon(t) ==
    /\ tab[t].doing \in {"rehearsed", "turning"}
    /\ tab' = [tab EXCEPT ![t] = IdleTab]
    /\ UNCHANGED <<mapping, listed, check, tried, mistaken, used>>

-----------------------------------------------------------------------------
(* The drift check. *)

\* checkMappingDrift: a mapping that is on is read, and ERPNext asked for its fields.
StartCheck ==
    /\ ~check.asks /\ mapping.there /\ mapping.on /\ mapping.does.pairs # {}
    /\ used.checks < MaxDriftChecks /\ used' = [used EXCEPT !.checks = @ + 1]
    /\ check' = [asks |-> TRUE, flagged |-> mapping.flagged]
    /\ UNCHANGED <<mapping, listed, tab, tried, mistaken>>

\* A field is gone: the mapping is switched off and flagged, whatever was saved since.
Gone ==
    mapping' = [mapping EXCEPT !.on = FALSE, !.flagged = TRUE]

\* All are there: a flag that was read is taken off.
AllThere == mapping' = IF check.flagged THEN [mapping EXCEPT !.flagged = FALSE] ELSE mapping

EndCheck ==
    /\ check.asks
    /\ \/ Gone \/ AllThere
       \/ UNCHANGED mapping   \* ERPNext did not say
    /\ check' = NoCheck
    /\ UNCHANGED <<listed, tab, tried, mistaken, used>>

\* The process stops, and with it every tab's request and the job.
GateCrash ==
    /\ check.asks \/ \E t \in Tabs : tab[t].doing # "nothing"
    /\ tab' = [t \in Tabs |-> IdleTab] /\ check' = NoCheck
    /\ UNCHANGED <<mapping, listed, tried, mistaken, used>>

TabStep(t) ==
    \/ \E next \in Doings, on \in BOOLEAN : StartSave(t, next, on)
    \/ \E next \in Doings : StartFold(t, next)
    \/ WriteSave(t) \/ WriteFold(t) \/ Seed(t)
    \/ \E described \in BOOLEAN : Rehearse(t, described) \/ RehearsePull(t, described)
    \/ RecordTest(t) \/ SumUp(t) \/ Abandon(t)

GateNext ==
    \/ \E t \in Tabs : TabStep(t)
    \/ \E next \in Doings : Create(next)
    \/ Delete \/ StartCheck \/ EndCheck \/ GateCrash

GateSpec == GateInit /\ [][GateNext]_gateVars

-----------------------------------------------------------------------------
MappingRows == [there : BOOLEAN, on : BOOLEAN, does : Doings \cup {NoDoing},
                tested : Doings \cup {NoDoing}, flagged : BOOLEAN]
TabStates == [doing : {"nothing", "saving", "folding", "rehearsed", "turning", "summing up"},
              next : Doings \cup {NoDoing}, on : BOOLEAN, sawOn : BOOLEAN, passed : BOOLEAN,
              leg : {"none", "push", "pull"}, both : BOOLEAN, pushed : BOOLEAN]
Checks == [asks : BOOLEAN, flagged : BOOLEAN]

GateTypes ==
    /\ mapping \in MappingRows /\ listed \in BOOLEAN
    /\ tab \in [Tabs -> TabStates]
    /\ check \in Checks
    /\ tried \subseteq Doings /\ mistaken \subseteq Doings

\* A mapping goes live only as somebody rehearsed it here and saw it pass: no edit after
\* the rehearsal, reseed, deletion, restart or second tab lets something untried go live.
\* Two ways remain, both of a write by somebody else in between: what was saved while a
\* rehearsal of the mapping waited for ERPNext was signed in its stead, and a save or a
\* fold found the mapping running and writes the switch back that has been taken off.
LiveWasTried ==
    [][~mapping.on /\ mapping'.on =>
         \/ mapping'.does \in tried \cup mistaken
         \/ \E t \in Tabs : tab[t].doing \in {"saving", "folding"} /\ tab[t].sawOn]_gateVars

\* A mapping flagged because ERPNext lost a field of it is off, and the drift check, which
\* reads those that are on, never takes its own flag off: unless a fold that found it
\* running before the flag was set switches it on again.
FlaggedIsOff ==
    [][mapping'.flagged /\ mapping'.on =>
         \/ mapping.flagged /\ mapping.on
         \/ \E t \in Tabs : tab[t].doing = "folding" /\ tab[t].sawOn]_gateVars
=============================================================================
