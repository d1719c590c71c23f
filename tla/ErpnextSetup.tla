------------------------------ MODULE ErpnextSetup ------------------------------
(***************************************************************************)
(* "Set up ERPNext": the selection field, the webhooks signed with the     *)
(* store's secret, and the masters gateway settlements need, made over     *)
(* REST and made again whenever somebody presses the button.  ERPNext      *)
(* masks the secret when a webhook is read, so whether it is current is    *)
(* told by the fingerprint the last report kept.                           *)
(*                                                                         *)
(* One run at a time.  An artefact is read and written in one step: what   *)
(* happens to it between the two is as if it had happened before or after. *)
(***************************************************************************)
EXTENDS Integers, Sequences

CONSTANTS
    Webhooks,        \* the webhooks, in the order they are made
    OnSelection,     \* those whose condition reads the selection field
    MaxSettings,     \* bound on changes of the secret and of the public address
    MaxDeskEdits,    \* bound on what staff do to the artefacts in ERPNext
    MaxSetupFaults,  \* bound on refused calls, lost answers and crashes
    MaxRuns          \* bound on presses of the button

ASSUME SetupAssumption ==
    /\ Webhooks \in Seq({Webhooks[i] : i \in 1..Len(Webhooks)})
    /\ OnSelection \subseteq {Webhooks[i] : i \in 1..Len(Webhooks)}
    /\ \A i, j \in 1..Len(Webhooks) : Webhooks[i] = Webhooks[j] => i = j
    /\ {MaxSettings, MaxDeskEdits, MaxSetupFaults, MaxRuns} \subseteq Nat

VARIABLES
    desk,      \* ERPNext: the field, the webhooks and the masters
    config,    \* Settings: public address, secret (0 when there is none), last report
    setup,     \* the run under way
    stale,     \* history: webhooks to which something else was sent last than what the
               \* report's fingerprint was taken of
    disturbed, \* history: staff changed an artefact since the run began
    spent      \* settings, edits, faults and runs so far

setupVars == <<desk, config, setup, stale, disturbed, spent>>

Hooks == {Webhooks[i] : i \in 1..Len(Webhooks)}
Addresses == {1, 2}
Secrets == 1..MaxSettings + MaxRuns

\* What a webhook says, and the fingerprint of what would be sent: the hash of all of
\* it, the secret included.  A webhook that is not there, and no fingerprint, are Blank.
Said == [url : 0..2, secret : {0} \cup Secrets]
Blank == [url |-> 0, secret |-> 0]

NoRun == [step |-> "idle", todo |-> <<>>, want |-> Blank, previous |-> [h \in Hooks |-> Blank],
          print |-> [h \in Hooks |-> Blank], stale |-> {}, ok |-> TRUE, field |-> TRUE]

SetupInit ==
    /\ desk = [field |-> "none", hook |-> [h \in Hooks |-> Blank],
               account |-> FALSE, supplier |-> FALSE, item |-> FALSE]
    /\ config = [url |-> 1, secret |-> 0, print |-> [h \in Hooks |-> Blank]]
    /\ setup = NoRun
    /\ stale = {} /\ disturbed = FALSE
    /\ spent = [settings |-> 0, edits |-> 0, faults |-> 0, runs |-> 0, secrets |-> 0]

-----------------------------------------------------------------------------
(* Around a run. *)

\* Somebody saves another public address, or another secret - a new one, or one from
\* before - or clears it.
SaveAddress(u) ==
    /\ spent.settings < MaxSettings /\ u # config.url
    /\ config' = [config EXCEPT !.url = u]
    /\ spent' = [spent EXCEPT !.settings = @ + 1]
    /\ UNCHANGED <<desk, setup, stale, disturbed>>

SaveSecret(s) ==
    /\ spent.settings < MaxSettings /\ s # config.secret
    /\ s \in 0..spent.secrets + 1
    /\ config' = [config EXCEPT !.secret = s]
    /\ spent' = [spent EXCEPT !.settings = @ + 1, !.secrets = IF s > @ THEN s ELSE @]
    /\ UNCHANGED <<desk, setup, stale, disturbed>>

\* Staff delete or alter the field, delete a webhook or point it elsewhere.  (They
\* leave its secret alone: nothing would tell the store of that.)
DeskEdit ==
    /\ spent.edits < MaxDeskEdits
    /\ \/ \E f \in {"none", "drifted", "other type"} : desk' = [desk EXCEPT !.field = f]
       \/ \E h \in Hooks :
            /\ desk.hook[h] # Blank
            /\ \/ desk' = [desk EXCEPT !.hook[h] = Blank]
               \/ desk' = [desk EXCEPT !.hook[h].url = 0]
    /\ disturbed' = TRUE
    /\ spent' = [spent EXCEPT !.edits = @ + 1]
    /\ UNCHANGED <<config, setup, stale>>

\* The button: the settings are read, and a secret is made and saved when there is none.
Press ==
    /\ setup.step = "idle" /\ spent.runs < MaxRuns
    /\ LET secret == IF config.secret = 0 THEN spent.secrets + 1 ELSE config.secret
       IN /\ config' = [config EXCEPT !.secret = secret]
          /\ setup' = [NoRun EXCEPT !.step = "field", !.todo = Webhooks, !.previous = config.print,
                                    !.want = [url |-> config.url, secret |-> secret],
                                    !.stale = stale]
          /\ spent' = [spent EXCEPT !.runs = @ + 1,
                                    !.secrets = IF config.secret = 0 THEN @ + 1 ELSE @]
    /\ disturbed' = FALSE
    /\ UNCHANGED <<desk, stale>>

-----------------------------------------------------------------------------
(* The run. *)

\* What becomes of a call: answered, refused with nothing done (ERPNext cannot be
\* reached, or says no), or done with its answer lost.
Fates == {"done", "refused", "lost"}
Fate(f) ==
    /\ f # "done" => spent.faults < MaxSetupFaults
    /\ spent' = IF f = "done" THEN spent ELSE [spent EXCEPT !.faults = @ + 1]

\* ensureCustomField: a field of another type is an error, one that says the right
\* thing is left alone, any other is made or updated.
EnsureField(f) ==
    /\ setup.step = "field" /\ Fate(f)
    /\ LET good == f = "done" /\ desk.field # "other type"
       IN setup' = [setup EXCEPT !.step = "hooks", !.field = good, !.ok = @ /\ good]
    /\ desk' = IF f = "refused" \/ desk.field = "other type" THEN desk
               ELSE [desk EXCEPT !.field = "right"]
    /\ UNCHANGED <<config, stale, disturbed>>

\* Fault: a webhook that reads as it should is left alone.
CurrentAsRead(h) == desk.hook[h].url = setup.want.url

\* webhookMatches, blind to the secret, and the fingerprint the last report kept.
Current(h) == desk.hook[h].url = setup.want.url /\ setup.previous[h] = setup.want

\* A webhook under selection is not attempted when its field could not be made.
NotAttempted ==
    /\ setup.step = "hooks" /\ setup.todo # <<>>
    /\ Head(setup.todo) \in OnSelection /\ ~setup.field
    /\ setup' = [setup EXCEPT !.todo = Tail(@), !.ok = FALSE]
    /\ UNCHANGED <<desk, config, stale, disturbed, spent>>

\* ensureWebhook.  Its item carries the fingerprint whatever became of the call.
EnsureWebhook(f) ==
    /\ setup.step = "hooks" /\ setup.todo # <<>>
    /\ LET h == Head(setup.todo)
           writes == ~Current(h) /\ f # "refused"
       IN /\ h \in OnSelection => setup.field
          /\ Fate(f)
          /\ desk' = IF writes THEN [desk EXCEPT !.hook[h] = setup.want] ELSE desk
          /\ setup' = [setup EXCEPT !.todo = Tail(@), !.ok = @ /\ f = "done",
                                    !.print[h] = setup.want,
                                    !.stale = IF f # "done" /\ desk'.hook[h] # setup.want THEN @ \cup {h}
                                              ELSE IF f # "done" \/ writes THEN @ \ {h} ELSE @]
          /\ stale' = IF ~writes THEN stale
                      ELSE IF config.print[h] = setup.want THEN stale \ {h} ELSE stale \cup {h}
    /\ UNCHANGED <<config, disturbed>>

HooksDone ==
    /\ setup.step = "hooks" /\ setup.todo = <<>>
    /\ setup' = [setup EXCEPT !.step = "account"]
    /\ UNCHANGED <<desk, config, stale, disturbed, spent>>

\* ensureSettlementMasters: the expense account, each gateway's supplier and its
\* service item, made when missing; nothing that exists is changed.
EnsureMaster(m, next, f) ==
    /\ setup.step = m /\ Fate(f)
    /\ desk' = IF f = "refused" THEN desk ELSE [desk EXCEPT ![m] = TRUE]
    /\ setup' = [setup EXCEPT !.step = next, !.ok = @ /\ f = "done"]
    /\ UNCHANGED <<config, stale, disturbed>>

\* The report is saved when everything has been tried.
Report ==
    /\ setup.step = "report"
    /\ config' = [config EXCEPT !.print = setup.print]
    /\ stale' = setup.stale
    /\ setup' = NoRun
    /\ UNCHANGED <<desk, disturbed, spent>>

\* The process stops: the report of the run before stands.
SetupCrash ==
    /\ setup.step # "idle" /\ spent.faults < MaxSetupFaults
    /\ setup' = NoRun
    /\ spent' = [spent EXCEPT !.faults = @ + 1]
    /\ UNCHANGED <<desk, config, stale, disturbed>>

SetupStep ==
    \/ \E f \in Fates : EnsureField(f) \/ EnsureWebhook(f)
    \/ NotAttempted \/ HooksDone
    \/ \E f \in Fates : \/ EnsureMaster("account", "supplier", f)
                        \/ EnsureMaster("supplier", "item", f)
                        \/ EnsureMaster("item", "report", f)
    \/ Report

SetupNext ==
    \/ \E u \in Addresses : SaveAddress(u)
    \/ \E s \in {0} \cup Secrets : SaveSecret(s)
    \/ DeskEdit \/ Press \/ SetupStep \/ SetupCrash

SetupSpec == SetupInit /\ [][SetupNext]_setupVars

-----------------------------------------------------------------------------
SetupTypes ==
    /\ desk \in [field : {"none", "right", "drifted", "other type"}, hook : [Hooks -> Said],
                 account : BOOLEAN, supplier : BOOLEAN, item : BOOLEAN]
    /\ config \in [url : Addresses, secret : {0} \cup Secrets, print : [Hooks -> Said]]
    /\ setup.step \in {"idle", "field", "hooks", "account", "supplier", "item", "report"}
    /\ setup.want \in Said /\ setup.previous \in [Hooks -> Said] /\ setup.print \in [Hooks -> Said]
    /\ stale \subseteq Hooks /\ disturbed \in BOOLEAN

\* A run that has no error to report leaves ERPNext ready: the field is there, and every
\* webhook posts to the store's address and is signed with the secret the run read,
\* whatever was refused, lost, cut short or altered before.  Not so for a webhook that was
\* left alone because the report has the fingerprint of what would be sent, when something
\* else was sent last: by a call that failed, whose fingerprint was kept all the same, or
\* by a run that died before its report, after which the earlier secret was put back.
OkMeansReady ==
    setup.step = "report" /\ setup.ok /\ ~disturbed =>
        /\ desk.field = "right" /\ desk.account /\ desk.supplier /\ desk.item
        /\ \A h \in Hooks \ setup.stale : desk.hook[h] = setup.want
=============================================================================
