---------------------------- MODULE OperatorProofs -----------------------------
(*****************************************************************************)
(* What an operator can rely on: a setup run without an error leaves ERPNext *)
(* ready (ErpnextSetup), nothing goes live that was not tried (MappingGate), *)
(* and a field pair copied both ways settles (FieldMapping).                 *)
(*****************************************************************************)
EXTENDS ErpnextSetup, MappingGate, FieldMapping, TLAPS

-----------------------------------------------------------------------------
(***************************************************************************)
(* What is proved about ErpnextSetup for any webhooks, settings, edits in  *)
(* ERPNext, refused calls, lost answers and restarts: a run without an     *)
(* error leaves ERPNext ready (OkMeansReady).                              *)
(*                                                                         *)
(* The point is the secret.  ERPNext masks it, so a webhook that reads     *)
(* right is left alone if the last report kept the fingerprint of what     *)
(* would be sent.  That is enough because a webhook has the secret its     *)
(* fingerprint was taken of, or is listed as stale (SecretsKept).          *)
(***************************************************************************)

Say == [url : Nat, secret : Nat]
FieldLooks == {"none", "right", "drifted", "other type"}
RunSteps == {"idle", "field", "hooks", "account", "supplier", "item", "report"}
DeskState == [field : FieldLooks, hook : [Hooks -> Say],
              account : BOOLEAN, supplier : BOOLEAN, item : BOOLEAN]
ConfigState == [url : Addresses, secret : Nat, print : [Hooks -> Say]]
SetupState == [step : RunSteps, todo : Seq(Hooks), want : Say, previous : [Hooks -> Say],
               print : [Hooks -> Say], stale : SUBSET Hooks, ok : BOOLEAN, field : BOOLEAN]
SpentState == [settings : Nat, edits : Nat, faults : Nat, runs : Nat, secrets : Nat]

\* Types, without the bounds on secrets.
SetupShapes ==
    /\ desk \in DeskState /\ config \in ConfigState /\ setup \in SetupState
    /\ stale \subseteq Hooks /\ disturbed \in BOOLEAN /\ spent \in SpentState

\* A webhook has the secret that was fingerprinted, but where something else was sent last
\* (un), where it is gone, and where there is no fingerprint.
AsSent(hook, prints, un) ==
    \A h \in Hooks \ un :
        hook[h] = Blank \/ prints[h] = Blank \/ hook[h].secret = prints[h].secret

SecretsKept ==
    /\ AsSent(desk.hook, config.print, stale)
    /\ setup.step # "idle" =>
          /\ setup.want.url # 0 /\ setup.previous = config.print
          /\ AsSent(desk.hook, setup.print, setup.stale)
          /\ \A h \in Hooks : setup.print[h] \in {Blank, setup.want}
          /\ \A h \in Hooks \ setup.stale : setup.print[h] = Blank => h \notin stale

\* No secret is newer than s.
NoneAbove(says, s) == \A h \in Hooks : says[h].secret <= s

NoneNewer ==
    /\ config.secret <= spent.secrets
    /\ NoneAbove(desk.hook, spent.secrets) /\ NoneAbove(config.print, spent.secrets)
    /\ setup.step # "idle" =>
          setup.want.secret <= spent.secrets /\ NoneAbove(setup.print, spent.secrets)

\* The webhooks a run has dealt with.
Dealt(todo) == {h \in Hooks : \A i \in 1..Len(todo) : todo[i] # h}

\* What a run without an error so far has made.
Masters == {"account", "supplier", "item"}
MadeTill(step) ==
    CASE step \in {"idle", "field", "hooks", "account"} -> {}
      [] step = "supplier" -> {"account"}
      [] step = "item" -> {"account", "supplier"}
      [] step = "report" -> Masters

GoesWell ==
    /\ setup.step = "field" => setup.todo = Webhooks
    /\ setup.step \in {"account", "supplier", "item", "report"} => setup.todo = <<>>
    /\ setup.step # "idle" /\ setup.ok /\ ~disturbed =>
          /\ setup.step # "field" => desk.field = "right"
          /\ \A m \in MadeTill(setup.step) : desk[m]
          /\ \A h \in Dealt(setup.todo) \ setup.stale : desk.hook[h] = setup.want

SetupInv == SetupShapes /\ SecretsKept /\ NoneNewer /\ GoesWell

-----------------------------------------------------------------------------
(* Webhooks and secrets *)

LEMMA BlankIs == Blank \in Say /\ Blank.secret = 0 /\ Blank.url = 0
BY DEF Blank, Say

LEMMA SameSaid ==
    ASSUME NEW a \in Say, NEW b \in Say, a.url = b.url, a.secret = b.secret PROVE a = b
BY DEF Say

LEMMA NoRunIs ==
    /\ NoRun \in SetupState /\ NoRun.step = "idle" /\ NoRun.ok = TRUE
    /\ \A h \in Hooks : NoRun.print[h] = Blank
<1>1. [h \in Hooks |-> Blank] \in [Hooks -> Say]
    BY BlankIs
<1>2. <<>> \in Seq(Hooks)
    OBVIOUS
<1> QED
    BY <1>1, <1>2, BlankIs DEF NoRun, SetupState, RunSteps

\* What is counted is counted once more.
LEMMA Counted ==
    ASSUME NEW s \in SpentState, NEW n \in Nat
    PROVE  /\ s.secrets \in Nat
           /\ [s EXCEPT !.settings = @ + 1] \in SpentState
           /\ [s EXCEPT !.edits = @ + 1] \in SpentState
           /\ [s EXCEPT !.edits = @ + 1].secrets = s.secrets
           /\ [s EXCEPT !.runs = @ + 1] \in SpentState
           /\ [s EXCEPT !.secrets = n] \in SpentState
           /\ [s EXCEPT !.secrets = n].secrets = n
<1>1. /\ s.settings \in Nat /\ s.edits \in Nat /\ s.runs \in Nat /\ s.secrets \in Nat
    BY DEF SpentState
<1>2. [s EXCEPT !.settings = @ + 1] \in SpentState
    BY <1>1 DEF SpentState
<1>3. [s EXCEPT !.edits = @ + 1] \in SpentState /\ [s EXCEPT !.edits = @ + 1].secrets = s.secrets
    BY <1>1 DEF SpentState
<1>4. [s EXCEPT !.runs = @ + 1] \in SpentState
    BY <1>1 DEF SpentState
<1>5. [s EXCEPT !.secrets = n] \in SpentState /\ [s EXCEPT !.secrets = n].secrets = n
    BY DEF SpentState
<1> QED
    BY <1>1, <1>2, <1>3, <1>4, <1>5

\* Nothing is dealt with while every webhook is to do, and one more with each step.
LEMMA DealtAtFirst == Dealt(Webhooks) = {}
BY DEF Dealt, Hooks

LEMMA DealtOneMore ==
    ASSUME NEW q \in Seq(Hooks), q # <<>>
    PROVE  Tail(q) \in Seq(Hooks) /\ Head(q) \in Hooks
           /\ Dealt(Tail(q)) \subseteq Dealt(q) \cup {Head(q)}
<1>1. Head(q) = q[1] /\ Head(q) \in Hooks /\ Tail(q) \in Seq(Hooks) /\ Len(q) \in Nat \ {0}
    OBVIOUS
<1>2. Len(Tail(q)) = Len(q) - 1 /\ \A i \in 1..Len(Tail(q)) : Tail(q)[i] = q[i + 1]
    OBVIOUS
<1>3. ASSUME NEW h \in Dealt(Tail(q)), h # Head(q) PROVE h \in Dealt(q)
    <2>1. ASSUME NEW i \in 1..Len(q), q[i] = h PROVE FALSE
        <3>1. CASE i = 1
            BY <1>1, <1>3, <2>1, <3>1
        <3>2. CASE i # 1
            <4>1. i - 1 \in 1..Len(Tail(q))
                BY <1>1, <1>2, <3>2
            <4>2. Tail(q)[i - 1] = q[i - 1 + 1] /\ i - 1 + 1 = i
                BY <1>2, <4>1
            <4> QED
                BY <1>3, <2>1, <4>1, <4>2 DEF Dealt
        <3> QED
            BY <3>1, <3>2
    <2> QED
        BY <1>3, <2>1 DEF Dealt
<1> QED
    BY <1>1, <1>3

LEMMA DealtInEnd == Dealt(<<>>) = Hooks
BY DEF Dealt

\* A webhook that is left alone, and is not stale, carries what would be sent.
LEMMA LeftAloneIsRight ==
    ASSUME SetupInv, setup.step # "idle", NEW h \in Hooks \ setup.stale, Current(h)
    PROVE  desk.hook[h] = setup.want
<1>1. /\ desk.hook[h] \in Say /\ setup.want \in Say
      /\ desk.hook[h].url = setup.want.url /\ setup.previous[h] = setup.want
      /\ setup.want # Blank /\ desk.hook[h] # Blank
    BY BlankIs DEF SetupInv, SetupShapes, DeskState, SetupState, Current, SecretsKept
<1>2. desk.hook[h].secret = setup.want.secret
    <2>1. CASE setup.print[h] = Blank
        BY <1>1, <2>1 DEF SetupInv, SecretsKept, AsSent
    <2>2. CASE setup.print[h] = setup.want
        BY <1>1, <2>2 DEF SetupInv, SecretsKept, AsSent
    <2> QED
        BY <2>1, <2>2 DEF SetupInv, SecretsKept
<1> QED
    BY <1>1, <1>2, SameSaid

-----------------------------------------------------------------------------
(* Around a run *)

LEMMA SetupStart == SetupInit => SetupInv
<1> SUFFICES ASSUME SetupInit PROVE SetupInv
    OBVIOUS
<1>1. [h \in Hooks |-> Blank] \in [Hooks -> Say]
    BY BlankIs
<1>2. SetupShapes
    BY <1>1, NoRunIs
    DEF SetupInit, SetupShapes, DeskState, ConfigState, SpentState, FieldLooks, Addresses
<1>3. \A h \in Hooks : desk.hook[h] = Blank /\ config.print[h] = Blank
    BY DEF SetupInit
<1>4. setup.step = "idle" /\ config.secret = 0 /\ spent.secrets = 0
    BY NoRunIs DEF SetupInit
<1> QED
    BY <1>2, <1>3, <1>4, BlankIs
    DEF SetupInv, SecretsKept, AsSent, NoneNewer, NoneAbove, GoesWell

\* Another address or another secret, one of those there were or one more.
LEMMA SettingsKeep ==
    ASSUME SetupInv,
           (\E u \in Addresses : SaveAddress(u)) \/ \E s \in {0} \cup Secrets : SaveSecret(s)
    PROVE  SetupInv'
<1> DEFINE Saved ==
      /\ UNCHANGED <<desk, setup, stale, disturbed>> /\ config'.print = config.print
      /\ config' \in ConfigState /\ spent' \in SpentState
      /\ spent'.secrets >= spent.secrets /\ config'.secret <= spent'.secrets
<1>1. Saved
    <2>1. config \in ConfigState /\ spent \in SpentState /\ config.secret <= spent.secrets
          /\ spent.secrets \in Nat
        BY DEF SetupInv, SetupShapes, NoneNewer, SpentState
    <2>2. ASSUME NEW u \in Addresses, SaveAddress(u) PROVE Saved
        <3>1. /\ config' \in ConfigState /\ config'.print = config.print
              /\ config'.secret = config.secret
            BY <2>1, <2>2 DEF SaveAddress, ConfigState
        <3>2. spent' \in SpentState /\ spent'.secrets = spent.secrets
            BY <2>1, <2>2 DEF SaveAddress, SpentState
        <3> QED
            BY <2>1, <2>2, <3>1, <3>2 DEF SaveAddress
    <2>3. ASSUME NEW s \in {0} \cup Secrets, SaveSecret(s) PROVE Saved
        <3> DEFINE n == IF s > spent.secrets THEN s ELSE spent.secrets
                   t == [spent EXCEPT !.settings = @ + 1]
        <3>1. s \in Nat /\ n \in Nat /\ n >= spent.secrets /\ s <= n
            <4>1. s \in 0..spent.secrets + 1
                BY <2>3 DEF SaveSecret
            <4> QED
                BY <2>1, <4>1
        <3>2. /\ config' = [config EXCEPT !.secret = s]
              /\ spent' = [t EXCEPT !.secrets = n]
              /\ UNCHANGED <<desk, setup, stale, disturbed>>
            BY <2>1, <2>3 DEF SaveSecret, SpentState
        <3>3. t \in SpentState
            BY <2>1, Counted
        <3> HIDE DEF n, t
        <3>4. config' \in ConfigState /\ config'.print = config.print /\ config'.secret = s
            BY <2>1, <3>1, <3>2 DEF ConfigState
        <3>5. spent' \in SpentState /\ spent'.secrets = n
            BY <3>1, <3>2, <3>3, Counted
        <3> QED
            BY <3>1, <3>2, <3>4, <3>5
    <2> QED
        BY <2>2, <2>3
<1>2. SetupShapes'
    BY <1>1 DEF SetupInv, SetupShapes
<1>3. SecretsKept' /\ GoesWell'
    BY <1>1 DEF SetupInv, SecretsKept, AsSent, GoesWell
<1>4. /\ spent.secrets \in Nat /\ spent'.secrets \in Nat /\ setup.want.secret \in Nat
      /\ \A h \in Hooks : /\ desk.hook[h].secret \in Nat /\ config.print[h].secret \in Nat
                          /\ setup.print[h].secret \in Nat
    BY <1>1 DEF SetupInv, SetupShapes, SpentState, DeskState, ConfigState, SetupState, Say
<1>5. NoneNewer'
    BY <1>1, <1>4 DEF SetupInv, NoneNewer, NoneAbove
<1> QED
    BY <1>2, <1>3, <1>5 DEF SetupInv

\* Staff delete a webhook, or change what it says but not its secret.
LEMMA DeskEditKeeps == ASSUME SetupInv, DeskEdit PROVE SetupInv'
<1>1. desk \in DeskState /\ spent \in SpentState
    BY DEF SetupInv, SetupShapes
<1>2. /\ spent' \in SpentState /\ spent'.secrets = spent.secrets /\ disturbed'
      /\ UNCHANGED <<config, setup, stale>>
    BY <1>1, Counted DEF DeskEdit
<1>3. /\ desk' \in DeskState
      /\ \A h \in Hooks : \/ desk'.hook[h] = Blank
                          \/ desk.hook[h] # Blank /\ desk'.hook[h].secret = desk.hook[h].secret
                          \/ desk'.hook[h] = desk.hook[h]
    <2>1. ASSUME NEW f \in FieldLooks, desk' = [desk EXCEPT !.field = f]
          PROVE  desk' \in DeskState /\ desk'.hook = desk.hook
        BY <1>1, <2>1 DEF DeskState
    <2>2. ASSUME NEW h \in Hooks, NEW s \in Say, desk' = [desk EXCEPT !.hook[h] = s]
          PROVE  desk' \in DeskState /\ desk'.hook = [desk.hook EXCEPT ![h] = s]
        BY <1>1, <2>2 DEF DeskState
    <2>3. desk.hook \in [Hooks -> Say]
        BY <1>1 DEF DeskState
    <2>4. ASSUME NEW h \in Hooks, desk.hook[h] # Blank,
                 \/ desk' = [desk EXCEPT !.hook[h] = Blank]
                 \/ desk' = [desk EXCEPT !.hook[h].url = 0]
          PROVE  <1>3!2 /\ desk' \in DeskState
        <3> DEFINE s == [desk.hook[h] EXCEPT !.url = 0]
        <3>1. s \in Say /\ s.secret = desk.hook[h].secret
            BY <2>3 DEF Say
        <3>2. CASE desk' = [desk EXCEPT !.hook[h] = Blank]
            BY <2>2, <2>3, <2>4, <3>2, BlankIs
        <3>3. CASE desk' = [desk EXCEPT !.hook[h].url = 0]
            <4>1. desk' = [desk EXCEPT !.hook[h] = s]
                BY <3>3
            <4> HIDE DEF s
            <4> QED
                BY <2>2, <2>3, <2>4, <3>1, <4>1
        <3> QED
            BY <2>4, <3>2, <3>3
    <2>5. CASE \E f \in {"none", "drifted", "other type"} : desk' = [desk EXCEPT !.field = f]
        BY <2>1, <2>5 DEF FieldLooks
    <2>6. CASE \E h \in Hooks : /\ desk.hook[h] # Blank
                                /\ \/ desk' = [desk EXCEPT !.hook[h] = Blank]
                                   \/ desk' = [desk EXCEPT !.hook[h].url = 0]
        BY <2>4, <2>6
    <2> QED
        BY <2>5, <2>6 DEF DeskEdit
<1>4. SetupShapes'
    BY <1>2, <1>3 DEF SetupInv, SetupShapes
<1>5. SecretsKept'
    BY <1>2, <1>3 DEF SetupInv, SecretsKept, AsSent
<1>6. spent.secrets \in Nat /\ setup.want.secret \in Nat
    BY DEF SetupInv, SetupShapes, SpentState, SetupState, Say
<1>7. NoneNewer' /\ GoesWell'
    BY <1>2, <1>3, <1>6, BlankIs DEF SetupInv, NoneNewer, NoneAbove, GoesWell
<1> QED
    BY <1>4, <1>5, <1>7 DEF SetupInv

\* A press of the button: what is sent is a secret there is.
LEMMA PressKeeps == ASSUME SetupInv, Press PROVE SetupInv'
<1> DEFINE made == config.secret = 0
           secret == IF made THEN spent.secrets + 1 ELSE config.secret
           want == [url |-> config.url, secret |-> secret]
           run == [NoRun EXCEPT !.step = "field", !.todo = Webhooks, !.previous = config.print,
                                !.want = want, !.stale = stale]
<1>1. config \in ConfigState /\ spent \in SpentState /\ stale \subseteq Hooks
    BY DEF SetupInv, SetupShapes
<1>2. spent.secrets \in Nat /\ config.secret \in Nat /\ config.secret <= spent.secrets
      /\ config.url \in {1, 2} /\ config.print \in [Hooks -> Say]
    BY <1>1 DEF SetupInv, NoneNewer, SpentState, ConfigState, Addresses
<1>3. /\ config' = [config EXCEPT !.secret = secret] /\ setup' = run
      /\ spent' = [spent EXCEPT !.runs = @ + 1, !.secrets = IF made THEN @ + 1 ELSE @]
      /\ UNCHANGED <<desk, stale>> /\ disturbed' = FALSE
    BY DEF Press
<1>4. want \in Say /\ want.url # 0 /\ want.secret = secret
    BY <1>2 DEF Say
<1>5. /\ spent' \in SpentState /\ spent'.secrets \in Nat /\ secret \in Nat
      /\ spent'.secrets >= spent.secrets /\ secret <= spent'.secrets
    <2> DEFINE t == [spent EXCEPT !.runs = @ + 1]
               n == IF made THEN spent.secrets + 1 ELSE spent.secrets
    <2>1. t \in SpentState
        BY <1>1, Counted
    <2>2. n \in Nat /\ n >= spent.secrets /\ secret <= n /\ secret \in Nat
        BY <1>2
    <2>3. spent' = [t EXCEPT !.secrets = n]
        BY <1>1, <1>3 DEF SpentState
    <2> HIDE DEF t, n, secret
    <2> QED
        BY <2>1, <2>2, <2>3, Counted
<1> HIDE DEF want, secret
<1>6. config' \in ConfigState /\ config'.secret = secret /\ config'.print = config.print
    BY <1>1, <1>3, <1>5 DEF ConfigState
<1>7. /\ run \in SetupState /\ run.step = "field" /\ run.todo = Webhooks
      /\ run.previous = config.print /\ run.want = want /\ run.stale = stale
      /\ run.print = NoRun.print
    <2>1. Webhooks \in Seq(Hooks)
        BY SetupAssumption DEF Hooks
    <2>2. NoRun \in SetupState
        BY NoRunIs
    <2> QED
        BY <1>1, <1>2, <1>4, <2>1, <2>2 DEF SetupState, RunSteps
<1> HIDE DEF run
<1>8. SetupShapes'
    BY <1>3, <1>5, <1>6, <1>7 DEF SetupInv, SetupShapes
<1>9. desk \in DeskState /\ desk.hook \in [Hooks -> Say]
    BY DEF SetupInv, SetupShapes, DeskState
<1>10. SecretsKept'
    <2>1. AsSent(desk.hook, config.print, stale)
        BY DEF SetupInv, SecretsKept
    <2>2. AsSent(desk.hook, NoRun.print, stale)
        BY NoRunIs DEF AsSent
    <2> QED
        BY <1>3, <1>4, <1>6, <1>7, <2>1, <2>2, NoRunIs DEF SecretsKept
<1>11. NoneNewer'
    <2>1. \A h \in Hooks :
             /\ desk.hook[h].secret \in Nat /\ desk.hook[h].secret <= spent'.secrets
             /\ config.print[h].secret \in Nat /\ config.print[h].secret <= spent'.secrets
             /\ NoRun.print[h].secret <= spent'.secrets
        BY <1>2, <1>5, <1>9, NoRunIs, BlankIs DEF SetupInv, NoneNewer, NoneAbove, Say
    <2> QED
        BY <1>3, <1>4, <1>5, <1>6, <1>7, <2>1 DEF NoneNewer, NoneAbove
<1>12. GoesWell'
    BY <1>3, <1>7, DealtAtFirst DEF GoesWell, MadeTill
<1> QED
    BY <1>8, <1>10, <1>11, <1>12 DEF SetupInv

\* The run is over, its report saved or its process gone.
LEMMA EndKeeps == ASSUME SetupInv, Report \/ SetupCrash PROVE SetupInv'
<1>1. /\ setup' = NoRun /\ UNCHANGED <<desk, disturbed>> /\ setup.step # "idle"
      /\ spent' \in SpentState /\ spent'.secrets = spent.secrets
    <2>1. spent \in SpentState
        BY DEF SetupInv, SetupShapes
    <2>2. CASE Report
        BY <2>1, <2>2 DEF Report
    <2>3. CASE SetupCrash
        BY <2>1, <2>3 DEF SetupCrash, SpentState
    <2> QED
        BY <2>2, <2>3
<1>2. /\ config' \in ConfigState /\ config'.secret = config.secret
      /\ \/ config'.print = setup.print /\ stale' = setup.stale
         \/ config'.print = config.print /\ stale' = stale
    <2>1. config \in ConfigState /\ setup.print \in [Hooks -> Say]
        BY DEF SetupInv, SetupShapes, SetupState
    <2>2. CASE Report
        BY <2>1, <2>2 DEF Report, ConfigState
    <2>3. CASE SetupCrash
        BY <2>1, <2>3 DEF SetupCrash
    <2> QED
        BY <2>2, <2>3
<1>3. SetupShapes'
    BY <1>1, <1>2, NoRunIs DEF SetupInv, SetupShapes, SetupState
<1>4. SecretsKept' /\ GoesWell'
    BY <1>1, <1>2, NoRunIs DEF SetupInv, SecretsKept, GoesWell
<1>5. /\ spent.secrets \in Nat /\ setup.want.secret \in Nat
      /\ \A h \in Hooks : setup.print[h].secret \in Nat
    BY DEF SetupInv, SetupShapes, SpentState, SetupState, Say
<1>6. NoneNewer'
    BY <1>1, <1>2, <1>5, NoRunIs DEF SetupInv, NoneNewer, NoneAbove
<1> QED
    BY <1>3, <1>4, <1>6 DEF SetupInv

-----------------------------------------------------------------------------
(* The run *)

\* A call is counted if it fails.
LEMMA FateKeeps ==
    ASSUME NEW f \in Fates, Fate(f), spent \in SpentState
    PROVE  spent' \in SpentState /\ spent'.secrets = spent.secrets
<1>1. CASE f = "done"
    BY <1>1 DEF Fate
<1>2. CASE f # "done"
    BY <1>2 DEF Fate, SpentState
<1> QED
    BY <1>1, <1>2

\* What a step that touches no webhook and no secret leaves as it was.
LEMMA SecretsKeep ==
    ASSUME SetupInv, desk'.hook = desk.hook, config' = config, stale' = stale,
           spent'.secrets = spent.secrets, setup.step # "idle",
           setup'.want = setup.want, setup'.previous = setup.previous,
           setup'.print = setup.print, setup'.stale = setup.stale
    PROVE  SecretsKept' /\ NoneNewer'
BY DEF SetupInv, SecretsKept, NoneNewer

LEMMA FieldKeeps == ASSUME SetupInv, NEW f \in Fates, EnsureField(f) PROVE SetupInv'
<1> DEFINE good == f = "done" /\ desk.field # "other type"
<1>1. setup \in SetupState /\ desk \in DeskState /\ spent \in SpentState /\ setup.step = "field"
    BY DEF SetupInv, SetupShapes, EnsureField
<1>2. setup' = [setup EXCEPT !.step = "hooks", !.field = good, !.ok = @ /\ good]
    BY DEF EnsureField
<1>3. good \in BOOLEAN
    OBVIOUS
<1>4. desk' \in DeskState /\ desk'.hook = desk.hook /\ (good => desk'.field = "right")
    <2>1. \/ desk' = desk /\ ~good
          \/ desk' = [desk EXCEPT !.field = "right"]
        BY DEF EnsureField
    <2>2. CASE desk' = desk /\ ~good
        BY <1>1, <2>2
    <2>3. CASE desk' = [desk EXCEPT !.field = "right"]
        BY <1>1, <2>3 DEF DeskState, FieldLooks
    <2> QED
        BY <2>1, <2>2, <2>3
<1> HIDE DEF good
<1>5. /\ setup' \in SetupState /\ setup'.step = "hooks" /\ (setup'.ok => good)
      /\ setup'.todo = setup.todo /\ setup'.want = setup.want /\ setup'.previous = setup.previous
      /\ setup'.print = setup.print /\ setup'.stale = setup.stale
    BY <1>1, <1>2, <1>3 DEF SetupState, RunSteps
<1>6. spent' \in SpentState /\ spent'.secrets = spent.secrets
      /\ UNCHANGED <<config, stale, disturbed>>
    BY <1>1, FateKeeps DEF EnsureField
<1>7. SetupShapes'
    BY <1>4, <1>5, <1>6 DEF SetupInv, SetupShapes
<1>8. SecretsKept' /\ NoneNewer'
    BY <1>1, <1>4, <1>5, <1>6, SecretsKeep
<1>9. GoesWell'
    <2>1. Dealt(setup'.todo) = {}
        BY <1>1, <1>5, DealtAtFirst DEF SetupInv, GoesWell
    <2> QED
        BY <1>4, <1>5, <2>1 DEF GoesWell, MadeTill
<1> QED
    BY <1>7, <1>8, <1>9 DEF SetupInv

\* The webhooks are through, or one is not attempted.
LEMMA NoCallKeeps == ASSUME SetupInv, NotAttempted \/ HooksDone PROVE SetupInv'
<1>1. /\ setup \in SetupState /\ setup.step = "hooks"
      /\ UNCHANGED <<desk, config, stale, disturbed, spent>>
    BY DEF SetupInv, SetupShapes, NotAttempted, HooksDone
<1>2. /\ setup' \in SetupState /\ setup'.step \in {"hooks", "account"}
      /\ \/ setup'.todo = setup.todo /\ setup'.ok = setup.ok
         \/ ~setup'.ok
      /\ setup'.step = "account" => setup'.todo = <<>>
      /\ setup'.want = setup.want /\ setup'.previous = setup.previous
      /\ setup'.print = setup.print /\ setup'.stale = setup.stale
    <2>1. CASE NotAttempted
        <3>1. Tail(setup.todo) \in Seq(Hooks)
            BY <1>1, <2>1, DealtOneMore DEF NotAttempted, SetupState
        <3>2. setup' = [setup EXCEPT !.todo = Tail(setup.todo), !.ok = FALSE]
            BY <2>1 DEF NotAttempted
        <3> QED
            BY <1>1, <3>1, <3>2 DEF SetupState
    <2>2. CASE HooksDone
        BY <1>1, <2>2 DEF HooksDone, SetupState, RunSteps
    <2> QED
        BY <2>1, <2>2
<1>3. SetupShapes'
    BY <1>1, <1>2 DEF SetupInv, SetupShapes
<1>4. SecretsKept' /\ NoneNewer'
    BY <1>1, <1>2, SecretsKeep
<1>5. GoesWell'
    BY <1>1, <1>2 DEF SetupInv, GoesWell, MadeTill
<1> QED
    BY <1>3, <1>4, <1>5 DEF SetupInv

\* A master is there once its call is through.
LEMMA MasterKeeps ==
    ASSUME SetupInv, NEW f \in Fates, NEW m \in Masters, NEW next \in RunSteps,
           <<m, next>> \in
              {<<"account", "supplier">>, <<"supplier", "item">>, <<"item", "report">>},
           EnsureMaster(m, next, f)
    PROVE  SetupInv'
<1>1. /\ setup \in SetupState /\ desk \in DeskState /\ spent \in SpentState
      /\ setup.step = m /\ setup.todo = <<>>
    BY DEF SetupInv, SetupShapes, EnsureMaster, GoesWell, Masters
<1>2. /\ desk' \in DeskState /\ desk'.hook = desk.hook /\ desk'.field = desk.field
      /\ f # "refused" => desk'[m]
      /\ \A x \in Masters : desk[x] => desk'[x]
    <2>1. CASE f = "refused"
        BY <1>1, <2>1 DEF EnsureMaster
    <2>2. CASE f # "refused"
        <3>1. desk' = [desk EXCEPT ![m] = TRUE]
            BY <2>2 DEF EnsureMaster
        <3> QED
            BY <1>1, <3>1 DEF DeskState, Masters
    <2> QED
        BY <2>1, <2>2
<1>3. /\ setup' \in SetupState /\ setup'.step = next
      /\ setup'.ok => setup.ok /\ f = "done"
      /\ setup'.todo = setup.todo /\ setup'.want = setup.want /\ setup'.previous = setup.previous
      /\ setup'.print = setup.print /\ setup'.stale = setup.stale
    BY <1>1 DEF EnsureMaster, SetupState
<1>4. spent' \in SpentState /\ spent'.secrets = spent.secrets
      /\ UNCHANGED <<config, stale, disturbed>>
    BY <1>1, FateKeeps DEF EnsureMaster
<1>5. SetupShapes'
    BY <1>2, <1>3, <1>4 DEF SetupInv, SetupShapes
<1>6. SecretsKept' /\ NoneNewer'
    BY <1>1, <1>2, <1>3, <1>4, SecretsKeep DEF Masters
<1>7. GoesWell'
    <2>1. MadeTill(next) \subseteq MadeTill(m) \cup {m} /\ MadeTill(m) \subseteq Masters
        BY DEF MadeTill, Masters
    <2>2. next \notin {"idle", "field"} /\ m \notin {"idle", "field"}
        BY DEF Masters
    <2> QED
        BY <1>1, <1>2, <1>3, <1>4, <2>1, <2>2 DEF SetupInv, GoesWell
<1> QED
    BY <1>5, <1>6, <1>7 DEF SetupInv

\* A webhook is made, made again, or left alone; whatever became of the call, what its
\* item keeps as sent is what it carries, unless it is listed as not sent.
LEMMA WebhookKeeps == ASSUME SetupInv, NEW f \in Fates, EnsureWebhook(f) PROVE SetupInv'
<1> DEFINE h == Head(setup.todo)
           writes == ~Current(h) /\ f # "refused"
           missing == IF f # "done" /\ desk'.hook[h] # setup.want THEN setup.stale \cup {h}
                      ELSE IF f # "done" \/ writes THEN setup.stale \ {h} ELSE setup.stale
           rest == Tail(setup.todo)
           prints == [setup.print EXCEPT ![h] = setup.want]
<1>1. /\ setup \in SetupState /\ desk \in DeskState /\ spent \in SpentState
      /\ config \in ConfigState /\ setup.step = "hooks" /\ setup.todo # <<>>
    BY DEF SetupInv, SetupShapes, EnsureWebhook
<1>2. h \in Hooks /\ rest \in Seq(Hooks) /\ Dealt(rest) \subseteq Dealt(setup.todo) \cup {h}
    BY <1>1, DealtOneMore DEF SetupState
<1>3. setup.want \in Say /\ setup.print \in [Hooks -> Say] /\ desk.hook \in [Hooks -> Say]
      /\ setup.stale \in SUBSET Hooks
    BY <1>1 DEF SetupState, DeskState
<1>4. /\ desk' = IF writes THEN [desk EXCEPT !.hook[h] = setup.want] ELSE desk
      /\ setup' = [setup EXCEPT !.todo = rest, !.ok = @ /\ f = "done",
                                !.print = prints, !.stale = missing]
      /\ UNCHANGED <<config, disturbed>>
      /\ stale' = IF ~writes THEN stale
                  ELSE IF config.print[h] = setup.want THEN stale \ {h} ELSE stale \cup {h}
    BY DEF EnsureWebhook
<1>5. spent' \in SpentState /\ spent'.secrets = spent.secrets
    BY <1>1, FateKeeps DEF EnsureWebhook
<1>6. /\ desk' \in DeskState /\ desk'.field = desk.field
      /\ \A x \in Masters : desk'[x] = desk[x]
      /\ desk'.hook = IF writes THEN [desk.hook EXCEPT ![h] = setup.want] ELSE desk.hook
    <2>1. CASE writes
        <3>1. desk' = [desk EXCEPT !.hook[h] = setup.want]
            BY <1>4, <2>1
        <3> QED
            BY <1>1, <1>2, <1>3, <2>1, <3>1 DEF DeskState, Masters
    <2>2. CASE ~writes
        BY <1>1, <1>4, <2>2
    <2> QED
        BY <2>1, <2>2
<1>7. \A g \in Hooks \ {h} : desk'.hook[g] = desk.hook[g]
    BY <1>2, <1>3, <1>6
<1>8. writes => desk'.hook[h] = setup.want
    BY <1>2, <1>3, <1>6
<1>9. ~writes => desk'.hook = desk.hook
    BY <1>6
\* The webhook in hand carries what was to be sent, or is listed.
<1>10. h \notin missing => desk'.hook[h] = setup.want
    <2>1. CASE f # "done"
        BY <1>2, <2>1
    <2>2. CASE f = "done" /\ writes
        BY <1>8, <2>2
    <2>3. CASE f = "done" /\ ~writes
        <3>1. Current(h)
            BY <2>3
        <3>2. h \notin missing => h \in Hooks \ setup.stale
            BY <1>2, <2>3
        <3> HIDE DEF h, missing, writes
        <3> QED
            BY <1>1, <1>9, <2>3, <3>1, <3>2, LeftAloneIsRight
    <2> QED
        BY <2>1, <2>2, <2>3
<1>11. missing \in SUBSET Hooks /\ missing \ {h} = setup.stale \ {h}
    BY <1>2, <1>3
<1>12. prints \in [Hooks -> Say] /\ prints[h] = setup.want
       /\ \A g \in Hooks \ {h} : prints[g] = setup.print[g]
    BY <1>2, <1>3
<1>13. desk'.hook[h] = setup.want \/ desk'.hook[h] = desk.hook[h]
    BY <1>8, <1>9
\* The report there is: what it says of the others stays so, and of this one if it was
\* not written, or written as the report says.
<1>a. /\ stale' \subseteq Hooks /\ stale' \ {h} = stale \ {h}
      /\ h \notin stale' => \/ desk'.hook[h] = desk.hook[h] /\ h \notin stale
                           \/ desk'.hook[h] = config.print[h]
    <2>1. stale \subseteq Hooks
        BY DEF SetupInv, SetupShapes
    <2>2. CASE ~writes
        BY <1>4, <1>9, <2>1, <2>2
    <2>3. CASE writes /\ config.print[h] = setup.want
        BY <1>4, <1>8, <2>1, <2>3
    <2>4. CASE writes /\ config.print[h] # setup.want
        BY <1>2, <1>4, <2>1, <2>4
    <2> QED
        BY <2>2, <2>3, <2>4
<1> HIDE DEF h, writes, missing, rest, prints
<1>14. /\ setup' \in SetupState /\ setup'.step = "hooks" /\ setup'.todo = rest
       /\ (setup'.ok => setup.ok) /\ setup'.print = prints /\ setup'.stale = missing
       /\ setup'.want = setup.want /\ setup'.previous = setup.previous
    BY <1>1, <1>2, <1>4, <1>11, <1>12 DEF SetupState
<1>15. SetupShapes'
    BY <1>4, <1>5, <1>6, <1>a, <1>14 DEF SetupInv, SetupShapes
<1>16. /\ setup.want.secret \in Nat /\ spent.secrets \in Nat /\ setup.want # Blank
       /\ \A g \in Hooks : /\ desk.hook[g].secret \in Nat
                           /\ config.print[g].secret \in Nat /\ setup.print[g].secret \in Nat
    BY <1>1, BlankIs
    DEF SetupState, DeskState, ConfigState, SpentState, Say, SetupInv, SecretsKept
<1>17. SecretsKept'
    <2>1. AsSent(desk'.hook, config.print, stale')
        BY <1>2, <1>7, <1>a DEF SetupInv, SecretsKept, AsSent
    <2>2. AsSent(desk'.hook, prints, missing)
        BY <1>1, <1>2, <1>7, <1>10, <1>11, <1>12 DEF SetupInv, SecretsKept, AsSent
    <2>3. \A g \in Hooks : prints[g] \in {Blank, setup.want}
        BY <1>1, <1>12 DEF SetupInv, SecretsKept
    <2>4. ASSUME NEW g \in Hooks \ missing, prints[g] = Blank PROVE g \notin stale'
        <3>1. g # h
            BY <1>12, <1>16, <2>4
        <3>2. g \notin setup.stale /\ setup.print[g] = Blank
            BY <1>11, <1>12, <2>4, <3>1
        <3> QED
            BY <1>1, <1>a, <2>4, <3>1, <3>2 DEF SetupInv, SecretsKept
    <2>5. setup.want.url # 0 /\ setup.previous = config.print
        BY <1>1 DEF SetupInv, SecretsKept
    <2> QED
        BY <1>4, <1>14, <2>1, <2>2, <2>3, <2>4, <2>5 DEF SecretsKept
<1>18. NoneNewer'
    <2>1. setup.want.secret <= spent.secrets
        BY <1>1 DEF SetupInv, NoneNewer
    <2>2. NoneAbove(desk'.hook, spent.secrets) /\ NoneAbove(prints, spent.secrets)
        BY <1>1, <1>2, <1>7, <1>12, <1>13, <2>1 DEF SetupInv, NoneNewer, NoneAbove
    <2> QED
        BY <1>1, <1>4, <1>5, <1>14, <2>1, <2>2 DEF SetupInv, NoneNewer
<1>19. GoesWell'
    <2>1. setup'.ok /\ ~disturbed =>
             \A g \in Dealt(rest) \ missing : desk'.hook[g] = setup.want
        BY <1>1, <1>2, <1>7, <1>10, <1>11, <1>14 DEF SetupInv, GoesWell, Dealt
    <2> QED
        BY <1>1, <1>4, <1>6, <1>14, <2>1 DEF SetupInv, GoesWell, MadeTill
<1> QED
    BY <1>15, <1>17, <1>18, <1>19 DEF SetupInv

-----------------------------------------------------------------------------
(* The theorem *)

LEMMA SetupKeeps == SetupInv /\ [SetupNext]_setupVars => SetupInv'
<1> SUFFICES ASSUME SetupInv, [SetupNext]_setupVars PROVE SetupInv'
    OBVIOUS
<1>1. CASE UNCHANGED setupVars
    BY <1>1 DEF setupVars, SetupInv, SetupShapes, SecretsKept, NoneNewer, GoesWell
<1>2. CASE \/ \E u \in Addresses : SaveAddress(u)
           \/ \E s \in {0} \cup Secrets : SaveSecret(s)
    BY <1>2, SettingsKeep
<1>3. CASE DeskEdit \/ Press
    BY <1>3, DeskEditKeeps, PressKeeps
<1>4. CASE SetupStep
    <2>1. CASE \E f \in Fates : EnsureField(f) \/ EnsureWebhook(f)
        BY <2>1, FieldKeeps, WebhookKeeps
    <2>2. CASE NotAttempted \/ HooksDone
        BY <2>2, NoCallKeeps
    <2>3. ASSUME NEW f \in Fates, \/ EnsureMaster("account", "supplier", f)
                                  \/ EnsureMaster("supplier", "item", f)
                                  \/ EnsureMaster("item", "report", f)
          PROVE  SetupInv'
        <3>1. /\ Masters = {"account", "supplier", "item"}
              /\ {"supplier", "item", "report"} \subseteq RunSteps
            BY DEF Masters, RunSteps
        <3> QED
            BY <2>3, <3>1, MasterKeeps
    <2>4. CASE Report
        BY <2>4, EndKeeps
    <2> QED
        BY <1>4, <2>1, <2>2, <2>3, <2>4 DEF SetupStep
<1>5. CASE SetupCrash
    BY <1>5, EndKeeps
<1> QED
    BY <1>1, <1>2, <1>3, <1>4, <1>5 DEF SetupNext

\* "Set up ERPNext" that reports no error (setUpErpnext, the report's `ok`): the field,
\* the masters and every webhook, its masked secret included, are as they should be - but
\* a webhook whose kept fingerprint is not of what was sent last.
THEOREM OkMeansReadyHolds == SetupSpec => []OkMeansReady
<1>1. ASSUME SetupInv PROVE OkMeansReady
    <2>1. ASSUME setup.step = "report", setup.ok, ~disturbed
          PROVE  /\ desk.field = "right" /\ desk.account /\ desk.supplier /\ desk.item
                 /\ \A h \in Hooks \ setup.stale : desk.hook[h] = setup.want
        <3>1. MadeTill("report") = {"account", "supplier", "item"}
            BY DEF MadeTill, Masters
        <3> QED
            BY <1>1, <2>1, <3>1, DealtInEnd DEF SetupInv, GoesWell
    <2> QED
        BY <2>1 DEF OkMeansReady
<1> QED
    BY <1>1, SetupStart, SetupKeeps, PTL DEF SetupSpec

-----------------------------------------------------------------------------
(* ErpnextSetup: what its variables hold *)

\* An address that was said is one of the store's, or was altered by staff.
SaidIsShort(s) == s.url \in 0..2
SaidAreShort(says) == \A h \in Hooks : SaidIsShort(says[h])
UrlsAreShort ==
    /\ SaidAreShort(desk.hook) /\ SaidAreShort(config.print) /\ SaidIsShort(setup.want)
    /\ SaidAreShort(setup.previous) /\ SaidAreShort(setup.print)

\* A secret is made by somebody who saves one, or by a run.
SpentIsBounded ==
    /\ spent.settings <= MaxSettings /\ spent.runs <= MaxRuns
    /\ spent.secrets <= spent.settings + spent.runs

\* Between runs nothing is left of the last one.
IdleIsClean == setup.step = "idle" => setup = NoRun

LEMMA IdleStaysClean ==
    ASSUME SetupInv, IdleIsClean, [SetupNext]_setupVars PROVE IdleIsClean'
<1>1. setup \in SetupState
    BY DEF SetupInv, SetupShapes
<1>2. CASE UNCHANGED setup
    BY <1>2 DEF IdleIsClean
<1>3. CASE Report \/ SetupCrash
    BY <1>3 DEF Report, SetupCrash, IdleIsClean
<1>4. CASE Press
    <2>1. setup'.step = "field"
        BY <1>4 DEF Press, NoRun
    <2> QED
        BY <2>1 DEF IdleIsClean
<1>5. ASSUME NEW f, EnsureField(f) \/ EnsureWebhook(f) PROVE IdleIsClean'
    <2>1. setup'.step = "hooks"
        BY <1>1, <1>5 DEF EnsureField, EnsureWebhook, SetupState
    <2> QED
        BY <2>1 DEF IdleIsClean
<1>6. CASE NotAttempted \/ HooksDone
    <2>1. setup'.step # "idle"
        BY <1>1, <1>6 DEF NotAttempted, HooksDone, SetupState
    <2> QED
        BY <2>1 DEF IdleIsClean
<1>7. ASSUME NEW m, NEW next \in {"supplier", "item", "report"}, NEW f, EnsureMaster(m, next, f)
      PROVE  IdleIsClean'
    <2>1. setup'.step = next
        BY <1>1, <1>7 DEF EnsureMaster, SetupState
    <2> QED
        BY <2>1 DEF IdleIsClean
<1> QED
    BY <1>2, <1>3, <1>4, <1>5, <1>6, <1>7
    DEF SetupNext, SetupStep, setupVars, SaveAddress, SaveSecret, DeskEdit

LEMMA SpentStaysBounded ==
    ASSUME SetupInv, SpentIsBounded, [SetupNext]_setupVars PROVE SpentIsBounded'
<1>1. PICK s \in SpentState : s = spent
    BY DEF SetupInv, SetupShapes
<1>2. s.settings \in Nat /\ s.runs \in Nat /\ s.secrets \in Nat
    BY DEF SpentState
<1>3. MaxSettings \in Nat /\ MaxRuns \in Nat
    BY SetupAssumption
<1>4. \/ s.settings < MaxSettings /\ spent' = [s EXCEPT !.settings = @ + 1]
      \/ /\ s.settings < MaxSettings
         /\ \E n \in 0..s.secrets + 1 : spent' = [s EXCEPT !.settings = @ + 1, !.secrets = n]
      \/ spent' = [s EXCEPT !.edits = @ + 1]
      \/ s.runs < MaxRuns /\ spent' = [s EXCEPT !.runs = @ + 1, !.secrets = @ + 1]
      \/ s.runs < MaxRuns /\ spent' = [s EXCEPT !.runs = @ + 1, !.secrets = @]
      \/ spent' = [s EXCEPT !.faults = @ + 1]
      \/ spent' = s
    <2>1. ASSUME NEW f, Fate(f) PROVE spent' = s \/ spent' = [s EXCEPT !.faults = @ + 1]
        BY <1>1, <2>1 DEF Fate
    <2>2. CASE SetupStep
        <3>1. \/ UNCHANGED spent
              \/ \E f \in Fates : Fate(f)
            BY <2>2 DEF SetupStep, EnsureField, EnsureWebhook, NotAttempted, HooksDone,
                        EnsureMaster, Report
        <3> QED
            BY <1>1, <2>1, <3>1
    <2>3. ASSUME NEW u, SaveAddress(u)
          PROVE  s.settings < MaxSettings /\ spent' = [s EXCEPT !.settings = @ + 1]
        BY <1>1, <2>3 DEF SaveAddress
    <2>4. ASSUME NEW c, SaveSecret(c)
          PROVE  /\ s.settings < MaxSettings
                 /\ \E n \in 0..s.secrets + 1 :
                       spent' = [s EXCEPT !.settings = @ + 1, !.secrets = n]
        <3> DEFINE n == IF c > s.secrets THEN c ELSE s.secrets
        <3>1. s.settings < MaxSettings /\ c \in 0..s.secrets + 1
              /\ spent' = [s EXCEPT !.settings = @ + 1, !.secrets = n]
            BY <1>1, <2>4 DEF SaveSecret
        <3>2. n \in 0..s.secrets + 1
            BY <1>2, <3>1
        <3> QED
            BY <3>1, <3>2
    <2>5. CASE Press
        BY <1>1, <2>5 DEF Press
    <2>6. CASE DeskEdit \/ SetupCrash \/ UNCHANGED setupVars
        BY <1>1, <2>6 DEF DeskEdit, SetupCrash, setupVars
    <2> QED
        BY <2>2, <2>3, <2>4, <2>5, <2>6 DEF SetupNext
<1>5. s.settings <= MaxSettings /\ s.runs <= MaxRuns /\ s.secrets <= s.settings + s.runs
    BY <1>1 DEF SpentIsBounded
<1>6. /\ spent'.settings <= MaxSettings /\ spent'.runs <= MaxRuns
      /\ spent'.secrets <= spent'.settings + spent'.runs
    <2>1. CASE s.settings < MaxSettings /\ spent' = [s EXCEPT !.settings = @ + 1]
        <3>1. spent'.settings = s.settings + 1 /\ spent'.runs = s.runs
              /\ spent'.secrets = s.secrets
            BY <2>1 DEF SpentState
        <3> QED
            BY <1>2, <1>3, <1>5, <2>1, <3>1
    <2>2. ASSUME s.settings < MaxSettings, NEW n \in 0..s.secrets + 1,
                 spent' = [s EXCEPT !.settings = @ + 1, !.secrets = n]
          PROVE  /\ spent'.settings <= MaxSettings /\ spent'.runs <= MaxRuns
                 /\ spent'.secrets <= spent'.settings + spent'.runs
        <3>1. spent'.settings = s.settings + 1 /\ spent'.runs = s.runs /\ spent'.secrets = n
            BY <2>2 DEF SpentState
        <3>2. n \in Nat /\ n <= s.secrets + 1
            BY <1>2, <2>2
        <3> QED
            BY <1>2, <1>3, <1>5, <2>2, <3>1, <3>2
    <2>3. CASE s.runs < MaxRuns /\ spent' = [s EXCEPT !.runs = @ + 1, !.secrets = @ + 1]
        <3>1. spent'.settings = s.settings /\ spent'.runs = s.runs + 1
              /\ spent'.secrets = s.secrets + 1
            BY <2>3 DEF SpentState
        <3> QED
            BY <1>2, <1>3, <1>5, <2>3, <3>1
    <2>4. CASE s.runs < MaxRuns /\ spent' = [s EXCEPT !.runs = @ + 1, !.secrets = @]
        <3>1. spent'.settings = s.settings /\ spent'.runs = s.runs + 1
              /\ spent'.secrets = s.secrets
            BY <2>4 DEF SpentState
        <3> QED
            BY <1>2, <1>3, <1>5, <2>4, <3>1
    <2>5. CASE \/ spent' = [s EXCEPT !.edits = @ + 1] \/ spent' = [s EXCEPT !.faults = @ + 1]
                \/ spent' = s
        <3>1. spent'.settings = s.settings /\ spent'.runs = s.runs /\ spent'.secrets = s.secrets
            BY <2>5 DEF SpentState
        <3> QED
            BY <1>5, <3>1
    <2> QED
        BY <1>4, <2>1, <2>2, <2>3, <2>4, <2>5
<1> QED
    BY <1>6 DEF SpentIsBounded

LEMMA BlankIsShort == SaidIsShort(Blank)
BY DEF SaidIsShort, Blank

LEMMA NoRunIsShort ==
    SaidIsShort(NoRun.want) /\ SaidAreShort(NoRun.previous) /\ SaidAreShort(NoRun.print)
BY BlankIsShort DEF NoRun, SaidAreShort

LEMMA OneSaidMore ==
    ASSUME NEW says \in [Hooks -> Say], SaidAreShort(says), NEW h \in Hooks, NEW s, SaidIsShort(s)
    PROVE  SaidAreShort([says EXCEPT ![h] = s])
BY DEF SaidAreShort

\* What a step of a run does to what was said.
LEMMA UrlsStayShort ==
    ASSUME SetupInv, UrlsAreShort, [SetupNext]_setupVars PROVE UrlsAreShort'
<1>1. desk \in DeskState /\ config \in ConfigState /\ setup \in SetupState
    BY DEF SetupInv, SetupShapes
<1>2. ASSUME UNCHANGED <<desk, setup>>, config'.print = config.print PROVE UrlsAreShort'
    BY <1>2 DEF UrlsAreShort
<1>3. ASSUME NEW u, SaveAddress(u) PROVE UrlsAreShort'
    BY <1>1, <1>2, <1>3 DEF SaveAddress, ConfigState
<1>4. ASSUME NEW c, SaveSecret(c) PROVE UrlsAreShort'
    BY <1>1, <1>2, <1>4 DEF SaveSecret, ConfigState
<1>5. CASE DeskEdit
    <2>1. UNCHANGED <<config, setup>>
        BY <1>5 DEF DeskEdit
    <2>2. SaidAreShort(desk'.hook)
        <3>1. CASE desk'.hook = desk.hook
            BY <3>1 DEF UrlsAreShort
        <3>2. ASSUME NEW h \in Hooks, desk' = [desk EXCEPT !.hook[h] = Blank]
              PROVE  SaidAreShort(desk'.hook)
            <4>1. desk'.hook = [desk.hook EXCEPT ![h] = Blank] /\ desk.hook \in [Hooks -> Say]
                BY <1>1, <3>2 DEF DeskState
            <4> QED
                BY <4>1, BlankIsShort, OneSaidMore DEF UrlsAreShort
        <3>3. ASSUME NEW h \in Hooks, desk' = [desk EXCEPT !.hook[h].url = 0]
              PROVE  SaidAreShort(desk'.hook)
            <4> DEFINE s == [desk.hook[h] EXCEPT !.url = 0]
            <4>1. desk'.hook = [desk.hook EXCEPT ![h] = s] /\ desk.hook \in [Hooks -> Say]
                BY <1>1, <3>3 DEF DeskState
            <4>2. s.url = 0
                BY <4>1 DEF Say
            <4> HIDE DEF s
            <4>3. SaidIsShort(s)
                BY <4>2 DEF SaidIsShort
            <4> QED
                BY <4>1, <4>3, OneSaidMore DEF UrlsAreShort
        <3>4. ASSUME NEW f, desk' = [desk EXCEPT !.field = f] PROVE desk'.hook = desk.hook
            BY <1>1, <3>4 DEF DeskState
        <3> QED
            BY <1>5, <3>1, <3>2, <3>3, <3>4 DEF DeskEdit
    <2> QED
        BY <2>1, <2>2 DEF UrlsAreShort
<1>6. CASE Press
    <2>1. PICK secret, su : /\ config' = [config EXCEPT !.secret = secret]
                            /\ setup' = [NoRun EXCEPT !.step = "field", !.todo = Webhooks,
                                             !.previous = config.print,
                                             !.want = [url |-> config.url, secret |-> secret],
                                             !.stale = su]
        BY <1>6 DEF Press
    <2>2. config'.print = config.print /\ config.url \in 0..2
        BY <1>1, <2>1 DEF ConfigState, Addresses
    <2>3. /\ setup'.want = [url |-> config.url, secret |-> secret]
          /\ setup'.previous = config.print /\ setup'.print = NoRun.print
        BY <2>1 DEF NoRun
    <2>4. UNCHANGED desk
        BY <1>6 DEF Press
    <2> QED
        BY <2>2, <2>3, <2>4, NoRunIsShort DEF UrlsAreShort, SaidIsShort
<1>7. ASSUME NEW f, EnsureField(f) PROVE UrlsAreShort'
    <2>1. PICK good : setup' = [setup EXCEPT !.step = "hooks", !.field = good, !.ok = @ /\ good]
        BY <1>7 DEF EnsureField
    <2>2. /\ setup'.want = setup.want /\ setup'.previous = setup.previous
          /\ setup'.print = setup.print
        BY <1>1, <2>1 DEF SetupState
    <2>3. desk'.hook = desk.hook /\ UNCHANGED config
        BY <1>1, <1>7 DEF EnsureField, DeskState
    <2> QED
        BY <2>2, <2>3 DEF UrlsAreShort
<1>8. CASE NotAttempted \/ HooksDone
    <2>1. /\ setup'.want = setup.want /\ setup'.previous = setup.previous
          /\ setup'.print = setup.print /\ UNCHANGED <<desk, config>>
        BY <1>1, <1>8 DEF NotAttempted, HooksDone, SetupState
    <2> QED
        BY <2>1 DEF UrlsAreShort
<1>9. ASSUME NEW f, EnsureWebhook(f) PROVE UrlsAreShort'
    <2>1. PICK h : h = Head(setup.todo)
        OBVIOUS
    <2>2. setup.todo \in Seq(Hooks) /\ setup.todo # <<>>
        BY <1>1, <1>9 DEF EnsureWebhook, SetupState
    <2>3. h \in Hooks
        BY <2>1, <2>2
    <2>4. PICK rest, ok, un :
              setup' = [setup EXCEPT !.todo = rest, !.ok = ok,
                                     !.print[h] = setup.want, !.stale = un]
        BY <1>9, <2>1 DEF EnsureWebhook
    <2>5. /\ setup'.want = setup.want /\ setup'.previous = setup.previous
          /\ setup'.print = [setup.print EXCEPT ![h] = setup.want]
          /\ setup.print \in [Hooks -> Say]
        BY <1>1, <2>4 DEF SetupState
    <2>6. UNCHANGED config /\ (desk' = desk \/ desk' = [desk EXCEPT !.hook[h] = setup.want])
        BY <1>9, <2>1 DEF EnsureWebhook
    <2>7. \/ desk'.hook = desk.hook
          \/ desk'.hook = [desk.hook EXCEPT ![h] = setup.want] /\ desk.hook \in [Hooks -> Say]
        BY <1>1, <2>6 DEF DeskState
    <2> QED
        BY <2>3, <2>5, <2>6, <2>7, OneSaidMore DEF UrlsAreShort
<1>10. ASSUME NEW m \in Masters, NEW next, NEW f, EnsureMaster(m, next, f) PROVE UrlsAreShort'
    <2>1. PICK ok : setup' = [setup EXCEPT !.step = next, !.ok = ok]
        BY <1>10 DEF EnsureMaster
    <2>2. /\ setup'.want = setup.want /\ setup'.previous = setup.previous
          /\ setup'.print = setup.print
        BY <1>1, <2>1 DEF SetupState
    <2>3. UNCHANGED config /\ (desk' = desk \/ desk' = [desk EXCEPT ![m] = TRUE])
        BY <1>10 DEF EnsureMaster
    <2>4. desk'.hook = desk.hook
        BY <1>1, <2>3 DEF Masters, DeskState
    <2> QED
        BY <2>2, <2>3, <2>4 DEF UrlsAreShort
<1>11. CASE Report
    <2>1. config'.print = setup.print /\ setup' = NoRun /\ UNCHANGED desk
        BY <1>1, <1>11 DEF Report, ConfigState
    <2> QED
        BY <2>1, NoRunIsShort DEF UrlsAreShort
<1>12. CASE SetupCrash
    BY <1>12, NoRunIsShort DEF SetupCrash, UrlsAreShort
<1>13. CASE UNCHANGED setupVars
    BY <1>13 DEF setupVars, UrlsAreShort
<1> QED
    BY <1>3, <1>4, <1>5, <1>6, <1>7, <1>8, <1>9, <1>10, <1>11, <1>12, <1>13
    DEF SetupNext, SetupStep, Masters

\* The variables of ErpnextSetup hold what they are said to hold: no more secrets than were
\* saved or made by a run.
LEMMA SetupIsTyped == SetupSpec => []SetupTypes
<1>1. SetupInit => UrlsAreShort /\ SpentIsBounded /\ IdleIsClean
    <2> SUFFICES ASSUME SetupInit PROVE UrlsAreShort /\ SpentIsBounded /\ IdleIsClean
        OBVIOUS
    <2>1. UrlsAreShort
        BY BlankIsShort, NoRunIsShort DEF SetupInit, UrlsAreShort, SaidAreShort
    <2>2. SpentIsBounded
        BY SetupAssumption DEF SetupInit, SpentIsBounded
    <2>3. IdleIsClean
        BY DEF SetupInit, IdleIsClean
    <2> QED
        BY <2>1, <2>2, <2>3
<1>2. SetupInv /\ UrlsAreShort /\ [SetupNext]_setupVars => UrlsAreShort'
    BY UrlsStayShort
<1>3. SetupInv /\ SpentIsBounded /\ [SetupNext]_setupVars => SpentIsBounded'
    BY SpentStaysBounded
<1>4. SetupInv /\ UrlsAreShort /\ SpentIsBounded /\ IdleIsClean => SetupTypes
    <2> SUFFICES ASSUME SetupInv, UrlsAreShort, SpentIsBounded, IdleIsClean
                 PROVE  SetupTypes
        OBVIOUS
    <2>1. spent.secrets \in Nat /\ spent.secrets <= MaxSettings + MaxRuns
        <3>1. PICK s \in SpentState : s = spent
            BY DEF SetupInv, SetupShapes
        <3>2. s.settings \in Nat /\ s.runs \in Nat /\ s.secrets \in Nat
            BY DEF SpentState
        <3> QED
            BY <3>1, <3>2, SetupAssumption DEF SpentIsBounded
    <2>2. ASSUME NEW s \in Say, SaidIsShort(s), s.secret <= spent.secrets PROVE s \in Said
        <3>1. s.secret \in {0} \cup Secrets
            BY <2>1, <2>2, SetupAssumption DEF Say, Secrets
        <3> QED
            BY <2>2, <3>1 DEF Say, Said, SaidIsShort
    <2>3. ASSUME NEW says \in [Hooks -> Say], SaidAreShort(says), NoneAbove(says, spent.secrets)
          PROVE  says \in [Hooks -> Said]
        <3>1. ASSUME NEW h \in Hooks PROVE says[h] \in Said
            BY <2>2, <2>3 DEF SaidAreShort, NoneAbove
        <3> QED
            BY <3>1
    <2>4. desk \in DeskState /\ config \in ConfigState /\ setup \in SetupState
        BY DEF SetupInv, SetupShapes
    <2>5. desk.hook \in [Hooks -> Said] /\ config.print \in [Hooks -> Said]
        <3>1. desk.hook \in [Hooks -> Say] /\ config.print \in [Hooks -> Say]
            BY <2>4 DEF DeskState, ConfigState
        <3> QED
            BY <2>3, <3>1 DEF SetupInv, NoneNewer, UrlsAreShort
    <2>6. setup.want \in Said /\ setup.previous \in [Hooks -> Said] /\ setup.print \in [Hooks -> Said]
        <3>1. /\ setup.want \in Say /\ setup.previous \in [Hooks -> Say]
              /\ setup.print \in [Hooks -> Say]
            BY <2>4 DEF SetupState
        <3>2. CASE setup.step = "idle"
            <4>1. setup.want = Blank /\ \A h \in Hooks : setup.previous[h] = Blank /\ setup.print[h] = Blank
                BY <3>2 DEF IdleIsClean, NoRun
            <4>2. Blank \in Said
                BY DEF Blank, Said
            <4> QED
                BY <3>1, <4>1, <4>2
        <3>3. CASE setup.step # "idle"
            <4>1. NoneAbove(setup.previous, spent.secrets) /\ NoneAbove(setup.print, spent.secrets)
                BY <3>3 DEF SetupInv, NoneNewer, SecretsKept
            <4>2. setup.want.secret <= spent.secrets
                BY <3>3 DEF SetupInv, NoneNewer
            <4> QED
                BY <2>2, <2>3, <3>1, <4>1, <4>2 DEF UrlsAreShort
        <3> QED
            BY <3>2, <3>3
    <2>7. config.secret \in {0} \cup Secrets
        <3>1. config.secret \in Nat /\ config.secret <= spent.secrets
            BY <2>4 DEF ConfigState, SetupInv, NoneNewer
        <3> QED
            BY <2>1, <3>1, SetupAssumption DEF Secrets
    <2>8. desk \in [field : {"none", "right", "drifted", "other type"}, hook : [Hooks -> Said],
                    account : BOOLEAN, supplier : BOOLEAN, item : BOOLEAN]
        BY <2>4, <2>5 DEF DeskState, FieldLooks
    <2>9. config \in [url : Addresses, secret : {0} \cup Secrets, print : [Hooks -> Said]]
        BY <2>4, <2>5, <2>7 DEF ConfigState
    <2> QED
        BY <2>4, <2>6, <2>8, <2>9 DEF SetupTypes, SetupInv, SetupShapes, SetupState, RunSteps
<1>5. SetupInv /\ IdleIsClean /\ [SetupNext]_setupVars => IdleIsClean'
    BY IdleStaysClean
<1> QED
    BY <1>1, <1>2, <1>3, <1>4, <1>5, SetupStart, SetupKeeps, PTL DEF SetupSpec

-----------------------------------------------------------------------------
(***************************************************************************)
(* What is proved about MappingGate for every set of tabs and of pairs and *)
(* every bound: its types, and that nothing goes live that was not tried.  *)
(*                                                                         *)
(* The second is not inductive.  The signature on the row must be of a     *)
(* rehearsal that passed, or be noted as put there in place of one; a save *)
(* under way must be of something signed for, or have found the mapping    *)
(* running; and a fold under way writes the switch it found.               *)
(***************************************************************************)

USE GateAssumption

\* A row does something, and whatever a tab is busy with is of a row that is there.
DoesSomething ==
    /\ mapping.there => mapping.does \in Doings
    /\ \A t \in Tabs : tab[t].doing # "nothing" => mapping.there /\ tab[t].next \in Doings

\* A leg that passed and was recorded was tried.
LegWasTried ==
    \A t \in Tabs :
        tab[t].doing \in {"turning", "summing up"} /\ tab[t].passed => tab[t].next \in tried

\* What the row is signed for was tried, or signed in place of what was.
SignedIsTried == mapping.tested = NoDoing \/ mapping.tested \in tried \cup mistaken

\* A save that switches on passed the gate.
SaveIsAllowed ==
    \A t \in Tabs :
        tab[t].doing = "saving" /\ tab[t].on => tab[t].sawOn \/ tab[t].next \in tried \cup mistaken

\* A fold writes the switch it read.
FoldIsAsRead == \A t \in Tabs : tab[t].doing = "folding" => tab[t].on = tab[t].sawOn

GateInv ==
    /\ GateTypes /\ DoesSomething
    /\ LegWasTried /\ SignedIsTried /\ SaveIsAllowed /\ FoldIsAsRead

LiveStep ==
    ~mapping.on /\ mapping'.on =>
        \/ mapping'.does \in tried \cup mistaken
        \/ \E t \in Tabs : tab[t].doing \in {"saving", "folding"} /\ tab[t].sawOn

FlagStep ==
    mapping'.flagged /\ mapping'.on =>
        \/ mapping.flagged /\ mapping.on
        \/ \E t \in Tabs : tab[t].doing = "folding" /\ tab[t].sawOn

GateStep == LiveStep /\ FlagStep

-----------------------------------------------------------------------------
\* The empty mapping does nothing that could be tried.
LEMMA NoDoingIsNone == NoDoing \notin Doings
BY DEF NoDoing, Doings, Ways

LEMMA IdleTyped == IdleTab \in TabStates /\ IdleTab.doing = "nothing"
BY DEF IdleTab, TabStates

LEMMA NoCheckTyped == NoCheck \in Checks
BY DEF NoCheck, Checks

LEMMA InitHolds == GateInit => GateInv
<1> SUFFICES ASSUME GateInit PROVE GateInv
    OBVIOUS
<1>1. mapping \in MappingRows /\ mapping.tested = NoDoing /\ ~mapping.there
    BY DEF GateInit, NoMapping, MappingRows
<1>2. tab \in [Tabs -> TabStates] /\ \A t \in Tabs : tab[t].doing = "nothing"
    BY IdleTyped DEF GateInit
<1>3. GateTypes
    BY <1>1, <1>2, NoCheckTyped DEF GateInit, GateTypes
<1> QED
    BY <1>1, <1>2, <1>3
    DEF GateInv, DoesSomething, LegWasTried, SignedIsTried, SaveIsAllowed, FoldIsAsRead

\* What is folded in makes something a mapping can do.
LEMMA FoldedIsDoing ==
    ASSUME NEW a \in Doings \cup {NoDoing}, NEW b \in Doings
    PROVE  Folded(a, b) \in Doings
<1>1. a.way \in Ways \cup {"none"} /\ a.pairs \subseteq Pairs
    BY DEF Doings, NoDoing
<1>2. b.way \in Ways /\ b.pairs \subseteq Pairs
    BY DEF Doings
<1> QED
    BY <1>1, <1>2 DEF Folded, Doings, Ways

\* The types of a row's and of a tab's fields.
LEMMA RowFields ==
    ASSUME GateTypes
    PROVE  /\ mapping \in MappingRows
           /\ mapping.there \in BOOLEAN /\ mapping.on \in BOOLEAN
           /\ mapping.flagged \in BOOLEAN
           /\ mapping.does \in Doings \cup {NoDoing} /\ mapping.tested \in Doings \cup {NoDoing}
           /\ \A t \in Tabs : /\ tab[t] \in TabStates
                              /\ tab[t].next \in Doings \cup {NoDoing}
                              /\ tab[t].on \in BOOLEAN /\ tab[t].sawOn \in BOOLEAN
                              /\ tab[t].passed \in BOOLEAN /\ tab[t].pushed \in BOOLEAN
<1>1. mapping \in MappingRows /\ tab \in [Tabs -> TabStates]
    BY DEF GateTypes
<1> QED
    BY <1>1 DEF MappingRows, TabStates

\* A change of one tab is a change of that one.
LEMMA TabSet ==
    ASSUME GateTypes, NEW t \in Tabs, NEW new \in TabStates, tab' = [tab EXCEPT ![t] = new]
    PROVE  /\ tab' \in [Tabs -> TabStates]
           /\ \A s \in Tabs : tab'[s] = IF s = t THEN new ELSE tab[s]
<1>1. tab \in [Tabs -> TabStates]
    BY DEF GateTypes
<1> QED
    BY <1>1

-----------------------------------------------------------------------------
\* A tab that takes something up leaves the row as it is.
LEMMA TabStartKeeps ==
    ASSUME GateInv, NEW t \in Tabs, NEW new \in TabStates,
           tab' = [tab EXCEPT ![t] = new], UNCHANGED <<mapping, listed, check, tried, mistaken>>,
           mapping.there, new.next \in Doings,
           new.doing \in {"saving", "folding", "rehearsed"},
           new.doing = "saving" /\ new.on => new.sawOn \/ new.next \in tried \cup mistaken,
           new.doing = "folding" => new.on = new.sawOn
    PROVE  GateInv' /\ GateStep
<1>1. tab' \in [Tabs -> TabStates] /\ \A s \in Tabs : tab'[s] = IF s = t THEN new ELSE tab[s]
    BY TabSet DEF GateInv
<1>2. GateTypes'
    BY <1>1 DEF GateInv, GateTypes
<1>3. DoesSomething' /\ LegWasTried' /\ SignedIsTried' /\ SaveIsAllowed' /\ FoldIsAsRead'
    BY <1>1 DEF GateInv, DoesSomething, LegWasTried, SignedIsTried, SaveIsAllowed, FoldIsAsRead
<1> QED
    BY <1>2, <1>3 DEF GateInv, GateStep, LiveStep, FlagStep

\* A save that passed the gate is noted.
LEMMA StartSaveKeeps ==
    ASSUME GateInv, NEW t \in Tabs, NEW next \in Doings, NEW on \in BOOLEAN,
           StartSave(t, next, on)
    PROVE  GateInv' /\ GateStep
<1> DEFINE saw == mapping.on
           new == [IdleTab EXCEPT !.doing = "saving", !.next = next, !.on = on, !.sawOn = saw]
<1>1. /\ UNCHANGED <<mapping, listed, check, tried, mistaken>> /\ mapping.there
      /\ MayEnable(next, on) /\ tab' = [tab EXCEPT ![t] = new]
    BY DEF StartSave
<1>2. saw \in BOOLEAN
    BY RowFields DEF GateInv
<1>3. on => saw \/ next \in tried \cup mistaken
    BY <1>1, NoDoingIsNone DEF MayEnable, Tested, SignedIsTried, GateInv
<1> HIDE DEF saw
<1>4. /\ new \in TabStates /\ new.doing = "saving" /\ new.next = next
      /\ new.on = on /\ new.sawOn = saw
    BY <1>2, IdleTyped DEF TabStates
<1> HIDE DEF new
<1> QED
    BY <1>1, <1>3, <1>4, TabStartKeeps

\* A fold notes the switch and what the row will do.
LEMMA StartFoldKeeps ==
    ASSUME GateInv, NEW t \in Tabs, NEW next \in Doings, StartFold(t, next)
    PROVE  GateInv' /\ GateStep
<1> DEFINE saw == mapping.on
           f == Folded(mapping.does, next)
           new == [IdleTab EXCEPT !.doing = "folding", !.on = saw, !.sawOn = saw,
                                  !.next = f]
<1>1. /\ UNCHANGED <<mapping, listed, check, tried, mistaken>> /\ mapping.there
      /\ tab' = [tab EXCEPT ![t] = new]
    BY DEF StartFold
<1>2. saw \in BOOLEAN /\ mapping.does \in Doings \cup {NoDoing}
    BY RowFields DEF GateInv
<1>3. f \in Doings
    BY <1>2, FoldedIsDoing
<1> HIDE DEF saw, f
<1>4. /\ new \in TabStates /\ new.doing = "folding" /\ new.next = f
      /\ new.on = saw /\ new.sawOn = saw
    BY <1>2, <1>3, IdleTyped DEF TabStates
<1> HIDE DEF new
<1> QED
    BY <1>1, <1>3, <1>4, TabStartKeeps

\* A tab begins or goes on with a rehearsal of what the row does.
LEMMA RehearseKeeps ==
    ASSUME GateInv, NEW t \in Tabs, NEW described \in BOOLEAN, Rehearse(t, described)
    PROVE  GateInv' /\ GateStep
<1> DEFINE l == IF mapping.does.way = "pull" THEN "pull" ELSE "push"
           p == Passes(mapping.does, l, described)
           b == (mapping.does.way = "both")
           new == [IdleTab EXCEPT !.doing = "rehearsed", !.next = mapping.does, !.passed = p,
                                  !.leg = l, !.both = b]
<1>1. /\ mapping.there /\ tab' = [tab EXCEPT ![t] = new]
      /\ UNCHANGED <<mapping, listed, check, tried, mistaken>>
    BY DEF Rehearse
<1>2. l \in {"push", "pull"} /\ p \in BOOLEAN /\ b \in BOOLEAN
    BY DEF Passes
<1>3. mapping.does \in Doings
    BY <1>1 DEF GateInv, DoesSomething
<1> HIDE DEF l, p, b
<1>4. new \in TabStates /\ new.doing = "rehearsed" /\ new.next = mapping.does
    BY <1>2, <1>3, IdleTyped DEF TabStates
<1> HIDE DEF new
<1> QED
    BY <1>1, <1>3, <1>4, TabStartKeeps

LEMMA RehearsePullKeeps ==
    ASSUME GateInv, NEW t \in Tabs, NEW described \in BOOLEAN, RehearsePull(t, described)
    PROVE  GateInv' /\ GateStep
<1> DEFINE p == Passes(mapping.does, "pull", described)
           q == tab[t].passed
           new == [tab[t] EXCEPT !.doing = "rehearsed", !.leg = "pull", !.next = mapping.does,
                                 !.passed = p, !.pushed = q]
<1>1. tab \in [Tabs -> TabStates] /\ tab[t] \in TabStates /\ q \in BOOLEAN
    BY RowFields DEF GateInv, GateTypes
<1>2. tab[t].doing = "turning" /\ UNCHANGED <<mapping, listed, check, tried, mistaken>>
    BY DEF RehearsePull
<1>3. tab' = [tab EXCEPT ![t] = new]
    BY <1>1 DEF RehearsePull
<1>4. p \in BOOLEAN /\ mapping.there /\ mapping.does \in Doings
    BY <1>2 DEF Passes, GateInv, DoesSomething
<1> HIDE DEF p, q
<1>5. new \in TabStates /\ new.doing = "rehearsed" /\ new.next = mapping.does
    BY <1>1, <1>4 DEF TabStates
<1> HIDE DEF new
<1> QED
    BY <1>2, <1>3, <1>4, <1>5, TabStartKeeps

\* Tabs that stop in the middle leave nothing behind.
LEMMA StopKeeps ==
    ASSUME GateInv, tab' \in [Tabs -> TabStates],
           \A t \in Tabs : tab'[t] = tab[t] \/ tab'[t] = IdleTab,
           check' \in {check, NoCheck}, UNCHANGED <<mapping, listed, tried, mistaken>>
    PROVE  GateInv' /\ GateStep
<1>1. GateTypes'
    BY NoCheckTyped DEF GateInv, GateTypes
<1>2. DoesSomething' /\ LegWasTried' /\ SignedIsTried' /\ SaveIsAllowed' /\ FoldIsAsRead'
    BY IdleTyped DEF GateInv, DoesSomething, LegWasTried, SignedIsTried, SaveIsAllowed, FoldIsAsRead
<1> QED
    BY <1>1, <1>2 DEF GateInv, GateStep, LiveStep, FlagStep

-----------------------------------------------------------------------------
\* A row written by a tab that is done with it; what it was signed for stays.
LEMMA RowWriteKeeps ==
    ASSUME GateInv, NEW t \in Tabs, mapping' \in MappingRows,
           mapping'.does \in Doings, mapping'.there = mapping.there,
           mapping'.tested = mapping.tested,
           tab' = [tab EXCEPT ![t] = IdleTab], listed' \in BOOLEAN,
           UNCHANGED <<check, tried, mistaken>>
    PROVE  GateInv'
<1>1. tab' \in [Tabs -> TabStates] /\ \A s \in Tabs : tab'[s] = IF s = t THEN IdleTab ELSE tab[s]
    BY IdleTyped, TabSet DEF GateInv
<1>2. GateTypes'
    BY <1>1 DEF GateInv, GateTypes
<1> QED
    BY <1>1, <1>2, IdleTyped
    DEF GateInv, DoesSomething, LegWasTried, SignedIsTried, SaveIsAllowed, FoldIsAsRead

\* What the gate let through is written.
LEMMA WriteSaveKeeps ==
    ASSUME GateInv, NEW t \in Tabs, WriteSave(t)
    PROVE  GateInv' /\ GateStep
<1> DEFINE on == tab[t].on
           next == tab[t].next
           flag == mapping.flagged /\ ~on
           new == [mapping EXCEPT !.on = on, !.does = next, !.flagged = flag]
<1>1. /\ tab[t].doing = "saving" /\ UNCHANGED <<check, tried, mistaken>>
      /\ Relist /\ tab' = [tab EXCEPT ![t] = IdleTab]
    BY DEF WriteSave
<1>2. /\ mapping \in MappingRows /\ on \in BOOLEAN /\ flag \in BOOLEAN
    BY RowFields DEF GateInv
<1>3. mapping' = new
    BY DEF WriteSave
<1>4. flag => ~on
    OBVIOUS
<1>5. next \in Doings /\ (on => tab[t].sawOn \/ next \in tried \cup mistaken)
    BY <1>1 DEF GateInv, DoesSomething, SaveIsAllowed
<1> HIDE DEF on, next, flag
<1>6. /\ new \in MappingRows /\ new.on = on /\ new.does = next /\ new.flagged = flag
      /\ new.there = mapping.there /\ new.tested = mapping.tested
    BY <1>2, <1>5 DEF MappingRows
<1> HIDE DEF new
<1>7. listed' \in BOOLEAN
    BY <1>1 DEF Relist, Selects
<1>8. GateInv'
    BY <1>1, <1>3, <1>5, <1>6, <1>7, RowWriteKeeps
<1>9. GateStep
    BY <1>1, <1>3, <1>4, <1>5, <1>6 DEF GateStep, LiveStep, FlagStep
<1> QED
    BY <1>8, <1>9

\* What the fold read is written, with what it adds.
LEMMA WriteFoldKeeps ==
    ASSUME GateInv, NEW t \in Tabs, WriteFold(t)
    PROVE  GateInv' /\ GateStep
<1> DEFINE on == tab[t].on
           next == tab[t].next
           new == [mapping EXCEPT !.on = on, !.does = next]
<1>1. /\ tab[t].doing = "folding" /\ UNCHANGED <<check, tried, mistaken>>
      /\ Relist /\ tab' = [tab EXCEPT ![t] = IdleTab]
    BY DEF WriteFold
<1>2. mapping \in MappingRows /\ on \in BOOLEAN
    BY RowFields DEF GateInv
<1>3. mapping' = new
    BY DEF WriteFold
<1>4. next \in Doings /\ on = tab[t].sawOn
    BY <1>1 DEF GateInv, DoesSomething, FoldIsAsRead
<1> HIDE DEF on, next
<1>5. /\ new \in MappingRows /\ new.on = on /\ new.does = next
      /\ new.there = mapping.there /\ new.tested = mapping.tested
    BY <1>2, <1>4 DEF MappingRows
<1> HIDE DEF new
<1>6. listed' \in BOOLEAN
    BY <1>1 DEF Relist, Selects
<1>7. GateInv'
    BY <1>1, <1>3, <1>4, <1>5, <1>6, RowWriteKeeps
<1>8. GateStep
    BY <1>1, <1>3, <1>4, <1>5 DEF GateStep, LiveStep, FlagStep
<1> QED
    BY <1>7, <1>8

-----------------------------------------------------------------------------
\* A rehearsal's outcome is signed: what was looked at was tried, or what is signed in
\* its stead is noted.
LEMMA RecordedSigns ==
    ASSUME GateInv, NEW passed \in BOOLEAN, NEW looked, Recorded(passed, looked),
           mapping.there, tried' \subseteq Doings, tried \subseteq tried',
           passed => looked \in tried'
    PROVE  /\ mapping' \in MappingRows /\ mapping'.there = mapping.there
           /\ mapping'.on = mapping.on /\ mapping'.does = mapping.does
           /\ mapping'.flagged = mapping.flagged
           /\ mistaken' \subseteq Doings /\ mistaken \subseteq mistaken'
           /\ SignedIsTried'
<1> DEFINE next == IF passed THEN mapping.does ELSE NoDoing
           row == [mapping EXCEPT !.tested = next]
<1>1. /\ mapping' = row
      /\ mistaken' = IF passed /\ mapping.does # looked THEN mistaken \cup {mapping.does}
                     ELSE mistaken
    BY DEF Recorded
<1>2. mapping \in MappingRows /\ mapping.does \in Doings /\ mistaken \subseteq Doings
    BY RowFields DEF GateInv, GateTypes, DoesSomething
<1>3. next \in Doings \cup {NoDoing} /\ (next = NoDoing \/ (next = mapping.does /\ passed))
    BY <1>2
<1> HIDE DEF next
<1>4. /\ row \in MappingRows /\ row.there = mapping.there /\ row.on = mapping.on
      /\ row.does = mapping.does /\ row.tested = next /\ row.flagged = mapping.flagged
    BY <1>2, <1>3 DEF MappingRows
<1> HIDE DEF row
<1>5. mistaken' \subseteq Doings /\ mistaken \subseteq mistaken'
    BY <1>1, <1>2
<1>6. passed => mapping.does \in tried' \cup mistaken'
    BY <1>1
<1>7. SignedIsTried'
    BY <1>1, <1>3, <1>4, <1>6 DEF SignedIsTried
<1> QED
    BY <1>1, <1>4, <1>5, <1>7

\* A leg that passed, or did not, is recorded; the other leg of a mapping that goes both
\* ways follows, or the sum of the two.
LEMMA RecordTestKeeps ==
    ASSUME GateInv, NEW t \in Tabs, RecordTest(t)
    PROVE  GateInv' /\ GateStep
<1> DEFINE d == IF tab[t].leg = "push" THEN "turning" ELSE "summing up"
           on == [tab[t] EXCEPT !.doing = d]
           new == IF ~tab[t].both THEN IdleTab ELSE on
<1>1. /\ tab[t].doing = "rehearsed" /\ listed' = listed /\ check' = check
      /\ Recorded(tab[t].passed, tab[t].next)
      /\ tried' = IF tab[t].passed THEN tried \cup {tab[t].next} ELSE tried
      /\ tab' = [tab EXCEPT ![t] = new]
    BY DEF RecordTest
<1>2. tab[t] \in TabStates /\ tab[t].passed \in BOOLEAN /\ d \in {"turning", "summing up"}
    BY RowFields DEF GateInv
<1>3. mapping.there /\ tab[t].next \in Doings
    BY <1>1 DEF GateInv, DoesSomething
<1> HIDE DEF d
<1>4. /\ on \in TabStates /\ on.doing = d /\ on.next = tab[t].next
      /\ on.passed = tab[t].passed
    BY <1>2 DEF TabStates
<1> HIDE DEF on
<1>5. /\ new \in TabStates
      /\ \/ new = IdleTab
         \/ new.doing = d /\ new.next = tab[t].next /\ new.passed = tab[t].passed
    BY <1>4, IdleTyped
<1> HIDE DEF new
<1>6. tab' \in [Tabs -> TabStates] /\ \A s \in Tabs : tab'[s] = IF s = t THEN new ELSE tab[s]
    BY <1>1, <1>5, TabSet DEF GateInv
<1>7. /\ tried' \subseteq Doings /\ tried \subseteq tried'
      /\ tab[t].passed => tab[t].next \in tried'
    BY <1>1, <1>3 DEF GateInv, GateTypes
<1>8. /\ mapping' \in MappingRows /\ mapping'.there = mapping.there
      /\ mapping'.on = mapping.on /\ mapping'.does = mapping.does
      /\ mapping'.flagged = mapping.flagged
      /\ mistaken' \subseteq Doings /\ mistaken \subseteq mistaken'
      /\ SignedIsTried'
    BY <1>1, <1>2, <1>3, <1>7, RecordedSigns
<1>9. GateTypes'
    BY <1>1, <1>6, <1>7, <1>8 DEF GateInv, GateTypes
<1>10. DoesSomething'
    BY <1>3, <1>5, <1>6, <1>8, IdleTyped DEF GateInv, DoesSomething
<1>11. LegWasTried'
    BY <1>5, <1>6, <1>7, IdleTyped DEF GateInv, LegWasTried
<1>12. SaveIsAllowed' /\ FoldIsAsRead'
    BY IdleTyped, <1>2, <1>5, <1>6, <1>7, <1>8 DEF GateInv, SaveIsAllowed, FoldIsAsRead
<1>13. GateStep
    BY <1>8 DEF GateStep, LiveStep, FlagStep
<1> QED
    BY <1>8, <1>9, <1>10, <1>11, <1>12, <1>13 DEF GateInv

\* The sum of the two legs is recorded, and the tab is done.
LEMMA SumUpKeeps ==
    ASSUME GateInv, NEW t \in Tabs, SumUp(t)
    PROVE  GateInv' /\ GateStep
<1> DEFINE p == tab[t].passed /\ tab[t].pushed
           looked == tab[t].next
<1>1. /\ tab[t].doing = "summing up"
      /\ listed' = listed /\ check' = check /\ tried' = tried
      /\ Recorded(p, looked) /\ tab' = [tab EXCEPT ![t] = IdleTab]
    BY DEF SumUp
<1>2. p \in BOOLEAN
    OBVIOUS
<1>3. mapping.there /\ (p => looked \in tried)
    BY <1>1 DEF GateInv, DoesSomething, LegWasTried
<1>4. tried' \subseteq Doings /\ tried \subseteq tried'
    BY <1>1 DEF GateInv, GateTypes
<1> HIDE DEF p, looked
<1>5. /\ mapping' \in MappingRows /\ mapping'.there = mapping.there
      /\ mapping'.on = mapping.on /\ mapping'.does = mapping.does
      /\ mapping'.flagged = mapping.flagged
      /\ mistaken' \subseteq Doings /\ mistaken \subseteq mistaken'
      /\ SignedIsTried'
    BY <1>1, <1>2, <1>3, <1>4, RecordedSigns
<1>6. tab' \in [Tabs -> TabStates] /\ \A s \in Tabs : tab'[s] = IF s = t THEN IdleTab ELSE tab[s]
    BY <1>1, IdleTyped, TabSet DEF GateInv
<1>7. GateTypes'
    BY <1>1, <1>4, <1>5, <1>6 DEF GateInv, GateTypes
<1>8. DoesSomething' /\ LegWasTried' /\ SaveIsAllowed' /\ FoldIsAsRead'
    BY <1>1, <1>5, <1>6, IdleTyped
    DEF GateInv, DoesSomething, LegWasTried, SaveIsAllowed, FoldIsAsRead
<1>9. GateStep
    BY <1>5 DEF GateStep, LiveStep, FlagStep
<1> QED
    BY <1>5, <1>7, <1>8, <1>9 DEF GateInv

-----------------------------------------------------------------------------
LEMMA CreateKeeps ==
    ASSUME GateInv, NEW next \in Doings, Create(next)
    PROVE  GateInv' /\ GateStep
<1> DEFINE new == [NoMapping EXCEPT !.there = TRUE, !.does = next]
<1>1. /\ mapping' = new /\ Relist /\ tab' = tab /\ check' = check /\ tried' = tried
      /\ mistaken' = mistaken /\ ~mapping.there
    BY DEF Create
<1>2. /\ NoMapping \in MappingRows /\ ~NoMapping.on /\ NoMapping.tested = NoDoing
      /\ ~NoMapping.flagged
    BY DEF NoMapping, MappingRows
<1>3. /\ new \in MappingRows /\ new.there /\ ~new.on /\ new.tested = NoDoing
      /\ new.does = next /\ ~new.flagged
    BY <1>2 DEF MappingRows
<1>4. \A t \in Tabs : tab[t].doing = "nothing"
    BY <1>1 DEF GateInv, DoesSomething
<1> HIDE DEF new
<1>5. GateTypes'
    BY <1>1, <1>3 DEF GateInv, GateTypes, Relist, Selects
<1> QED
    BY <1>1, <1>3, <1>4, <1>5
    DEF GateInv, DoesSomething, LegWasTried, SignedIsTried, SaveIsAllowed, FoldIsAsRead,
        GateStep, LiveStep, FlagStep

LEMMA DeleteKeeps ==
    ASSUME GateInv, Delete
    PROVE  GateInv' /\ GateStep
<1>1. /\ mapping' = NoMapping /\ Relist /\ tried' = tried /\ mistaken' = mistaken
      /\ tab' = [t \in Tabs |-> IdleTab] /\ check' = NoCheck
    BY DEF Delete
<1>2. /\ NoMapping \in MappingRows /\ ~NoMapping.on /\ NoMapping.tested = NoDoing
      /\ ~NoMapping.there /\ ~NoMapping.flagged
    BY DEF NoMapping, MappingRows
<1>3. tab' \in [Tabs -> TabStates] /\ \A t \in Tabs : tab'[t].doing = "nothing"
    BY <1>1, IdleTyped
<1>4. GateTypes'
    BY <1>1, <1>2, <1>3, NoCheckTyped DEF GateInv, GateTypes, Relist, Selects
<1> QED
    BY <1>1, <1>2, <1>3, <1>4
    DEF GateInv, DoesSomething, LegWasTried, SignedIsTried, SaveIsAllowed, FoldIsAsRead,
        GateStep, LiveStep, FlagStep

LEMMA StartCheckKeeps ==
    ASSUME GateInv, StartCheck
    PROVE  GateInv' /\ GateStep
<1>1. /\ check' = [asks |-> TRUE, flagged |-> mapping.flagged]
      /\ UNCHANGED <<mapping, listed, tab, tried, mistaken>>
    BY DEF StartCheck
<1>2. mapping.flagged \in BOOLEAN
    BY RowFields DEF GateInv
<1>3. check' \in Checks
    BY <1>1, <1>2 DEF Checks
<1>4. GateTypes'
    BY <1>1, <1>3 DEF GateInv, GateTypes
<1> QED
    BY <1>1, <1>4
    DEF GateInv, DoesSomething, LegWasTried, SignedIsTried, SaveIsAllowed, FoldIsAsRead,
        GateStep, LiveStep, FlagStep

\* The drift check writes the switch, the flag and the version alone, and never
\* switches on.
LEMMA EndCheckKeeps ==
    ASSUME GateInv, EndCheck
    PROVE  GateInv' /\ GateStep
<1>1. Gone \/ AllThere \/ mapping' = mapping
    BY DEF EndCheck
<1>2. check' = NoCheck /\ UNCHANGED <<listed, tab, tried, mistaken>>
    BY DEF EndCheck
<1>3. mapping \in MappingRows /\ GateTypes
    BY RowFields DEF GateInv
<1>4. /\ mapping' \in MappingRows
      /\ mapping'.there = mapping.there /\ mapping'.does = mapping.does
      /\ mapping'.tested = mapping.tested
      /\ mapping'.on => mapping.on
      /\ mapping'.on /\ mapping'.flagged => mapping.flagged
    <2>1. CASE Gone
        BY <1>3, <2>1 DEF Gone, MappingRows
    <2>2. CASE AllThere
        <3>1. mapping' = [mapping EXCEPT !.flagged = FALSE] \/ mapping' = mapping
            BY <2>2 DEF AllThere
        <3> QED
            BY <1>3, <3>1 DEF MappingRows
    <2>3. CASE mapping' = mapping
        BY <1>3, <2>3
    <2> QED
        BY <1>1, <2>1, <2>2, <2>3
<1>5. GateTypes'
    BY <1>2, <1>3, <1>4, NoCheckTyped DEF GateTypes
<1> QED
    BY <1>2, <1>4, <1>5
    DEF GateInv, DoesSomething, LegWasTried, SignedIsTried, SaveIsAllowed, FoldIsAsRead,
        GateStep, LiveStep, FlagStep

LEMMA TabKeeps ==
    ASSUME GateInv, NEW t \in Tabs, TabStep(t)
    PROVE  GateInv' /\ GateStep
<1>1. CASE \E next \in Doings, on \in BOOLEAN : StartSave(t, next, on)
    BY <1>1, StartSaveKeeps
<1>2. CASE Seed(t)
    <2>1. StartSave(t, Shipped, TRUE) /\ Shipped \in Doings
        BY <1>2 DEF Seed
    <2> QED
        BY <2>1, StartSaveKeeps
<1>3. CASE WriteSave(t)
    BY <1>3, WriteSaveKeeps
<1>4. CASE \E next \in Doings : StartFold(t, next)
    BY <1>4, StartFoldKeeps
<1>5. CASE WriteFold(t)
    BY <1>5, WriteFoldKeeps
<1>6. CASE \E described \in BOOLEAN : Rehearse(t, described)
    BY <1>6, RehearseKeeps
<1>7. CASE \E described \in BOOLEAN : RehearsePull(t, described)
    BY <1>7, RehearsePullKeeps
<1>8. CASE RecordTest(t)
    BY <1>8, RecordTestKeeps
<1>9. CASE SumUp(t)
    BY <1>9, SumUpKeeps
<1>10. CASE Abandon(t)
    <2>1. tab' = [tab EXCEPT ![t] = IdleTab] /\ UNCHANGED <<mapping, listed, check, tried, mistaken>>
        BY <1>10 DEF Abandon
    <2>2. tab' \in [Tabs -> TabStates]
          /\ \A s \in Tabs : tab'[s] = IF s = t THEN IdleTab ELSE tab[s]
        BY <2>1, IdleTyped, TabSet DEF GateInv
    <2> QED
        BY <2>1, <2>2, StopKeeps
<1> QED
    BY <1>1, <1>2, <1>3, <1>4, <1>5, <1>6, <1>7, <1>8, <1>9, <1>10 DEF TabStep

\* Every step keeps the invariant, and switches on nothing untried or flagged.
LEMMA StepKeeps ==
    ASSUME GateInv, [GateNext]_gateVars
    PROVE  GateInv' /\ [GateStep]_gateVars
<1>1. CASE \E t \in Tabs : TabStep(t)
    BY <1>1, TabKeeps
<1>2. CASE \E next \in Doings : Create(next)
    BY <1>2, CreateKeeps
<1>3. CASE Delete
    BY <1>3, DeleteKeeps
<1>4. CASE StartCheck
    BY <1>4, StartCheckKeeps
<1>5. CASE EndCheck
    BY <1>5, EndCheckKeeps
<1>6. CASE GateCrash
    <2>1. /\ tab' = [t \in Tabs |-> IdleTab] /\ check' = NoCheck
          /\ UNCHANGED <<mapping, listed, tried, mistaken>>
        BY <1>6 DEF GateCrash
    <2>2. tab' \in [Tabs -> TabStates] /\ \A t \in Tabs : tab'[t] = IdleTab
        BY <2>1, IdleTyped
    <2> QED
        BY <2>1, <2>2, StopKeeps
<1>7. CASE UNCHANGED gateVars
    BY <1>7 DEF gateVars, GateInv, GateTypes, DoesSomething, LegWasTried,
                SignedIsTried, SaveIsAllowed, FoldIsAsRead
<1> QED
    BY <1>1, <1>2, <1>3, <1>4, <1>5, <1>6, <1>7 DEF GateNext

\* What a row is signed for was tried, or is noted as signed in place of what was; a save
\* under way that switches on found the mapping running or signed for; and a fold writes
\* the switch it read, while rows are edited during rehearsals and between a fold's read
\* and its write (saveMapping, dryRunPush, dryRunPull, recordMappingTest).
THEOREM GateHolds == GateSpec => []GateInv
<1>1. GateInv /\ [GateNext]_gateVars => GateInv'
    BY StepKeeps
<1> QED
    BY InitHolds, <1>1, PTL DEF GateSpec

\* The gate of saveMapping: whatever tabs, folds, reseeds, deletions and restarts do, a
\* mapping goes live only as somebody tried it or as was signed during a rehearsal of
\* something else, or by a save or fold that found it running.
THEOREM LiveWasTriedHolds == GateSpec => LiveWasTried
<1>1. GateInv /\ [GateNext]_gateVars => [LiveStep]_gateVars
    BY StepKeeps DEF GateStep
<1>2. GateSpec => [][LiveStep]_gateVars
    BY GateHolds, <1>1, PTL DEF GateSpec
<1> QED
    BY <1>2 DEF LiveWasTried, LiveStep

\* checkMappingDrift: a mapping it flagged runs again with its flag only by a fold that
\* found it running before the flag was set.
THEOREM FlaggedIsOffHolds == GateSpec => FlaggedIsOff
<1>1. GateInv /\ [GateNext]_gateVars => [FlagStep]_gateVars
    BY StepKeeps DEF GateStep
<1>2. GateSpec => [][FlagStep]_gateVars
    BY GateHolds, <1>1, PTL DEF GateSpec
<1> QED
    BY <1>2 DEF FlaggedIsOff, FlagStep

-----------------------------------------------------------------------------
(***************************************************************************)
(* What is proved about FieldMapping for any instants, wall-clock times,   *)
(* number of edits and zones with one change of whole seconds: a pair that *)
(* has gone both ways has settled (CopiesSettle).                          *)
(*                                                                         *)
(* The point is that the two conversions of every pair of types lose       *)
(* nothing more the second time (GoesAndComes): what goes out, comes back  *)
(* and goes out again is what went out.  So once each side holds what the  *)
(* other would write (PairRests), going either way writes what is there.   *)
(***************************************************************************)

(* What each side can hold. *)

\* Well-formed values of each kind.
IsText(v) == v = Text(v.reads, v.n) /\ v.n \in Int
IsNumber(v) == v = Number(v.n) /\ v.n \in Int
IsBool(v) == v \in {Bool(0), Bool(1)}
IsInstant(v) == v = Instant(v.n) /\ v.n \in Int
IsList(v) == v = V("list", v.reads, v.n) /\ v.n \in Int
IsWall(v) == v = Text("wall", v.n) /\ v.n \in Int /\ v.n % 2 = 0 /\ ~Skipped(v.n)
IsDay(v) == v = Text("day", v.n) /\ v.n \in Int /\ v.n % 2 = 0 /\ v.n = DayStart(v.n)

\* What a field of the store of type m holds, and one of ERPNext's of type f beside it.
StoreHolds(m, v) ==
    CASE m = "string" -> IsText(v) [] m = "number" -> IsNumber(v) [] m = "boolean" -> IsBool(v)
      [] m = "datetime" -> IsInstant(v) [] OTHER -> IsList(v)
DeskHolds(m, f, v) ==
    CASE f \in {"text", "time"} -> IsText(v) \/ (m = "datetime" /\ IsInstant(v))
      [] f = "float" -> IsNumber(v)
      [] f = "int" -> IsNumber(v) /\ v.n = 10 * (v.n \div 10)
      [] f = "check" -> v \in {Number(0), Number(10)}
      [] f = "date" -> IsDay(v) [] f = "datetime" -> IsWall(v)
      [] OTHER -> v = Text("json", v.n) /\ v.n \in Int

(* There and back. *)

\* A push's conversion and a pull's.
Out(m, f, v) == Coerced(v, PushVerdict(m, f).code)
In(m, f, v) == Coerced(v, PullVerdict(m, f).code)
\* Each gives what the other side can hold; and once there and back, or once back and
\* there, either leaves nothing to change.
GoesAndComes(m, f) ==
    /\ \A v : StoreHolds(m, v) /\ Out(m, f, v) # Unconvertible => DeskHolds(m, f, Out(m, f, v))
    /\ \A v : DeskHolds(m, f, v) /\ In(m, f, v) # Unconvertible => StoreHolds(m, In(m, f, v))
    /\ \A v : StoreHolds(m, v) =>
          LET out == Out(m, f, v)
              back == In(m, f, out)
          IN  out # Unconvertible /\ back # Unconvertible => Out(m, f, back) \in {out, Unconvertible}
    /\ \A v : DeskHolds(m, f, v) =>
          LET in == In(m, f, v)
              back == Out(m, f, in)
          IN  in # Unconvertible /\ back # Unconvertible => In(m, f, back) \in {in, Unconvertible}

\* No zone's change skips a midnight before it, nor a whole day: clocks put forward at
\* midnight or later east of Greenwich, and never across one west of it.
NoMidnightIsLost ==
    \A z \in Zones : \A k \in Int :
        z.at + z.before <= k * DayLength /\ k * DayLength < z.at + z.after
            => z.at <= k * DayLength /\ z.after - z.before < DayLength

-----------------------------------------------------------------------------
(* Each conversion, on the values it meets. *)

Yes(n) == IF n # 0 THEN 1 ELSE 0

LEMMA ValueFields ==
    /\ \A r, n : Text(r, n).reads = r /\ Text(r, n).n = n /\ Text(r, n) # Unconvertible
    /\ \A n : Number(n).n = n /\ Number(n) # Unconvertible
    /\ \A n : Bool(n).n = n /\ Bool(n) # Unconvertible
    /\ \A n : Instant(n).n = n /\ Instant(n) # Unconvertible
    /\ \A r, n : V("list", r, n).reads = r /\ V("list", r, n).n = n /\ V("list", r, n) # Unconvertible
    /\ \A n : List(n) = V("list", "words", n)
BY DEF Text, V, Number, Bool, Instant, List, Unconvertible

LEMMA Yeses ==
    ASSUME NEW n
    PROVE  /\ Yes(n) \in {0, 1} /\ 10 * Yes(n) \in {0, 10} /\ Yes(10 * Yes(n)) = Yes(n)
BY DEF Yes

LEMMA AsItIs == \A v : Coerced(v, "") = v
BY DEF Coerced

LEMMA AsText ==
    \A n : /\ Coerced(Number(n), "text") = Text("number", n)
           /\ Coerced(Bool(n), "text") = Text("true/false", n)
BY DEF Coerced, Number, Bool, Text, V

LEMMA AsNumber ==
    \A r, n : Coerced(Text(r, n), "number")
                 = IF r \in {"number", "padded"} THEN Number(n) ELSE Unconvertible
BY DEF Coerced, Number, Text, V, IsNumeric, NumberIn

LEMMA AsInteger ==
    /\ \A r, n : Coerced(Text(r, n), "integer")
                   = IF r \in {"number", "padded"} THEN Number(10 * (n \div 10)) ELSE Unconvertible
    /\ \A n : Coerced(Number(n), "integer") = Number(10 * (n \div 10))
BY DEF Coerced, Number, Text, V, IsNumeric, NumberIn

LEMMA AsCheck ==
    /\ \A r, n : Coerced(Text(r, n), "check")
                   = IF r \in {"true/false", "yes/no"} \/ (r = "number" /\ n \in {0, 10})
                     THEN Number(10 * Yes(n)) ELSE Unconvertible
    /\ \A n : Coerced(Number(n), "check") = Number(10 * Yes(n))
    /\ \A n : Coerced(Bool(n), "check") = Number(10 * Yes(n))
BY DEF Coerced, Number, Text, V, Bool, IsYesNo, YesIn, Yes

LEMMA AsBoolean ==
    /\ \A r, n : Coerced(Text(r, n), "boolean")
                   = IF r \in {"true/false", "yes/no"} \/ (r = "number" /\ n \in {0, 10})
                     THEN Bool(Yes(n)) ELSE Unconvertible
    /\ \A n : Coerced(Number(n), "boolean") = Bool(Yes(n))
BY DEF Coerced, Number, Text, V, Bool, IsYesNo, YesIn, Yes

LEMMA AsJson ==
    /\ \A r, n : Coerced(V("list", r, n), "json") = Text("json", n)
    /\ \A r, n : Coerced(Text(r, n), "parse_json") = IF r = "json" THEN List(n) ELSE Unconvertible
BY DEF Coerced, Text, V, List

LEMMA AsList ==
    /\ \A r, n : Coerced(V("list", r, n), "join") = Text(r, n)
    /\ \A r, n : Coerced(Text(r, n), "split") = V("list", r, n)
BY DEF Coerced, Text, V

LEMMA AsDateIso ==
    /\ \A n : Coerced(Instant(n), "date_iso") = Instant(n)
    /\ \A r, n : Coerced(Text(r, n), "date_iso")
                   = IF r \in {"wall", "day"} THEN Instant(ZonedToUtc(n)) ELSE Unconvertible
BY DEF Coerced, Text, V, Instant, IsDate, InstantIn

LEMMA AsDatetime ==
    /\ \A n : Coerced(Instant(n), "datetime") = Text("wall", WallOf(n))
    /\ \A r, n : Coerced(Text(r, n), "datetime")
          = IF r \in {"wall", "day"} THEN Text("wall", WallOf(ZonedToUtc(n))) ELSE Unconvertible
BY DEF Coerced, Text, V, Instant, IsDate, InstantIn

LEMMA AsDate ==
    /\ \A n : Coerced(Instant(n), "date") = Text("day", DayStart(WallOf(n)))
    /\ \A r, n : Coerced(Text(r, n), "date")
          = IF r \in {"wall", "day"} THEN Text("day", DayStart(WallOf(ZonedToUtc(n)))) ELSE Unconvertible
BY DEF Coerced, Text, V, Instant, IsDate, InstantIn

-----------------------------------------------------------------------------
(* Wall-clock times and days come back through the zone. *)

LEMMA DivIs ==
    ASSUME NEW L \in Nat \ {0}, NEW q \in Int, NEW x \in Int, q * L <= x, x < q * L + L
    PROVE  x \div L = q
<1> DEFINE p == x \div L
<1>1. p \in Int /\ p * L <= x /\ x < p * L + L
    OBVIOUS
<1> HIDE DEF p
<1>2. CASE p < q
    <2>1. q * L >= (p + 1) * L
        BY <1>1, <1>2
    <2> QED
        BY <1>1, <2>1
<1>3. CASE q < p
    <2>1. p * L >= (q + 1) * L
        BY <1>1, <1>3
    <2> QED
        BY <1>1, <2>1
<1> QED
    BY <1>1, <1>2, <1>3 DEF p

LEMMA DayLengthIs == DayLength \in Nat \ {0} /\ DayLength % 2 = 0
BY FieldAssumption

LEMMA DayStartIs ==
    ASSUME NEW w \in Int
    PROVE  DayStart(w) \in Int /\ DayStart(w) % 2 = 0 /\ DayStart(DayStart(w)) = DayStart(w)
<1> DEFINE q == w \div DayLength
           h == DayLength \div 2
<1>1. q \in Int /\ h \in Int /\ DayLength = 2 * h /\ DayLength \in Nat \ {0}
    BY DayLengthIs
<1>2. DayStart(w) = q * DayLength
    BY DEF DayStart
<1> HIDE DEF q, h
<1>3. q * DayLength \in Int /\ q * DayLength = 2 * (q * h) /\ q * h \in Int
    BY <1>1
<1>4. (2 * (q * h)) % 2 = 0
    <2> DEFINE e == q * h
    <2>1. e \in Int
        BY <1>3
    <2> HIDE DEF e
    <2>2. (2 * e) % 2 = 0
        BY <2>1
    <2> QED
        BY <2>2 DEF e
<1>5. (q * DayLength) \div DayLength = q
    BY <1>1, <1>3, DivIs
<1> QED
    BY <1>2, <1>3, <1>4, <1>5 DEF DayStart

LEMMA DayIs ==
    ASSUME NEW d \in Int, d = DayStart(d), NEW x \in Int, d <= x, x < d + DayLength
    PROVE  DayStart(x) = d
<1> DEFINE q == d \div DayLength
<1>1. q \in Int /\ d = q * DayLength /\ DayLength \in Nat \ {0}
    BY DayLengthIs DEF DayStart
<1> HIDE DEF q
<1>2. x \div DayLength = q
    BY <1>1, DivIs
<1> QED
    BY <1>1, <1>2 DEF DayStart

LEMMA ZoneIs ==
    ASSUME zone \in Zones
    PROVE  /\ zone.at \in Int /\ zone.before \in Int /\ zone.after \in Int
           /\ zone.at % 2 = 0 /\ zone.before % 2 = 0 /\ zone.after % 2 = 0
BY FieldAssumption

LEMMA ToUtcIsInt == ASSUME zone \in Zones, NEW w \in Int PROVE ZonedToUtc(w) \in Int
BY ZoneIs DEF ZonedToUtc, Offset

LEMMA WallIsShown ==
    ASSUME zone \in Zones, NEW i \in Int
    PROVE  WallOf(i) \in Int /\ WallOf(i) % 2 = 0 /\ ~Skipped(WallOf(i))
<1> DEFINE t == zone.at
           b == zone.before
           a == zone.after
<1>1. t \in Int /\ b \in Int /\ a \in Int /\ t % 2 = 0 /\ b % 2 = 0 /\ a % 2 = 0
    BY ZoneIs
<1>2. /\ Offset(i) = IF i < t THEN b ELSE a
      /\ WallOf(i) = (i + Offset(i)) - ((i + Offset(i)) % 2)
      /\ \A w : Skipped(w) <=> t + b <= w /\ w < t + a
    BY DEF Offset, WallOf, Skipped
<1> HIDE DEF t, b, a
<1> QED
    BY <1>1, <1>2

LEMMA WallComesBack ==
    ASSUME zone \in Zones, NEW w \in Int, w % 2 = 0, ~Skipped(w)
    PROVE  ZonedToUtc(w) \in Int /\ WallOf(ZonedToUtc(w)) = w
<1> DEFINE t == zone.at
           b == zone.before
           a == zone.after
           i == ZonedToUtc(w)
<1>1. t \in Int /\ b \in Int /\ a \in Int /\ t % 2 = 0 /\ b % 2 = 0 /\ a % 2 = 0
    BY ZoneIs
<1>2. /\ \A j : Offset(j) = IF j < t THEN b ELSE a
      /\ \A j : WallOf(j) = (j + Offset(j)) - ((j + Offset(j)) % 2)
      /\ i = w - Offset(w - Offset(w))
      /\ Skipped(w) <=> t + b <= w /\ w < t + a
    BY DEF Offset, WallOf, Skipped, ZonedToUtc
<1> HIDE DEF t, b, a, i
<1>3. i \in Int /\ i + Offset(i) = w
    BY <1>1, <1>2
<1> QED
    BY <1>2, <1>3 DEF i

LEMMA MidnightComesBack ==
    ASSUME zone \in Zones, NoMidnightIsLost, NEW d \in Int, d % 2 = 0, d = DayStart(d)
    PROVE  ZonedToUtc(d) \in Int /\ DayStart(WallOf(ZonedToUtc(d))) = d
<1>1. CASE ~Skipped(d)
    BY <1>1, WallComesBack
<1>2. CASE Skipped(d)
    <2> DEFINE t == zone.at
               b == zone.before
               a == zone.after
               i == ZonedToUtc(d)
               x == WallOf(i)
    <2>1. t \in Int /\ b \in Int /\ a \in Int /\ t % 2 = 0 /\ b % 2 = 0 /\ a % 2 = 0
        BY ZoneIs
    <2>2. /\ \A j : Offset(j) = IF j < t THEN b ELSE a
          /\ \A j : WallOf(j) = (j + Offset(j)) - ((j + Offset(j)) % 2)
          /\ i = d - Offset(d - Offset(d))
          /\ t + b <= d /\ d < t + a
        BY <1>2 DEF Offset, WallOf, Skipped, ZonedToUtc
    <2>3. t <= d /\ a - b < DayLength
        <3> DEFINE k == d \div DayLength
        <3>1. k \in Int /\ d = k * DayLength
            BY DayLengthIs DEF DayStart
        <3> HIDE DEF k
        <3>2. t + b <= k * DayLength /\ k * DayLength < t + a
            BY <2>2, <3>1
        <3> QED
            BY <3>1, <3>2 DEF NoMidnightIsLost
    <2>6. x = (i + Offset(i)) - ((i + Offset(i)) % 2)
        BY <2>2
    <2> HIDE DEF t, b, a, i, x
    <2>10. d >= t /\ d - a < t /\ d - b >= t /\ d - b \in Int
        BY <2>1, <2>2, <2>3
    <2>11. Offset(d) = a /\ Offset(d - a) = b /\ Offset(d - b) = a
        BY <2>1, <2>2, <2>10
    <2>4. i = d - b /\ i \in Int /\ Offset(i) = a
        BY <2>2, <2>10, <2>11
    <2>7. x = d - b + a
        BY <2>1, <2>4, <2>6
    <2>8. d <= x /\ x < d + DayLength /\ x \in Int /\ DayLength \in Nat
        BY <2>1, <2>2, <2>3, <2>7, DayLengthIs
    <2>9. DayStart(x) = d
        BY <2>8, DayIs
    <2> QED
        BY <2>4, <2>9 DEF x, i
<1> QED
    BY <1>1, <1>2

LEMMA Days ==
    ASSUME zone \in Zones, NoMidnightIsLost, NEW i \in Int
    PROVE  LET d == DayStart(WallOf(i)) IN
           /\ d \in Int /\ IsDay(Text("day", d)) /\ ZonedToUtc(d) \in Int
           /\ DayStart(WallOf(ZonedToUtc(d))) = d
<1> DEFINE d == DayStart(WallOf(i))
<1>1. d \in Int /\ d % 2 = 0 /\ DayStart(d) = d
    BY WallIsShown, DayStartIs
<1> HIDE DEF d
<1>2. /\ d \in Int /\ IsDay(Text("day", d)) /\ ZonedToUtc(d) \in Int
      /\ DayStart(WallOf(ZonedToUtc(d))) = d
    BY <1>1, MidnightComesBack, ValueFields DEF IsDay
<1> QED
    BY <1>2 DEF d

-----------------------------------------------------------------------------
(* Each pair of types. *)

LEMMA StringTextCodes ==
    /\ \A v : Out("string", "text", v) = v
    /\ \A v : In("string", "text", v) = v
BY AsItIs DEF Out, In, PushVerdict, PullVerdict, AsIs

LEMMA StringTextSettles == GoesAndComes("string", "text")
BY StringTextCodes DEF GoesAndComes, StoreHolds, DeskHolds

LEMMA StringFloatCodes ==
    /\ \A v : Out("string", "float", v) = Coerced(v, "number")
    /\ \A v : In("string", "float", v) = Coerced(v, "text")
BY DEF Out, In, PushVerdict, PullVerdict, AsIs, Safe, Review, Unmappable

LEMMA StringFloatSettles == GoesAndComes("string", "float")
BY StringFloatCodes, ValueFields, AsNumber, AsText DEF GoesAndComes, StoreHolds, DeskHolds, IsText,
   IsNumber, IsBool, IsInstant, IsList, Yes

LEMMA StringIntCodes ==
    /\ \A v : Out("string", "int", v) = Coerced(v, "integer")
    /\ \A v : In("string", "int", v) = Coerced(v, "text")
BY DEF Out, In, PushVerdict, PullVerdict, AsIs, Safe, Review, Unmappable

LEMMA StringIntSettles == GoesAndComes("string", "int")
BY StringIntCodes, ValueFields, AsInteger, AsText DEF GoesAndComes, StoreHolds, DeskHolds, IsText,
   IsNumber, IsBool, IsInstant, IsList, Yes

LEMMA StringCheckCodes ==
    /\ \A v : Out("string", "check", v) = Coerced(v, "check")
    /\ \A v : In("string", "check", v) = Coerced(v, "text")
BY DEF Out, In, PushVerdict, PullVerdict, AsIs, Safe, Review, Unmappable

LEMMA StringCheckSettles == GoesAndComes("string", "check")
BY StringCheckCodes, ValueFields, AsCheck, AsText DEF GoesAndComes, StoreHolds, DeskHolds, IsText,
   IsNumber, IsBool, IsInstant, IsList, Yes

LEMMA StringDateCodes ==
    /\ \A v : Out("string", "date", v) = Coerced(v, "date")
    /\ \A v : In("string", "date", v) = v
BY AsItIs DEF Out, In, PushVerdict, PullVerdict, AsIs, Safe, Review, Unmappable

LEMMA StringDateSettles ==
    ASSUME zone \in Zones, NoMidnightIsLost PROVE GoesAndComes("string", "date")
<1>1. /\ \A v : StoreHolds("string", v) <=> v = Text(v.reads, v.n) /\ v.n \in Int
      /\ \A v : DeskHolds("string", "date", v) <=> IsDay(v)
    BY DEF StoreHolds, DeskHolds, IsText
<1>2. ASSUME NEW v, IsDay(v)
      PROVE  StoreHolds("string", v) /\ Out("string", "date", v) = v
    <2>1. /\ v = Text("day", v.n) /\ v.n \in Int
          /\ DayStart(WallOf(ZonedToUtc(v.n))) = v.n
        BY <1>2, MidnightComesBack DEF IsDay
    <2> QED
        BY <1>1, <2>1, StringDateCodes, AsDate, ValueFields
<1>3. ASSUME NEW v, StoreHolds("string", v)
      PROVE  Out("string", "date", v) = Unconvertible \/ IsDay(Out("string", "date", v))
    <2>1. v = Text(v.reads, v.n) /\ v.n \in Int /\ ZonedToUtc(v.n) \in Int
        BY <1>1, <1>3, ToUtcIsInt
    <2>2. Out("string", "date", v)
             \in {Unconvertible, Text("day", DayStart(WallOf(ZonedToUtc(v.n))))}
        BY <2>1, StringDateCodes, AsDate
    <2>3. IsDay(Text("day", DayStart(WallOf(ZonedToUtc(v.n)))))
        BY <2>1, Days
    <2> QED
        BY <2>2, <2>3
<1> QED
    BY <1>1, <1>2, <1>3, StringDateCodes DEF GoesAndComes

LEMMA StringDatetimeCodes ==
    /\ \A v : Out("string", "datetime", v) = Coerced(v, "datetime")
    /\ \A v : In("string", "datetime", v) = v
BY AsItIs DEF Out, In, PushVerdict, PullVerdict, AsIs, Safe, Review, Unmappable

LEMMA StringDatetimeSettles == ASSUME zone \in Zones PROVE GoesAndComes("string", "datetime")
<1>1. /\ \A v : StoreHolds("string", v) <=> v = Text(v.reads, v.n) /\ v.n \in Int
      /\ \A v : DeskHolds("string", "datetime", v) <=> IsWall(v)
    BY DEF StoreHolds, DeskHolds, IsText
<1>2. ASSUME NEW v, IsWall(v)
      PROVE  StoreHolds("string", v) /\ Out("string", "datetime", v) = v
    <2>1. v = Text("wall", v.n) /\ v.n \in Int /\ WallOf(ZonedToUtc(v.n)) = v.n
        BY <1>2, WallComesBack DEF IsWall
    <2> QED
        BY <1>1, <2>1, StringDatetimeCodes, AsDatetime, ValueFields
<1>3. ASSUME NEW v, StoreHolds("string", v)
      PROVE  Out("string", "datetime", v) = Unconvertible \/ IsWall(Out("string", "datetime", v))
    <2>1. v = Text(v.reads, v.n) /\ v.n \in Int /\ ZonedToUtc(v.n) \in Int
        BY <1>1, <1>3, ToUtcIsInt
    <2>2. Out("string", "datetime", v) \in {Unconvertible, Text("wall", WallOf(ZonedToUtc(v.n)))}
        BY <2>1, StringDatetimeCodes, AsDatetime
    <2>3. IsWall(Text("wall", WallOf(ZonedToUtc(v.n))))
        BY <2>1, WallIsShown, ValueFields DEF IsWall
    <2> QED
        BY <2>2, <2>3
<1> QED
    BY <1>1, <1>2, <1>3, StringDatetimeCodes DEF GoesAndComes

LEMMA StringTimeCodes ==
    /\ \A v : Out("string", "time", v) = v
    /\ \A v : In("string", "time", v) = v
BY AsItIs DEF Out, In, PushVerdict, PullVerdict, AsIs

LEMMA StringTimeSettles == GoesAndComes("string", "time")
BY StringTimeCodes DEF GoesAndComes, StoreHolds, DeskHolds

LEMMA NumberFloatCodes ==
    /\ \A v : Out("number", "float", v) = v
    /\ \A v : In("number", "float", v) = v
BY AsItIs DEF Out, In, PushVerdict, PullVerdict, AsIs

LEMMA NumberFloatSettles == GoesAndComes("number", "float")
BY NumberFloatCodes DEF GoesAndComes, StoreHolds, DeskHolds

LEMMA Tens ==
    ASSUME NEW n \in Int
    PROVE  10 * (n \div 10) \in Int /\ (10 * (n \div 10)) \div 10 = n \div 10
OBVIOUS

LEMMA NumberIntCodes ==
    /\ \A v : Out("number", "int", v) = Coerced(v, "integer")
    /\ \A v : In("number", "int", v) = v
BY AsItIs DEF Out, In, PushVerdict, PullVerdict, AsIs, Safe, Review, Unmappable

LEMMA NumberIntSettles == GoesAndComes("number", "int")
<1>1. /\ \A v : StoreHolds("number", v) <=> v = Number(v.n) /\ v.n \in Int
      /\ \A v : DeskHolds("number", "int", v) <=>
                 v = Number(v.n) /\ v.n \in Int /\ v.n = 10 * (v.n \div 10)
    BY DEF StoreHolds, DeskHolds, IsNumber
<1>2. ASSUME NEW v, StoreHolds("number", v)
      PROVE  LET out == Out("number", "int", v)
             IN DeskHolds("number", "int", out) /\ Out("number", "int", out) = out
    <2> DEFINE t == 10 * (v.n \div 10)
    <2>1. v = Number(v.n) /\ v.n \in Int /\ t \in Int /\ 10 * (t \div 10) = t
        BY <1>1, <1>2, Tens
    <2>2. Out("number", "int", v) = Number(t)
        BY <2>1, NumberIntCodes, AsInteger
    <2> HIDE DEF t
    <2>3. Out("number", "int", Number(t)) = Number(t)
        BY <2>1, NumberIntCodes, AsInteger
    <2>4. DeskHolds("number", "int", Number(t))
        BY <1>1, <2>1, ValueFields
    <2> QED
        BY <2>2, <2>3, <2>4
<1>3. ASSUME NEW v, DeskHolds("number", "int", v)
      PROVE  StoreHolds("number", v) /\ Out("number", "int", v) = v
    BY <1>1, <1>3, NumberIntCodes, AsInteger
<1> QED
    BY <1>2, <1>3, NumberIntCodes DEF GoesAndComes

LEMMA NumberTextCodes ==
    /\ \A v : Out("number", "text", v) = Coerced(v, "text")
    /\ \A v : In("number", "text", v) = Coerced(v, "number")
BY DEF Out, In, PushVerdict, PullVerdict, AsIs, Safe, Review, Unmappable

LEMMA NumberTextSettles == GoesAndComes("number", "text")
BY NumberTextCodes, ValueFields, AsNumber, AsText DEF GoesAndComes, StoreHolds, DeskHolds, IsText,
   IsNumber, IsBool, IsInstant, IsList, Yes

LEMMA NumberCheckCodes ==
    /\ \A v : Out("number", "check", v) = Coerced(v, "check")
    /\ \A v : In("number", "check", v) = v
BY AsItIs DEF Out, In, PushVerdict, PullVerdict, AsIs, Safe, Review, Unmappable

LEMMA NumberCheckSettles == GoesAndComes("number", "check")
<1>1. /\ \A v : StoreHolds("number", v) <=> v = Number(v.n) /\ v.n \in Int
      /\ \A v : DeskHolds("number", "check", v) <=> v \in {Number(0), Number(10)}
    BY DEF StoreHolds, DeskHolds, IsNumber
<1>3. ASSUME NEW v, DeskHolds("number", "check", v)
      PROVE  StoreHolds("number", v) /\ Out("number", "check", v) = v
    <2>1. Yes(0) = 0 /\ Yes(10) = 1
        BY DEF Yes
    <2> QED
        BY <1>1, <1>3, <2>1, NumberCheckCodes, AsCheck, ValueFields
<1>2. ASSUME NEW v, StoreHolds("number", v)
      PROVE  DeskHolds("number", "check", Out("number", "check", v))
    <2>1. Out("number", "check", v) = Number(10 * Yes(v.n))
        BY <1>1, <1>2, NumberCheckCodes, AsCheck
    <2>2. 10 * Yes(v.n) \in {0, 10}
        BY Yeses
    <2> QED
        BY <1>1, <2>1, <2>2
<1> QED
    BY <1>2, <1>3, NumberCheckCodes DEF GoesAndComes

LEMMA BooleanCheckCodes ==
    /\ \A v : Out("boolean", "check", v) = Coerced(v, "check")
    /\ \A v : In("boolean", "check", v) = Coerced(v, "boolean")
BY DEF Out, In, PushVerdict, PullVerdict, AsIs, Safe, Review, Unmappable

LEMMA BooleanCheckSettles == GoesAndComes("boolean", "check")
BY BooleanCheckCodes, ValueFields, AsBoolean, AsCheck DEF GoesAndComes, StoreHolds, DeskHolds,
   IsText, IsNumber, IsBool, IsInstant, IsList, Yes

LEMMA BooleanTextCodes ==
    /\ \A v : Out("boolean", "text", v) = Coerced(v, "text")
    /\ \A v : In("boolean", "text", v) = Coerced(v, "boolean")
BY DEF Out, In, PushVerdict, PullVerdict, AsIs, Safe, Review, Unmappable

LEMMA BooleanTextSettles == GoesAndComes("boolean", "text")
BY BooleanTextCodes, ValueFields, AsBoolean, AsText DEF GoesAndComes, StoreHolds, DeskHolds, IsText,
   IsNumber, IsBool, IsInstant, IsList, Yes

LEMMA BooleanIntCodes ==
    /\ \A v : Out("boolean", "int", v) = Coerced(v, "check")
    /\ \A v : In("boolean", "int", v) = Coerced(v, "boolean")
BY DEF Out, In, PushVerdict, PullVerdict, AsIs, Safe, Review, Unmappable

LEMMA BooleanIntSettles == GoesAndComes("boolean", "int")
<1>1. /\ \A v : StoreHolds("boolean", v) <=> v \in {Bool(0), Bool(1)}
      /\ \A v : DeskHolds("boolean", "int", v) <=>
                 v = Number(v.n) /\ v.n \in Int /\ v.n = 10 * (v.n \div 10)
    BY DEF StoreHolds, DeskHolds, IsNumber, IsBool
<1>2. ASSUME NEW v, StoreHolds("boolean", v)
      PROVE  LET out == Out("boolean", "int", v)
             IN DeskHolds("boolean", "int", out) /\ In("boolean", "int", out) = v
    <2>1. /\ Yes(0) = 0 /\ Yes(1) = 1 /\ Yes(10) = 1 /\ 10 * 0 = 0 /\ 10 * 1 = 10
          /\ 10 * (0 \div 10) = 0 /\ 10 * (10 \div 10) = 10
        BY DEF Yes
    <2>2. ASSUME NEW n \in {0, 1}, v = Bool(n)
          PROVE  LET out == Out("boolean", "int", v)
                 IN DeskHolds("boolean", "int", out) /\ In("boolean", "int", out) = v
        <3>1. Out("boolean", "int", v) = Number(10 * Yes(n))
            BY <2>2, BooleanIntCodes, AsCheck
        <3>2. Yes(n) = n /\ Yes(10 * n) = n
            BY <2>1
        <3>3. Out("boolean", "int", v) = Number(10 * n)
            BY <3>1, <3>2
        <3>4. In("boolean", "int", Number(10 * n)) = Bool(n)
            BY <3>2, BooleanIntCodes, AsBoolean
        <3>5. DeskHolds("boolean", "int", Number(10 * n))
            BY <1>1, <2>1, ValueFields
        <3> QED
            BY <2>2, <3>3, <3>4, <3>5
    <2> QED
        BY <1>1, <1>2, <2>2
<1>3. ASSUME NEW v, DeskHolds("boolean", "int", v)
      PROVE  StoreHolds("boolean", In("boolean", "int", v))
    <2>1. In("boolean", "int", v) = Bool(Yes(v.n)) /\ Yes(v.n) \in {0, 1}
        BY <1>1, <1>3, BooleanIntCodes, AsBoolean, Yeses
    <2> QED
        BY <1>1, <2>1
<1> QED
    BY <1>2, <1>3 DEF GoesAndComes

LEMMA BooleanFloatCodes ==
    /\ \A v : Out("boolean", "float", v) = Coerced(v, "check")
    /\ \A v : In("boolean", "float", v) = Coerced(v, "boolean")
BY AsItIs DEF Out, In, PushVerdict, PullVerdict, AsIs, Safe, Review, Unmappable

LEMMA BooleanFloatSettles == GoesAndComes("boolean", "float")
<1>1. /\ \A v : StoreHolds("boolean", v) <=> v \in {Bool(0), Bool(1)}
      /\ \A v : DeskHolds("boolean", "float", v) <=> v = Number(v.n) /\ v.n \in Int
    BY DEF StoreHolds, DeskHolds, IsNumber, IsBool
<1>2. ASSUME NEW v, StoreHolds("boolean", v)
      PROVE  LET out == Out("boolean", "float", v)
             IN DeskHolds("boolean", "float", out) /\ In("boolean", "float", out) = v
    <2>1. Yes(0) = 0 /\ Yes(1) = 1 /\ Yes(10) = 1 /\ 10 * 0 = 0 /\ 10 * 1 = 10
        BY DEF Yes
    <2>2. ASSUME NEW n \in {0, 1}, v = Bool(n)
          PROVE  LET out == Out("boolean", "float", v)
                 IN DeskHolds("boolean", "float", out) /\ In("boolean", "float", out) = v
        <3>1. Out("boolean", "float", v) = Number(10 * Yes(n))
            BY <2>2, BooleanFloatCodes, AsCheck
        <3>2. Yes(n) = n /\ Yes(10 * n) = n
            BY <2>1
        <3>3. Out("boolean", "float", v) = Number(10 * n)
            BY <3>1, <3>2
        <3>4. In("boolean", "float", Number(10 * n)) = Bool(n)
            BY <3>2, BooleanFloatCodes, AsBoolean
        <3>5. DeskHolds("boolean", "float", Number(10 * n))
            BY <1>1, <2>1, ValueFields
        <3> QED
            BY <2>2, <3>3, <3>4, <3>5
    <2> QED
        BY <1>1, <1>2, <2>2
<1>3. ASSUME NEW v, DeskHolds("boolean", "float", v)
      PROVE  StoreHolds("boolean", In("boolean", "float", v))
    <2>1. In("boolean", "float", v) = Bool(Yes(v.n)) /\ Yes(v.n) \in {0, 1}
        BY <1>1, <1>3, BooleanFloatCodes, AsBoolean, Yeses
    <2> QED
        BY <1>1, <2>1
<1> QED
    BY <1>2, <1>3 DEF GoesAndComes

LEMMA DatetimeDatetimeCodes ==
    /\ \A v : Out("datetime", "datetime", v) = Coerced(v, "datetime")
    /\ \A v : In("datetime", "datetime", v) = Coerced(v, "date_iso")
BY AsItIs DEF Out, In, PushVerdict, PullVerdict, AsIs, Safe, Review, Unmappable

LEMMA DatetimeDatetimeSettles == ASSUME zone \in Zones PROVE GoesAndComes("datetime", "datetime")
<1>1. /\ \A v : StoreHolds("datetime", v) <=> v = Instant(v.n) /\ v.n \in Int
      /\ \A v : DeskHolds("datetime", "datetime", v) <=> IsWall(v)
    BY DEF StoreHolds, DeskHolds, IsInstant
<1>2. ASSUME NEW v, IsWall(v)
      PROVE  LET in == In("datetime", "datetime", v)
             IN  StoreHolds("datetime", in) /\ Out("datetime", "datetime", in) = v
    <2>1. /\ v = Text("wall", v.n) /\ ZonedToUtc(v.n) \in Int
          /\ WallOf(ZonedToUtc(v.n)) = v.n
        BY <1>2, WallComesBack DEF IsWall
    <2>2. In("datetime", "datetime", v) = Instant(ZonedToUtc(v.n))
        BY <2>1, DatetimeDatetimeCodes, AsDateIso
    <2>3. Out("datetime", "datetime", Instant(ZonedToUtc(v.n))) = v
        BY <2>1, DatetimeDatetimeCodes, AsDatetime
    <2> QED
        BY <1>1, <2>1, <2>2, <2>3, ValueFields
<1>3. ASSUME NEW v, StoreHolds("datetime", v)
      PROVE  IsWall(Out("datetime", "datetime", v))
    <2>1. Out("datetime", "datetime", v) = Text("wall", WallOf(v.n)) /\ v.n \in Int
        BY <1>1, <1>3, DatetimeDatetimeCodes, AsDatetime
    <2> QED
        BY <2>1, WallIsShown, ValueFields DEF IsWall
<1> QED
    BY <1>1, <1>2, <1>3 DEF GoesAndComes

LEMMA DatetimeDateCodes ==
    /\ \A v : Out("datetime", "date", v) = Coerced(v, "date")
    /\ \A v : In("datetime", "date", v) = Coerced(v, "date_iso")
BY AsItIs DEF Out, In, PushVerdict, PullVerdict, AsIs, Safe, Review, Unmappable

LEMMA DatetimeDateSettles ==
    ASSUME zone \in Zones, NoMidnightIsLost PROVE GoesAndComes("datetime", "date")
<1>1. /\ \A v : StoreHolds("datetime", v) <=> v = Instant(v.n) /\ v.n \in Int
      /\ \A v : DeskHolds("datetime", "date", v) <=> IsDay(v)
    BY DEF StoreHolds, DeskHolds, IsInstant
<1>2. ASSUME NEW v, IsDay(v)
      PROVE  LET in == In("datetime", "date", v)
             IN  StoreHolds("datetime", in) /\ Out("datetime", "date", in) = v
    <2>1. /\ v = Text("day", v.n) /\ ZonedToUtc(v.n) \in Int
          /\ DayStart(WallOf(ZonedToUtc(v.n))) = v.n
        BY <1>2, MidnightComesBack DEF IsDay
    <2>2. In("datetime", "date", v) = Instant(ZonedToUtc(v.n))
        BY <2>1, DatetimeDateCodes, AsDateIso
    <2>3. Out("datetime", "date", Instant(ZonedToUtc(v.n))) = v
        BY <2>1, DatetimeDateCodes, AsDate
    <2> QED
        BY <1>1, <2>1, <2>2, <2>3, ValueFields
<1>3. ASSUME NEW v, StoreHolds("datetime", v)
      PROVE  IsDay(Out("datetime", "date", v))
    <2>1. Out("datetime", "date", v) = Text("day", DayStart(WallOf(v.n))) /\ v.n \in Int
        BY <1>1, <1>3, DatetimeDateCodes, AsDate
    <2> QED
        BY <2>1, Days
<1> QED
    BY <1>1, <1>2, <1>3 DEF GoesAndComes

LEMMA DatetimeTextCodes ==
    /\ \A v : Out("datetime", "text", v) = Coerced(v, "date_iso")
    /\ \A v : In("datetime", "text", v) = Coerced(v, "date_iso")
BY AsItIs DEF Out, In, PushVerdict, PullVerdict, AsIs, Safe, Review, Unmappable

LEMMA DatetimeTextSettles == ASSUME zone \in Zones PROVE GoesAndComes("datetime", "text")
BY DatetimeTextCodes, AsDateIso, ValueFields, ToUtcIsInt DEF GoesAndComes, StoreHolds, DeskHolds,
   IsText, IsInstant

LEMMA ArrayJsonCodes ==
    /\ \A v : Out("array", "json", v) = Coerced(v, "json")
    /\ \A v : In("array", "json", v) = Coerced(v, "parse_json")
BY DEF Out, In, PushVerdict, PullVerdict, AsIs, Safe, Review, Unmappable

LEMMA ArrayJsonSettles == GoesAndComes("array", "json")
BY ArrayJsonCodes, ValueFields, AsJson DEF GoesAndComes, StoreHolds, DeskHolds, IsText, IsNumber,
   IsBool, IsInstant, IsList, Yes

LEMMA ArrayTextCodes ==
    /\ \A v : Out("array", "text", v) = Coerced(v, "join")
    /\ \A v : In("array", "text", v) = Coerced(v, "split")
BY DEF Out, In, PushVerdict, PullVerdict, AsIs, Safe, Review, Unmappable

LEMMA ArrayTextSettles == GoesAndComes("array", "text")
BY ArrayTextCodes, ValueFields, AsList DEF GoesAndComes, StoreHolds, DeskHolds, IsText, IsNumber,
   IsBool, IsInstant, IsList, Yes

LEMMA JsonJsonCodes ==
    /\ \A v : Out("json", "json", v) = Coerced(v, "json")
    /\ \A v : In("json", "json", v) = Coerced(v, "parse_json")
BY DEF Out, In, PushVerdict, PullVerdict, AsIs, Safe, Review, Unmappable

LEMMA JsonJsonSettles == GoesAndComes("json", "json")
BY JsonJsonCodes, ValueFields, AsJson DEF GoesAndComes, StoreHolds, DeskHolds, IsText, IsNumber,
   IsBool, IsInstant, IsList, Yes

LEMMA JsonTextCodes ==
    /\ \A v : Out("json", "text", v) = Coerced(v, "json")
    /\ \A v : In("json", "text", v) = Coerced(v, "parse_json")
BY DEF Out, In, PushVerdict, PullVerdict, AsIs, Safe, Review, Unmappable

LEMMA JsonTextSettles == GoesAndComes("json", "text")
BY JsonTextCodes, ValueFields, AsJson DEF GoesAndComes, StoreHolds, DeskHolds, IsText, IsNumber,
   IsBool, IsInstant, IsList, Yes

LEMMA PairGoesAndComes ==
    ASSUME NoMidnightIsLost, zone \in Zones, NEW m \in MedusaTypes, NEW f \in FrappeTypes, Mappable(m, f)
    PROVE  GoesAndComes(m, f)
<1>1. CASE m = "string"
    <2>1. f \in {"text", "float", "int", "check", "date", "datetime", "time"}
        BY <1>1 DEF Mappable, PushVerdict, PullVerdict, AsIs, Safe, Review, Unmappable,
           FrappeTypes
    <2> QED
        BY <1>1, <2>1, StringTextSettles, StringFloatSettles, StringIntSettles,
           StringCheckSettles, StringDateSettles, StringDatetimeSettles, StringTimeSettles
<1>2. CASE m = "number"
    <2>1. f \in {"float", "int", "text", "check"}
        BY <1>2 DEF Mappable, PushVerdict, PullVerdict, AsIs, Safe, Review, Unmappable,
           FrappeTypes
    <2> QED
        BY <1>2, <2>1, NumberFloatSettles, NumberIntSettles, NumberTextSettles, NumberCheckSettles
<1>3. CASE m = "boolean"
    <2>1. f \in {"check", "text", "int", "float"}
        BY <1>3 DEF Mappable, PushVerdict, PullVerdict, AsIs, Safe, Review, Unmappable,
           FrappeTypes
    <2> QED
        BY <1>3, <2>1, BooleanCheckSettles, BooleanTextSettles, BooleanIntSettles,
           BooleanFloatSettles
<1>4. CASE m = "datetime"
    <2>1. f \in {"datetime", "date", "text"}
        BY <1>4 DEF Mappable, PushVerdict, PullVerdict, AsIs, Safe, Review, Unmappable,
           FrappeTypes
    <2> QED
        BY <1>4, <2>1, DatetimeDatetimeSettles, DatetimeDateSettles, DatetimeTextSettles
<1>5. CASE m = "array"
    <2>1. f \in {"json", "text"}
        BY <1>5 DEF Mappable, PushVerdict, PullVerdict, AsIs, Safe, Review, Unmappable,
           FrappeTypes
    <2> QED
        BY <1>5, <2>1, ArrayJsonSettles, ArrayTextSettles
<1>6. CASE m = "json"
    <2>1. f \in {"json", "text"}
        BY <1>6 DEF Mappable, PushVerdict, PullVerdict, AsIs, Safe, Review, Unmappable,
           FrappeTypes
    <2> QED
        BY <1>6, <2>1, JsonJsonSettles, JsonTextSettles
<1> QED
    BY <1>1, <1>2, <1>3, <1>4, <1>5, <1>6 DEF MedusaTypes

-----------------------------------------------------------------------------
(* The pair as it is copied and edited. *)

Flows == {"push", "pull"}
EmptyOrText(v) == v = Empty \/ IsText(v)

\* The rows of FieldInit: only a text pair has options.
PairIs ==
    /\ pair.medusa \in MedusaTypes /\ pair.frappe \in FrappeTypes
    /\ Mappable(pair.medusa, pair.frappe)
    /\ pair.template \in BOOLEAN
    /\ \A d \in Flows : EmptyOrText(pair.fixed[d]) /\ EmptyOrText(pair.default[d])
    /\ \/ pair.medusa = "string" /\ pair.frappe = "text"
       \/ ~pair.template /\ \A d \in Flows : pair.fixed[d] = Empty /\ pair.default[d] = Empty
SidesAre ==
    /\ inStore = [first |-> inStore.first, last |-> inStore.last]
    /\ inStore.first = Empty \/ StoreHolds(pair.medusa, inStore.first)
    /\ inStore.last = Empty \/ (pair.template /\ IsText(inStore.last))
    /\ inErp = Empty \/ DeskHolds(pair.medusa, pair.frappe, inErp)
\* The field that direction d writes.
Target(d) == IF d = "push" THEN inErp ELSE inStore.first
\* A side a direction has gone to since the last edit holds what it would write again.
PairRests ==
    /\ \A d \in Flows : moved = {d} /\ FlowsIn(d) => Carries(d) /\ Target(d) = Written(d)
    /\ moved = Flows => \A d \in Flows : Carries(d) => Target(d) = Written(d)
FieldInv ==
    /\ PairIs /\ zone \in Zones /\ SidesAre /\ PairRests
    /\ moved \subseteq Flows /\ fieldEdits \in Nat
-----------------------------------------------------------------------------
\* What Written converts.
Chosen(fixed, source, default) ==
    IF fixed # Empty THEN fixed ELSE IF source = Empty THEN default ELSE source

LEMMA PushIs ==
    LET v == Chosen(pair.fixed["push"], Source("push"), pair.default["push"])
    IN  Written("push") = IF v = Empty THEN Unconvertible ELSE Out(pair.medusa, pair.frappe, v)
BY DEF Written, Chosen, Out

LEMMA PullIs ==
    LET v == Chosen(pair.fixed["pull"], Source("pull"), pair.default["pull"])
    IN  Written("pull") = IF v = Empty THEN Unconvertible ELSE In(pair.medusa, pair.frappe, v)
BY DEF Written, Chosen, In

LEMMA PushIsNext ==
    LET v == Chosen(pair.fixed["push"], Source("push"), pair.default["push"])
    IN  (Written("push") = IF v = Empty THEN Unconvertible ELSE Out(pair.medusa, pair.frappe, v))'
BY DEF Written, Chosen, Out

LEMMA PullIsNext ==
    LET v == Chosen(pair.fixed["pull"], Source("pull"), pair.default["pull"])
    IN  (Written("pull") = IF v = Empty THEN Unconvertible ELSE In(pair.medusa, pair.frappe, v))'
BY DEF Written, Chosen, In

LEMMA CoercedStays ==
    ASSUME zone' = zone, NEW v, NEW code PROVE Coerced(v, code)' = Coerced(v, code)
BY DEF Coerced, IsDate, InstantIn, ZonedToUtc, WallOf, Offset, IsNumeric, NumberIn, IsYesNo,
   YesIn,
       DayStart, Text, V, Number, Bool, Instant, List, Unconvertible

LEMMA PushStays ==
    ASSUME UNCHANGED <<pair, zone, inStore>>
    PROVE  /\ Written("push")' = Written("push") /\ FlowsIn("push")' = FlowsIn("push")
           /\ Carries("push")' = Carries("push")
<1>1. PICK v : v = Chosen(pair.fixed["push"], Source("push"), pair.default["push"])
    OBVIOUS
<1>2. Source("push")' = Source("push")
    BY DEF Source, Rendered
<1>3. Chosen(pair.fixed["push"], Source("push"), pair.default["push"])' = v
    BY <1>1, <1>2 DEF Chosen
<1>4. PICK code : code = PushVerdict(pair.medusa, pair.frappe).code
    OBVIOUS
<1>5. PushVerdict(pair.medusa, pair.frappe)' = PushVerdict(pair.medusa, pair.frappe)
    BY DEF PushVerdict
<1>6. Coerced(v, code)' = Coerced(v, code)
    BY CoercedStays
<1>7. Written("push") = IF v = Empty THEN Unconvertible ELSE Coerced(v, code)
    BY <1>1, <1>4, PushIs DEF Out
<1>8. Written("push")' = IF v = Empty THEN Unconvertible ELSE Coerced(v, code)'
    BY <1>3, <1>4, <1>5, PushIsNext DEF Out
<1>9. FlowsIn("push")' = FlowsIn("push")
    BY DEF FlowsIn
<1> QED
    BY <1>6, <1>7, <1>8, <1>9 DEF Carries

LEMMA PullStays ==
    ASSUME UNCHANGED <<pair, zone, inErp>>
    PROVE  /\ Written("pull")' = Written("pull") /\ FlowsIn("pull")' = FlowsIn("pull")
           /\ Carries("pull")' = Carries("pull")
<1>1. PICK v : v = Chosen(pair.fixed["pull"], Source("pull"), pair.default["pull"])
    OBVIOUS
<1>2. Source("pull")' = Source("pull")
    BY DEF Source
<1>3. Chosen(pair.fixed["pull"], Source("pull"), pair.default["pull"])' = v
    BY <1>1, <1>2 DEF Chosen
<1>4. PICK code : code = PullVerdict(pair.medusa, pair.frappe).code
    OBVIOUS
<1>5. PullVerdict(pair.medusa, pair.frappe)' = PullVerdict(pair.medusa, pair.frappe)
    BY DEF PullVerdict
<1>6. Coerced(v, code)' = Coerced(v, code)
    BY CoercedStays
<1>7. Written("pull") = IF v = Empty THEN Unconvertible ELSE Coerced(v, code)
    BY <1>1, <1>4, PullIs DEF In
<1>8. Written("pull")' = IF v = Empty THEN Unconvertible ELSE Coerced(v, code)'
    BY <1>3, <1>4, <1>5, PullIsNext DEF In
<1>9. FlowsIn("pull")' = FlowsIn("pull")
    BY DEF FlowsIn
<1> QED
    BY <1>6, <1>7, <1>8, <1>9 DEF Carries
LEMMA HeldIsSomething ==
    /\ \A m, v : StoreHolds(m, v) => v # Empty /\ v # Unconvertible
    /\ \A m, f, v : DeskHolds(m, f, v) => v # Empty /\ v # Unconvertible
    /\ \A v : IsText(v) => v # Empty /\ v # Unconvertible
    /\ Empty # Unconvertible
<1>1. Empty.is = "empty" /\ Unconvertible.is = "failure"
    BY DEF Empty, Unconvertible, V
<1>2. /\ \A r, n : Text(r, n).is = "text"
      /\ \A n : Number(n).is = "number" /\ Bool(n).is = "boolean" /\ Instant(n).is = "instant"
      /\ \A r, n : V("list", r, n).is = "list"
    BY DEF Text, Number, Bool, Instant, V
<1>3. /\ \A v : IsText(v) => v.is = "text"
      /\ \A v : IsNumber(v) => v.is = "number"
      /\ \A v : IsBool(v) => v.is = "boolean"
      /\ \A v : IsInstant(v) => v.is = "instant"
      /\ \A v : IsList(v) => v.is = "list"
      /\ \A v : IsWall(v) => v.is = "text"
      /\ \A v : IsDay(v) => v.is = "text"
    BY <1>2 DEF IsText, IsNumber, IsBool, IsInstant, IsList, IsWall, IsDay
<1>4. \A m, v : StoreHolds(m, v) => v.is \in {"text", "number", "boolean", "instant", "list"}
    BY <1>3 DEF StoreHolds
<1>5. \A m, f, v : DeskHolds(m, f, v) => v.is \in {"text", "number", "instant"}
    BY <1>2, <1>3 DEF DeskHolds
<1> QED
    BY <1>1, <1>3, <1>4, <1>5

LEMMA DeskStays ==
    ASSUME zone' = zone, NEW m, NEW f, NEW v
    PROVE  DeskHolds(m, f, v)' = DeskHolds(m, f, v)
<1>1. IsWall(v)' = IsWall(v)
    BY DEF IsWall, Skipped
<1> QED
    BY <1>1, Zenon DEF DeskHolds, IsDay, DayStart, IsText, IsNumber, IsInstant, Text, Number,
       Instant, V

LEMMA TextPairIs ==
    ASSUME NEW v
    PROVE  Out("string", "text", v) = v /\ In("string", "text", v) = v
BY AsItIs DEF Out, In, PushVerdict, PullVerdict, AsIs

LEMMA OutStays ==
    ASSUME zone' = zone, NEW m, NEW f, NEW v
    PROVE  Out(m, f, v)' = Out(m, f, v) /\ In(m, f, v)' = In(m, f, v)
<1>1. PICK c : c = PushVerdict(m, f).code
    OBVIOUS
<1>2. PICK d : d = PullVerdict(m, f).code
    OBVIOUS
<1>3. Coerced(v, c)' = Coerced(v, c) /\ Coerced(v, d)' = Coerced(v, d)
    BY CoercedStays
<1>4. PushVerdict(m, f)' = PushVerdict(m, f) /\ PullVerdict(m, f)' = PullVerdict(m, f)
    BY DEF PushVerdict, PullVerdict, AsIs, Safe, Review, Unmappable
<1> QED
    BY <1>1, <1>2, <1>3, <1>4 DEF Out, In
LEMMA PlainOrText ==
    ASSUME PairIs
    PROVE  \/ pair.medusa = "string" /\ pair.frappe = "text"
           \/ ~pair.template /\ \A d \in Flows : pair.fixed[d] = Empty /\ pair.default[d] = Empty
BY DEF PairIs

LEMMA BothWays ==
    ASSUME FlowsIn("push"), FlowsIn("pull")
    PROVE  ~pair.template /\ pair.fixed["push"] = Empty /\ pair.fixed["pull"] = Empty
BY DEF FlowsIn, Other

\* What a push of the value just pulled leaves, a pull would only bring back.
LEMMA PullSettles ==
    ASSUME FieldInv, NoMidnightIsLost, FlowsIn("push"), FlowsIn("pull"),
           Carries("pull"), inStore.first = Written("pull"), Carries("push"),
           UNCHANGED <<pair, zone>>, inErp' = Written("push")
    PROVE  Carries("pull")' => Written("pull")' = inStore.first
<1> DEFINE m == pair.medusa
           f == pair.frappe
<1>1. PICK s, e, w : s = inStore.first /\ e = inErp /\ w = Written("push")
    OBVIOUS
<1>2. m \in MedusaTypes /\ f \in FrappeTypes /\ Mappable(m, f) /\ zone \in Zones
    BY DEF FieldInv, PairIs
<1>3. /\ s = Empty \/ StoreHolds(m, s)
      /\ e = Empty \/ DeskHolds(m, f, e)
    BY <1>1 DEF FieldInv, SidesAre
<1>4. ~pair.template /\ pair.fixed["push"] = Empty /\ pair.fixed["pull"] = Empty
    BY BothWays
<1>5. Source("push") = s /\ Source("pull") = e /\ Source("pull")' = w
    BY <1>1, <1>4 DEF Source
<1>6. s # Unconvertible /\ w # Unconvertible /\ s # Empty
    <2>1. s # Unconvertible /\ w # Unconvertible
        BY <1>1 DEF Carries
    <2>2. CASE m = "string" /\ f = "text"
        <3>1. PICK v : v = Chosen(pair.fixed["pull"], Source("pull"), pair.default["pull"])
            OBVIOUS
        <3>2. s = IF v = Empty THEN Unconvertible ELSE v
            BY <3>1, <2>2, <1>1, PullIs, TextPairIs
        <3> QED
            BY <3>2, <2>1
    <2>3. CASE \A d \in Flows : pair.fixed[d] = Empty /\ pair.default[d] = Empty
        <3>1. e # Empty /\ s = In(m, f, e)
            BY <2>1, <2>3, <1>1, <1>5, PullIs DEF Chosen, Flows
        <3>2. GoesAndComes(m, f)
            BY <1>2, PairGoesAndComes
        <3>3. StoreHolds(m, s)
            BY <3>1, <3>2, <2>1, <1>3 DEF GoesAndComes
        <3> QED
            BY <3>3, <2>1, HeldIsSomething
    <2> QED
        BY <2>2, <2>3, PlainOrText DEF FieldInv
<1>7. w = Out(m, f, s)
    BY <1>1, <1>4, <1>5, <1>6, PushIs DEF Chosen
<1>8. pair' = pair /\ In(m, f, w)' = In(m, f, w)
    BY OutStays
<1>9. CASE m = "string" /\ f = "text"
    <2>1. w = s
        BY <1>7, <1>9, TextPairIs
    <2>2. Written("pull")' = In(m, f, w)'
        BY <1>4, <1>5, <1>6, <1>8, <2>1, PullIsNext DEF Chosen
    <2> QED
        BY <2>1, <2>2, <1>1, <1>8, <1>9, TextPairIs
<1>10. CASE \A d \in Flows : pair.fixed[d] = Empty /\ pair.default[d] = Empty
    <2>1. e # Empty /\ s = In(m, f, e)
        BY <1>6, <1>10, <1>1, <1>5, PullIs DEF Chosen, Flows
    <2>2. GoesAndComes(m, f)
        BY <1>2, PairGoesAndComes
    <2>3. In(m, f, w) \in {s, Unconvertible}
        BY <2>1, <2>2, <1>3, <1>6, <1>7 DEF GoesAndComes
    <2>4. w # Empty
        <3>1. StoreHolds(m, s)
            BY <1>3, <1>6
        <3>2. DeskHolds(m, f, w)
            BY <3>1, <2>2, <1>6, <1>7 DEF GoesAndComes
        <3> QED
            BY <3>2, HeldIsSomething
    <2>5. Written("pull")' = In(m, f, w)'
        BY <1>4, <1>5, <1>8, <2>4, PullIsNext DEF Chosen
    <2> QED
        BY <2>3, <2>5, <1>1, <1>8 DEF Carries
<1> QED
    BY <1>9, <1>10, PlainOrText DEF FieldInv

\* What a pull of the value just pushed leaves, a push would only send again.
LEMMA PushSettles ==
    ASSUME FieldInv, NoMidnightIsLost, FlowsIn("push"), FlowsIn("pull"),
           Carries("push"), inErp = Written("push"), Carries("pull"),
           UNCHANGED <<pair, zone>>, inStore' = [inStore EXCEPT !.first = Written("pull")]
    PROVE  Carries("push")' => Written("push")' = inErp
<1> DEFINE m == pair.medusa
           f == pair.frappe
<1>1. PICK s, e, w : s = inStore.first /\ e = inErp /\ w = Written("pull")
    OBVIOUS
<1>2. m \in MedusaTypes /\ f \in FrappeTypes /\ Mappable(m, f) /\ zone \in Zones
    BY DEF FieldInv, PairIs
<1>3. /\ s = Empty \/ StoreHolds(m, s)
      /\ e = Empty \/ DeskHolds(m, f, e)
    BY <1>1 DEF FieldInv, SidesAre
<1>4. ~pair.template /\ pair.fixed["push"] = Empty /\ pair.fixed["pull"] = Empty
    BY BothWays
<1>5. Source("push") = s /\ Source("pull") = e /\ Source("push")' = w
    <2>1. inStore'.first = w
        BY <1>1 DEF FieldInv, SidesAre
    <2> QED
        BY <2>1, <1>1, <1>4 DEF Source
<1>6. e # Unconvertible /\ w # Unconvertible /\ e # Empty
    <2>1. e # Unconvertible /\ w # Unconvertible
        BY <1>1 DEF Carries
    <2>2. CASE m = "string" /\ f = "text"
        <3>1. PICK v : v = Chosen(pair.fixed["push"], Source("push"), pair.default["push"])
            OBVIOUS
        <3>2. e = IF v = Empty THEN Unconvertible ELSE v
            BY <3>1, <2>2, <1>1, PushIs, TextPairIs
        <3> QED
            BY <3>2, <2>1
    <2>3. CASE \A d \in Flows : pair.fixed[d] = Empty /\ pair.default[d] = Empty
        <3>1. s # Empty /\ e = Out(m, f, s)
            BY <2>1, <2>3, <1>1, <1>5, PushIs DEF Chosen, Flows
        <3>2. GoesAndComes(m, f)
            BY <1>2, PairGoesAndComes
        <3>3. DeskHolds(m, f, e)
            BY <3>1, <3>2, <2>1, <1>3 DEF GoesAndComes
        <3> QED
            BY <3>3, <2>1, HeldIsSomething
    <2> QED
        BY <2>2, <2>3, PlainOrText DEF FieldInv
<1>7. w = In(m, f, e)
    BY <1>1, <1>4, <1>5, <1>6, PullIs DEF Chosen
<1>8. pair' = pair /\ Out(m, f, w)' = Out(m, f, w)
    BY OutStays
<1>9. CASE m = "string" /\ f = "text"
    <2>1. w = e
        BY <1>7, <1>9, TextPairIs
    <2>2. Written("push")' = Out(m, f, w)'
        BY <1>4, <1>5, <1>6, <1>8, <2>1, PushIsNext DEF Chosen
    <2> QED
        BY <2>1, <2>2, <1>1, <1>8, <1>9, TextPairIs
<1>10. CASE \A d \in Flows : pair.fixed[d] = Empty /\ pair.default[d] = Empty
    <2>1. s # Empty /\ e = Out(m, f, s)
        BY <1>6, <1>10, <1>1, <1>5, PushIs DEF Chosen, Flows
    <2>2. GoesAndComes(m, f)
        BY <1>2, PairGoesAndComes
    <2>3. Out(m, f, w) \in {e, Unconvertible}
        BY <2>1, <2>2, <1>3, <1>6, <1>7 DEF GoesAndComes
    <2>4. w # Empty
        <3>1. DeskHolds(m, f, e)
            BY <1>3, <1>6
        <3>2. StoreHolds(m, w)
            BY <3>1, <2>2, <1>6, <1>7 DEF GoesAndComes
        <3> QED
            BY <3>2, HeldIsSomething
    <2>5. Written("push")' = Out(m, f, w)'
        BY <1>4, <1>5, <1>8, <2>4, PushIsNext DEF Chosen
    <2> QED
        BY <2>3, <2>5, <1>1, <1>8 DEF Carries
<1> QED
    BY <1>9, <1>10, PlainOrText DEF FieldInv
LEMMA TextHolds ==
    ASSUME NEW v
    PROVE  (StoreHolds("string", v) <=> IsText(v)) /\ (DeskHolds("string", "text", v) <=> IsText(v))
BY DEF StoreHolds, DeskHolds

LEMMA WhatIsWrittenHolds ==
    ASSUME FieldInv, NoMidnightIsLost
    PROVE  /\ Carries("push") => DeskHolds(pair.medusa, pair.frappe, Written("push"))
           /\ Carries("pull") => StoreHolds(pair.medusa, Written("pull"))
<1> DEFINE m == pair.medusa
           f == pair.frappe
<1>1. m \in MedusaTypes /\ f \in FrappeTypes /\ Mappable(m, f) /\ zone \in Zones
    BY DEF FieldInv, PairIs
<1>2. /\ inStore.first = Empty \/ StoreHolds(m, inStore.first)
      /\ inErp = Empty \/ DeskHolds(m, f, inErp)
    BY DEF FieldInv, SidesAre
<1>3. CASE m = "string" /\ f = "text"
    <2>1. EmptyOrText(inStore.first) /\ EmptyOrText(inErp) /\ EmptyOrText(inStore.last)
        BY <1>2, <1>3, TextHolds DEF EmptyOrText, FieldInv, SidesAre
    <2>2. EmptyOrText(Rendered)
        <3>1. CASE inStore.first = Empty \/ inStore.last = Empty
            BY <3>1, <2>1 DEF Rendered
        <3>2. CASE inStore.first # Empty /\ inStore.last # Empty
            <4>1. inStore.first.n \in Int /\ inStore.last.n \in Int
                BY <3>2, <2>1 DEF EmptyOrText, IsText
            <4>2. 10 * inStore.first.n + inStore.last.n \in Int
                BY <4>1
            <4>3. Rendered = AText(10 * inStore.first.n + inStore.last.n)
                BY <3>2 DEF Rendered
            <4>4. \A n \in Int : IsText(AText(n))
                BY DEF IsText, AText, Text, V
            <4> QED
                BY <4>2, <4>3, <4>4 DEF EmptyOrText
        <3> QED
            BY <3>1, <3>2
    <2>3. EmptyOrText(Source("push")) /\ EmptyOrText(Source("pull"))
        BY <2>1, <2>2 DEF Source
    <2>4. \A d \in Flows : EmptyOrText(pair.fixed[d]) /\ EmptyOrText(pair.default[d])
        BY DEF FieldInv, PairIs
    <2>5. \A d \in Flows : EmptyOrText(Chosen(pair.fixed[d], Source(d), pair.default[d]))
        BY <2>3, <2>4 DEF Chosen, Flows
    <2>6. PICK v : v = Chosen(pair.fixed["push"], Source("push"), pair.default["push"])
        OBVIOUS
    <2>7. PICK u : u = Chosen(pair.fixed["pull"], Source("pull"), pair.default["pull"])
        OBVIOUS
    <2>8. /\ Written("push") = IF v = Empty THEN Unconvertible ELSE v
          /\ Written("pull") = IF u = Empty THEN Unconvertible ELSE u
        BY <2>6, <2>7, <1>3, PushIs, PullIs, TextPairIs
    <2>9. EmptyOrText(v) /\ EmptyOrText(u)
        BY <2>5, <2>6, <2>7 DEF Flows
    <2> QED
        BY <2>8, <2>9, <1>3, TextHolds DEF EmptyOrText, Carries
<1>4. CASE ~pair.template /\ \A d \in Flows : pair.fixed[d] = Empty /\ pair.default[d] = Empty
    <2>1. GoesAndComes(m, f)
        BY <1>1, PairGoesAndComes
    <2>2. Source("push") = inStore.first /\ Source("pull") = inErp
        BY <1>4 DEF Source
    <2>3. /\ Written("push") = IF inStore.first = Empty THEN Unconvertible ELSE Out(m, f, inStore.first)
          /\ Written("pull") = IF inErp = Empty THEN Unconvertible ELSE In(m, f, inErp)
        BY <2>2, <1>4, PushIs, PullIs DEF Chosen, Flows
    <2> QED
        BY <2>1, <2>3, <1>2 DEF GoesAndComes, Carries
<1> QED
    BY <1>3, <1>4, PlainOrText DEF FieldInv

-----------------------------------------------------------------------------
LEMMA OptionedIs ==
    ASSUME pair \in Optioned
    PROVE  /\ pair.medusa = "string" /\ pair.frappe = "text" /\ pair.template \in BOOLEAN
           /\ \A d \in Flows : pair.fixed[d] \in {Empty, AText(3)}
           /\ \A d \in Flows : pair.default[d] \in {Empty, AText(3), AText(4)}
<1>1. \/ \E w \in {"push", "pull", "none"} : pair = [TextPair EXCEPT !.way = w]
      \/ pair = [TextPair EXCEPT !.template = TRUE]
      \/ \E d \in {"push", "pull"} : pair = [TextPair EXCEPT !.fixed[d] = AText(3)]
      \/ \E p \in {Empty, AText(3)}, q \in {Empty, AText(4)} :
             pair = [TextPair EXCEPT !.default.push = p, !.default.pull = q]
    BY SMT DEF Optioned
<1>2. /\ TextPair.medusa = "string" /\ TextPair.frappe = "text" /\ TextPair.template = FALSE
      /\ TextPair.fixed["push"] = Empty /\ TextPair.fixed["pull"] = Empty
      /\ TextPair.default["push"] = Empty /\ TextPair.default["pull"] = Empty
    BY DEF TextPair, Plain
<1>3. CASE \E w \in {"push", "pull", "none"} : pair = [TextPair EXCEPT !.way = w]
    <2>1. /\ pair.medusa = "string" /\ pair.frappe = "text" /\ pair.template = FALSE
          /\ pair.fixed = TextPair.fixed /\ pair.default = TextPair.default
        BY <1>3 DEF TextPair, Plain
    <2> QED
        BY <2>1, <1>2 DEF Flows
<1>4. CASE pair = [TextPair EXCEPT !.template = TRUE]
    <2>1. /\ pair.medusa = "string" /\ pair.frappe = "text" /\ pair.template = TRUE
          /\ pair.fixed = TextPair.fixed /\ pair.default = TextPair.default
        BY <1>4 DEF TextPair, Plain
    <2> QED
        BY <2>1, <1>2 DEF Flows
<1>5. CASE \E d \in {"push", "pull"} : pair = [TextPair EXCEPT !.fixed[d] = AText(3)]
    <2>0. PICK t : t = AText(3)
        OBVIOUS
    <2>1. PICK d \in {"push", "pull"} : pair = [TextPair EXCEPT !.fixed[d] = t]
        BY <1>5, <2>0
    <2>2. /\ pair.medusa = "string" /\ pair.frappe = "text" /\ pair.template = FALSE
          /\ pair.default = TextPair.default
        BY <2>1 DEF TextPair, Plain
    <2>3. pair.fixed = [[push |-> Empty, pull |-> Empty] EXCEPT ![d] = t]
        BY <2>1 DEF TextPair, Plain
    <2>4. pair.fixed["push"] \in {Empty, t} /\ pair.fixed["pull"] \in {Empty, t}
        BY <2>1, <2>3
    <2> QED
        BY <2>0, <2>2, <2>4, <1>2 DEF Flows
<1>6. CASE \E p \in {Empty, AText(3)}, q \in {Empty, AText(4)} :
              pair = [TextPair EXCEPT !.default.push = p, !.default.pull = q]
    <2>1. PICK p \in {Empty, AText(3)}, q \in {Empty, AText(4)} :
              pair = [TextPair EXCEPT !.default.push = p, !.default.pull = q]
        BY <1>6
    <2>2. /\ pair.medusa = "string" /\ pair.frappe = "text" /\ pair.template = FALSE
          /\ pair.fixed = TextPair.fixed
        BY <2>1 DEF TextPair, Plain
    <2>3. pair.default = [push |-> p, pull |-> q]
        BY <2>1 DEF TextPair, Plain
    <2>4. pair.default["push"] = p /\ pair.default["pull"] = q
        BY <2>3
    <2> QED
        BY <2>1, <2>2, <2>4, <1>2 DEF Flows
<1> QED
    BY <1>1, <1>3, <1>4, <1>5, <1>6

LEMMA FieldInitHolds == FieldInit => FieldInv
<1> SUFFICES ASSUME FieldInit PROVE FieldInv
    OBVIOUS
<1>1. EmptyOrText(Empty) /\ EmptyOrText(AText(3)) /\ EmptyOrText(AText(4))
    BY DEF EmptyOrText, IsText, AText, Text, V
<1>2. PairIs
    <2>1. CASE \E m \in MedusaTypes, f \in FrappeTypes : pair = Plain(m, f)
        BY <2>1, <1>1 DEF PairIs, Plain, FieldInit, Flows
    <2>2. CASE pair \in Optioned
        <3>1. /\ pair.medusa = "string" /\ pair.frappe = "text" /\ pair.template \in BOOLEAN
              /\ \A d \in Flows : pair.fixed[d] \in {Empty, AText(3)}
              /\ \A d \in Flows : pair.default[d] \in {Empty, AText(3), AText(4)}
            BY <2>2, OptionedIs
        <3> QED
            BY <3>1, <1>1 DEF PairIs, FieldInit, MedusaTypes, FrappeTypes
    <2> QED
        BY <2>1, <2>2 DEF FieldInit
<1>3. SidesAre
    BY DEF FieldInit, SidesAre
<1>4. PairRests
    BY DEF FieldInit, PairRests, Flows
<1> QED
    BY <1>2, <1>3, <1>4 DEF FieldInv, FieldInit
LEMMA TextsAre ==
    /\ \A v \in TextsEdited : EmptyOrText(v)
    /\ \A v \in WallsEdited : v = Empty \/ (IsWall(v) /\ IsText(v))
    /\ \A v \in DaysEdited : v = Empty \/ IsDay(v)
    /\ \A r, n : n \in Int => IsText(Text(r, n))
<1>1. \A r, n : Text(r, n).reads = r /\ Text(r, n).n = n
    BY DEF Text, V
<1>2. \A r, n : n \in Int => IsText(Text(r, n))
    BY <1>1 DEF IsText
<1>3. \A v \in TextsEdited : EmptyOrText(v)
    BY <1>2 DEF TextsEdited, EmptyOrText
<1>4. \A v \in WallsEdited : v = Empty \/ (IsWall(v) /\ IsText(v))
    BY <1>1, FieldAssumption DEF WallsEdited, IsWall, IsText
<1>5. \A v \in DaysEdited : v = Empty \/ IsDay(v)
    <2>1. ASSUME NEW w \in WallTimes
          PROVE  IsDay(Text("day", DayStart(w)))
        <3>1. w \in Int
            BY FieldAssumption
        <3>2. PICK d : d = DayStart(w)
            OBVIOUS
        <3>3. d \in Int /\ d % 2 = 0 /\ DayStart(d) = d
            BY <3>1, <3>2, DayStartIs
        <3> QED
            BY <1>1, <3>2, <3>3 DEF IsDay
    <2> QED
        BY <2>1 DEF DaysEdited
<1> QED
    BY <1>2, <1>3, <1>4, <1>5

LEMMA StoreEditsHold ==
    ASSUME FieldInv, NEW v \in StoreEdits(pair.medusa)
    PROVE  v = Empty \/ StoreHolds(pair.medusa, v)
<1> DEFINE m == pair.medusa
<1>1. m \in MedusaTypes
    BY DEF FieldInv, PairIs
<1>2. CASE m = "string"
    <2>1. v \in WallsEdited \/ v \in TextsEdited
        BY <1>2 DEF StoreEdits
    <2>2. v = Empty \/ IsText(v)
        BY <2>1, TextsAre DEF EmptyOrText
    <2> QED
        BY <2>2, <1>2, TextHolds
<1>3. CASE m = "number"
    <2>1. IsNumber(Number(0)) /\ IsNumber(Number(15)) /\ IsNumber(Number(20))
        BY DEF IsNumber, Number, V
    <2> QED
        BY <2>1, <1>3 DEF StoreEdits, StoreHolds
<1>4. CASE m = "boolean"
    BY <1>4 DEF StoreEdits, StoreHolds, IsBool
<1>5. CASE m = "datetime"
    <2>1. \A i \in Int : IsInstant(Instant(i))
        BY DEF IsInstant, Instant, V
    <2> QED
        BY <2>1, <1>5, FieldAssumption DEF StoreEdits, StoreHolds
<1>6. CASE m \in {"array", "json"}
    <2>1. IsList(List(1)) /\ IsList(List(2))
        BY DEF IsList, List, V
    <2> QED
        BY <2>1, <1>6 DEF StoreEdits, StoreHolds
<1> QED
    BY <1>1, <1>2, <1>3, <1>4, <1>5, <1>6 DEF MedusaTypes

LEMMA DeskEditsHold ==
    ASSUME FieldInv, NEW v \in DeskEdits(pair.frappe)
    PROVE  v = Empty \/ DeskHolds(pair.medusa, pair.frappe, v)
<1> DEFINE f == pair.frappe
<1>1. f \in FrappeTypes
    BY DEF FieldInv, PairIs
<1>2. CASE f = "text"
    <2>1. v = Empty \/ IsText(v)
        BY <1>2, TextsAre DEF DeskEdits, EmptyOrText
    <2> QED
        BY <2>1, <1>2 DEF DeskHolds
<1>3. CASE f = "float"
    <2>1. IsNumber(Number(0)) /\ IsNumber(Number(15)) /\ IsNumber(Number(20))
        BY DEF IsNumber, Number, V
    <2> QED
        BY <2>1, <1>3 DEF DeskEdits, DeskHolds
<1>4. CASE f = "int"
    <2>1. /\ IsNumber(Number(0)) /\ Number(0).n = 10 * (Number(0).n \div 10)
          /\ IsNumber(Number(20)) /\ Number(20).n = 10 * (Number(20).n \div 10)
        BY DEF IsNumber, Number, V
    <2> QED
        BY <2>1, <1>4 DEF DeskEdits, DeskHolds
<1>5. CASE f = "check"
    BY <1>5 DEF DeskEdits, DeskHolds
<1>6. CASE f = "date"
    BY <1>6, TextsAre DEF DeskEdits, DeskHolds
<1>7. CASE f = "datetime"
    BY <1>7, TextsAre DEF DeskEdits, DeskHolds
<1>8. CASE f = "time"
    BY <1>8, TextsAre DEF DeskEdits, DeskHolds
<1>9. CASE f = "json"
    <2>1. Text("json", 1).n = 1
        BY DEF Text, V
    <2> QED
        BY <2>1, <1>9 DEF DeskEdits, DeskHolds
<1> QED
    BY <1>1, <1>2, <1>3, <1>4, <1>5, <1>6, <1>7, <1>8, <1>9 DEF FrappeTypes

-----------------------------------------------------------------------------
LEMMA PairStays ==
    ASSUME FieldInv, pair' = pair
    PROVE  PairIs'
BY DEF FieldInv, PairIs, Mappable, PushVerdict, PullVerdict, EmptyOrText, IsText, Text, V

LEMMA EditStoreHolds ==
    ASSUME FieldInv, NEW v \in StoreEdits(pair.medusa), EditStore(v)
    PROVE  FieldInv'
<1>1. v = Empty \/ StoreHolds(pair.medusa, v)
    BY StoreEditsHold
<1>2. pair' = pair /\ zone' = zone /\ inErp' = inErp /\ moved' = {} /\ fieldEdits' = fieldEdits + 1
    BY DEF EditStore
<1>3. PairIs'
    BY <1>2, PairStays
<1>4. SidesAre'
    <2>1. inErp' = Empty \/ DeskHolds(pair.medusa, pair.frappe, inErp)'
        <3>1. PICK m, f, e : m = pair.medusa /\ f = pair.frappe /\ e = inErp
            OBVIOUS
        <3>2. DeskHolds(m, f, e)' = DeskHolds(m, f, e)
            BY <1>2, DeskStays
        <3> QED
            BY <3>1, <3>2, <1>2 DEF FieldInv, SidesAre
    <2>2. CASE inStore' = [inStore EXCEPT !.first = v]
        <3>1. inStore' = [first |-> v, last |-> inStore.last]
            BY <2>2 DEF FieldInv, SidesAre
        <3> QED
            BY <3>1, <2>1, <1>1, <1>2 DEF FieldInv, SidesAre, StoreHolds
    <2>3. CASE pair.template /\ inStore' = [inStore EXCEPT !.last = v]
        <3>1. inStore' = [first |-> inStore.first, last |-> v]
            BY <2>3 DEF FieldInv, SidesAre
        <3>2. v = Empty \/ IsText(v)
            BY <1>1, <2>3, PlainOrText, TextHolds DEF FieldInv
        <3> QED
            BY <3>1, <3>2, <2>1, <2>3, <1>2 DEF FieldInv, SidesAre, StoreHolds
    <2> QED
        BY <2>2, <2>3 DEF EditStore
<1>5. PairRests'
    BY <1>2 DEF PairRests, Flows
<1> QED
    BY <1>2, <1>3, <1>4, <1>5 DEF FieldInv

LEMMA EditDeskHolds ==
    ASSUME FieldInv, NEW v \in DeskEdits(pair.frappe), EditDesk(v)
    PROVE  FieldInv'
<1>1. v = Empty \/ DeskHolds(pair.medusa, pair.frappe, v)
    BY DeskEditsHold
<1>2. pair' = pair /\ zone' = zone /\ inErp' = v /\ inStore' = inStore /\ moved' = {}
      /\ fieldEdits' = fieldEdits + 1
    BY DEF EditDesk
<1>3. PairIs'
    BY <1>2, PairStays
<1>4. SidesAre'
    <2>1. v = Empty \/ DeskHolds(pair.medusa, pair.frappe, inErp)'
        <3>1. PICK m, f : m = pair.medusa /\ f = pair.frappe
            OBVIOUS
        <3>2. DeskHolds(m, f, v)' = DeskHolds(m, f, v)
            BY <1>2, DeskStays
        <3> QED
            BY <3>1, <3>2, <1>1, <1>2
    <2> QED
        BY <2>1, <1>2 DEF FieldInv, SidesAre, StoreHolds
<1>5. PairRests'
    BY <1>2 DEF PairRests, Flows
<1> QED
    BY <1>2, <1>3, <1>4, <1>5 DEF FieldInv
LEMMA PushHolds ==
    ASSUME FieldInv, NoMidnightIsLost, Move("push")
    PROVE  FieldInv' /\ (moved = Flows => UNCHANGED <<inStore, inErp>>)
<1>1. pair' = pair /\ zone' = zone /\ fieldEdits' = fieldEdits /\ inStore' = inStore
    BY DEF Move
<1>2. PairIs'
    BY <1>1, PairStays
<1>3. /\ Written("push")' = Written("push") /\ FlowsIn("push")' = FlowsIn("push")
      /\ Carries("push")' = Carries("push")
    BY <1>1, PushStays
<1>4. FlowsIn("pull")' = FlowsIn("pull")
    BY <1>1 DEF FlowsIn
<1>5. CASE Carries("push")
    <2>1. inErp' = Written("push") /\ moved' = moved \cup {"push"} /\ FlowsIn("push")
        BY <1>5 DEF Move, Carries
    <2>2. SidesAre'
        <3>1. DeskHolds(pair.medusa, pair.frappe, inErp)'
            <4>1. PICK m, f, w : m = pair.medusa /\ f = pair.frappe /\ w = Written("push")
                OBVIOUS
            <4>2. DeskHolds(m, f, w)' = DeskHolds(m, f, w)
                BY <1>1, DeskStays
            <4>3. DeskHolds(m, f, w)
                BY <4>1, <1>5, WhatIsWrittenHolds
            <4> QED
                BY <4>1, <4>2, <4>3, <1>1, <2>1
        <3> QED
            BY <3>1, <1>1 DEF FieldInv, SidesAre, StoreHolds
    <2>3. CASE moved = Flows
        <3>1. inErp' = inErp
            BY <2>1, <2>3, <1>5 DEF FieldInv, PairRests, Target, Flows
        <3>2. moved' = moved
            BY <2>1, <2>3 DEF Flows
        <3>3. Written("pull")' = Written("pull") /\ Carries("pull")' = Carries("pull")
            BY <3>1, <1>1, PullStays
        <3>4. PairRests'
            BY <3>1, <3>2, <3>3, <1>1, <1>3, <1>4, <2>3 DEF FieldInv, PairRests, Target, Flows
        <3> QED
            BY <3>1, <3>2, <3>4, <1>1, <1>2, <2>2 DEF FieldInv
    <2>4. CASE moved = {"pull"}
        <3>1. moved' = Flows
            BY <2>1, <2>4 DEF Flows
        <3>2. Carries("pull")' => Written("pull")' = inStore.first
            <4>1. CASE FlowsIn("pull")
                <5>1. Carries("pull") /\ inStore.first = Written("pull")
                    BY <4>1, <2>4 DEF FieldInv, PairRests, Target, Flows
                <5> QED
                    BY <5>1, <4>1, <2>1, <1>1, <1>5, PullSettles
            <4>2. CASE ~FlowsIn("pull")
                BY <4>2, <1>4 DEF Carries
            <4> QED
                BY <4>1, <4>2
        <3>3. PairRests'
            BY <3>1, <3>2, <1>1, <1>3, <2>1 DEF PairRests, Target, Flows
        <3> QED
            BY <3>1, <3>3, <1>1, <1>2, <2>2, <2>4 DEF FieldInv, Flows
    <2>5. CASE moved \subseteq {"push"}
        <3>1. moved' = {"push"}
            BY <2>1, <2>5
        <3>2. PairRests'
            BY <3>1, <1>1, <1>3, <1>5, <2>1 DEF PairRests, Target, Flows
        <3> QED
            BY <3>1, <3>2, <1>1, <1>2, <2>2, <2>5 DEF FieldInv, Flows
    <2> QED
        BY <2>3, <2>4, <2>5 DEF FieldInv, Flows
<1>6. CASE ~Carries("push")
    <2>1. inErp' = inErp /\ (FlowsIn("push") => moved' = moved)
          /\ (~FlowsIn("push") => moved' = moved \cup {"push"})
        BY <1>6 DEF Move
    <2>2. Written("pull")' = Written("pull") /\ Carries("pull")' = Carries("pull")
        BY <2>1, <1>1, PullStays
    <2>3. SidesAre'
        <3>1. inErp' = Empty \/ DeskHolds(pair.medusa, pair.frappe, inErp)'
            <4>1. PICK m, f, e : m = pair.medusa /\ f = pair.frappe /\ e = inErp
                OBVIOUS
            <4>2. DeskHolds(m, f, e)' = DeskHolds(m, f, e)
                BY <1>1, DeskStays
            <4> QED
                BY <4>1, <4>2, <1>1, <2>1 DEF FieldInv, SidesAre
        <3> QED
            BY <3>1, <1>1 DEF FieldInv, SidesAre, StoreHolds
    <2>4. Target("push")' = Target("push") /\ Target("pull")' = Target("pull")
        BY <2>1, <1>1 DEF Target
    <2>5. moved' \subseteq Flows
        BY <2>1 DEF FieldInv, Flows
    <2>6. PairRests'
        <3>1. CASE FlowsIn("push")
            BY <3>1, <2>1, <2>2, <2>4, <1>3, <1>4 DEF FieldInv, PairRests, Flows
        <3>2. CASE ~FlowsIn("push")
            <4>1. moved' = {"push"} \/ moved' = Flows
                BY <3>2, <2>1 DEF FieldInv, Flows
            <4>2. moved' = Flows => moved = Flows \/ moved = {"pull"}
                BY <3>2, <2>1 DEF FieldInv, Flows
            <4>3. moved' = Flows /\ Carries("pull") => Target("pull") = Written("pull")
                BY <4>2 DEF FieldInv, PairRests, Flows, Carries
            <4> QED
                BY <4>1, <4>3, <3>2, <1>3, <1>4, <1>6, <2>2, <2>4 DEF PairRests, Flows
        <3> QED
            BY <3>1, <3>2
    <2> QED
        BY <2>1, <2>3, <2>5, <2>6, <1>1, <1>2 DEF FieldInv
<1> QED
    BY <1>5, <1>6
LEMMA PullHolds ==
    ASSUME FieldInv, NoMidnightIsLost, Move("pull")
    PROVE  FieldInv' /\ (moved = Flows => UNCHANGED <<inStore, inErp>>)
<1>1. pair' = pair /\ zone' = zone /\ fieldEdits' = fieldEdits /\ inErp' = inErp
    BY DEF Move
<1>2. PairIs'
    BY <1>1, PairStays
<1>3. /\ Written("pull")' = Written("pull") /\ FlowsIn("pull")' = FlowsIn("pull")
      /\ Carries("pull")' = Carries("pull")
    BY <1>1, PullStays
<1>4. FlowsIn("push")' = FlowsIn("push")
    BY <1>1 DEF FlowsIn
<1>5. inErp' = Empty \/ DeskHolds(pair.medusa, pair.frappe, inErp)'
    <2>1. PICK m, f, e : m = pair.medusa /\ f = pair.frappe /\ e = inErp
        OBVIOUS
    <2>2. DeskHolds(m, f, e)' = DeskHolds(m, f, e)
        BY <1>1, DeskStays
    <2> QED
        BY <2>1, <2>2, <1>1 DEF FieldInv, SidesAre
<1>6. CASE Carries("pull")
    <2>1. /\ inStore' = [inStore EXCEPT !.first = Written("pull")]
          /\ moved' = moved \cup {"pull"} /\ FlowsIn("pull")
        BY <1>6 DEF Move, Carries
    <2>2. inStore' = [first |-> Written("pull"), last |-> inStore.last]
        BY <2>1 DEF FieldInv, SidesAre
    <2>3. inStore'.first = Written("pull") /\ inStore'.last = inStore.last
        BY <2>2
    <2>4. SidesAre'
        <3>1. StoreHolds(pair.medusa, Written("pull"))
            BY <1>6, WhatIsWrittenHolds
        <3> QED
            BY <3>1, <2>2, <2>3, <1>1, <1>5 DEF FieldInv, SidesAre, StoreHolds
    <2>5. CASE moved = Flows
        <3>1. inStore.first = Written("pull")
            BY <2>5, <1>6 DEF FieldInv, PairRests, Target, Flows
        <3>2. inStore' = inStore
            BY <3>1, <2>2 DEF FieldInv, SidesAre
        <3>3. moved' = moved
            BY <2>1, <2>5 DEF Flows
        <3>4. Written("push")' = Written("push") /\ Carries("push")' = Carries("push")
            BY <3>2, <1>1, PushStays
        <3>5. PairRests'
            BY <3>2, <3>3, <3>4, <1>1, <1>3, <1>4, <2>5 DEF FieldInv, PairRests, Target, Flows
        <3> QED
            BY <3>2, <3>3, <3>5, <1>1, <1>2, <2>4 DEF FieldInv
    <2>6. CASE moved = {"push"}
        <3>1. moved' = Flows
            BY <2>1, <2>6 DEF Flows
        <3>2. Carries("push")' => Written("push")' = inErp
            <4>1. CASE FlowsIn("push")
                <5>1. Carries("push") /\ inErp = Written("push")
                    BY <4>1, <2>6 DEF FieldInv, PairRests, Target, Flows
                <5> QED
                    BY <5>1, <4>1, <2>1, <1>1, <1>6, PushSettles
            <4>2. CASE ~FlowsIn("push")
                BY <4>2, <1>4 DEF Carries
            <4> QED
                BY <4>1, <4>2
        <3>3. PairRests'
            BY <3>1, <3>2, <1>1, <1>3, <2>3 DEF PairRests, Target, Flows
        <3> QED
            BY <3>1, <3>3, <1>1, <1>2, <2>4, <2>6 DEF FieldInv, Flows
    <2>7. CASE moved \subseteq {"pull"}
        <3>1. moved' = {"pull"}
            BY <2>1, <2>7
        <3>2. PairRests'
            BY <3>1, <1>1, <1>3, <1>6, <2>3 DEF PairRests, Target, Flows
        <3> QED
            BY <3>1, <3>2, <1>1, <1>2, <2>4, <2>7 DEF FieldInv, Flows
    <2> QED
        BY <2>5, <2>6, <2>7 DEF FieldInv, Flows
<1>7. CASE ~Carries("pull")
    <2>1. inStore' = inStore /\ (FlowsIn("pull") => moved' = moved)
          /\ (~FlowsIn("pull") => moved' = moved \cup {"pull"})
        BY <1>7 DEF Move
    <2>2. Written("push")' = Written("push") /\ Carries("push")' = Carries("push")
        BY <2>1, <1>1, PushStays
    <2>3. SidesAre'
        BY <2>1, <1>1, <1>5 DEF FieldInv, SidesAre, StoreHolds
    <2>4. Target("push")' = Target("push") /\ Target("pull")' = Target("pull")
        BY <2>1, <1>1 DEF Target
    <2>5. moved' \subseteq Flows
        BY <2>1 DEF FieldInv, Flows
    <2>6. PairRests'
        <3>1. CASE FlowsIn("pull")
            BY <3>1, <2>1, <2>2, <2>4, <1>3, <1>4 DEF FieldInv, PairRests, Flows
        <3>2. CASE ~FlowsIn("pull")
            <4>1. moved' = {"pull"} \/ moved' = Flows
                BY <3>2, <2>1 DEF FieldInv, Flows
            <4>2. moved' = Flows => moved = Flows \/ moved = {"push"}
                BY <3>2, <2>1 DEF FieldInv, Flows
            <4>3. moved' = Flows /\ Carries("push") => Target("push") = Written("push")
                BY <4>2 DEF FieldInv, PairRests, Flows, Carries
            <4> QED
                BY <4>1, <4>3, <3>2, <1>3, <1>4, <1>7, <2>2, <2>4 DEF PairRests, Flows
        <3> QED
            BY <3>1, <3>2
    <2> QED
        BY <2>1, <2>3, <2>5, <2>6, <1>1, <1>2 DEF FieldInv
<1> QED
    BY <1>6, <1>7

LEMMA FieldStutterHolds ==
    ASSUME FieldInv, UNCHANGED fieldVars
    PROVE  FieldInv'
<1>1. /\ pair' = pair /\ zone' = zone /\ inStore' = inStore /\ inErp' = inErp
      /\ moved' = moved /\ fieldEdits' = fieldEdits
    BY DEF fieldVars
<1>2. PairIs'
    BY <1>1, PairStays
<1>3. inErp' = Empty \/ DeskHolds(pair.medusa, pair.frappe, inErp)'
    <2>1. PICK m, f, e : m = pair.medusa /\ f = pair.frappe /\ e = inErp
        OBVIOUS
    <2>2. DeskHolds(m, f, e)' = DeskHolds(m, f, e)
        BY <1>1, DeskStays
    <2> QED
        BY <2>1, <2>2, <1>1 DEF FieldInv, SidesAre
<1>4. SidesAre'
    BY <1>1, <1>3 DEF FieldInv, SidesAre, StoreHolds
<1>5. PairRests'
    BY <1>1, PushStays, PullStays DEF FieldInv, PairRests, Target, Flows
<1> QED
    BY <1>1, <1>2, <1>4, <1>5 DEF FieldInv

LEMMA FieldStepHolds ==
    ASSUME NoMidnightIsLost, FieldInv, [FieldNext]_fieldVars
    PROVE  FieldInv'
<1>1. ASSUME NEW d \in {"push", "pull"}, Move(d)
      PROVE  FieldInv'
    BY <1>1, PushHolds, PullHolds
<1> QED
    BY <1>1, EditStoreHolds, EditDeskHolds, FieldStutterHolds DEF FieldNext

\* CopiesSettle: a pair both of whose sides hold what the other would write stays as it
\* is, in every zone that does not skip a midnight west of Greenwich or a whole day.
THEOREM CopiesSettleHolds ==
    NoMidnightIsLost => (FieldSpec => CopiesSettle)
<1> SUFFICES ASSUME NoMidnightIsLost
             PROVE  FieldSpec => CopiesSettle
    OBVIOUS
<1>1. FieldInit => FieldInv
    BY FieldInitHolds
<1>2. FieldInv /\ [FieldNext]_fieldVars => FieldInv'
    BY FieldStepHolds
<1>3. FieldInv /\ [FieldNext]_fieldVars
         => [moved = {"push", "pull"} /\ fieldEdits' = fieldEdits => UNCHANGED <<inStore, inErp>>]_fieldVars
    <2> SUFFICES ASSUME FieldInv, FieldNext, moved = {"push", "pull"}, fieldEdits' = fieldEdits
                 PROVE  UNCHANGED <<inStore, inErp>>
        BY DEF fieldVars
    <2>1. fieldEdits' # fieldEdits + 1
        BY DEF FieldInv
    <2>2. PICK d \in {"push", "pull"} : Move(d)
        BY <2>1 DEF FieldNext, EditStore, EditDesk
    <2> QED
        BY <2>2, PushHolds, PullHolds DEF Flows
<1> QED
    BY <1>1, <1>2, <1>3, PTL DEF FieldSpec, CopiesSettle

-----------------------------------------------------------------------------
(* FieldMapping: what its variables hold, in any zone *)

FieldHeld ==
    /\ FieldTypes
    /\ inStore = [first |-> inStore.first, last |-> inStore.last]

\* Nobody enters what no conversion gives.
LEMMA EntersSomething ==
    /\ \A v \in StoreEdits(pair.medusa) : v # Unconvertible
    /\ \A v \in DeskEdits(pair.frappe) : v # Unconvertible
<1>1. /\ \A r, n : Text(r, n) # Unconvertible
      /\ \A n : /\ Number(n) # Unconvertible /\ Bool(n) # Unconvertible
                /\ Instant(n) # Unconvertible /\ List(n) # Unconvertible
      /\ Empty # Unconvertible
    BY ValueFields, HeldIsSomething
<1>2. /\ \A v \in TextsEdited : v # Unconvertible
      /\ \A v \in WallsEdited : v # Unconvertible
      /\ \A v \in DaysEdited : v # Unconvertible
    BY <1>1, Zenon DEF TextsEdited, WallsEdited, DaysEdited
<1>3. ASSUME NEW v \in StoreEdits(pair.medusa) PROVE v # Unconvertible
    <2>1. PICK m : m = pair.medusa
        OBVIOUS
    <2>2. CASE m = "string"
        <3>1. v \in WallsEdited \/ v \in TextsEdited
            BY <1>3, <2>1, <2>2 DEF StoreEdits
        <3> QED
            BY <1>2, <3>1
    <2>3. CASE m = "number"
        BY <1>1, <1>3, <2>1, <2>3 DEF StoreEdits
    <2>4. CASE m = "boolean"
        BY <1>1, <1>3, <2>1, <2>4 DEF StoreEdits
    <2>5. CASE m = "datetime"
        <3>1. v = Empty \/ \E i \in Instants : v = Instant(i)
            BY <1>3, <2>1, <2>5 DEF StoreEdits
        <3> QED
            BY <1>1, <3>1
    <2>6. CASE m \notin {"string", "number", "boolean", "datetime"}
        <3>1. v \in {Empty, List(1), List(2)}
            BY <1>3, <2>1, <2>6 DEF StoreEdits
        <3> QED
            BY <1>1, <3>1
    <2> QED
        BY <2>2, <2>3, <2>4, <2>5, <2>6
<1>4. ASSUME NEW v \in DeskEdits(pair.frappe) PROVE v # Unconvertible
    <2>1. PICK f : f = pair.frappe
        OBVIOUS
    <2>2. CASE f = "text"
        <3>1. v \in WallsEdited \/ v \in TextsEdited \/ v \in {Empty, Text("words", 1), Text("json", 1)}
            BY <1>4, <2>1, <2>2 DEF DeskEdits
        <3> QED
            BY <1>1, <1>2, <3>1
    <2>3. CASE f = "float"
        BY <1>1, <1>4, <2>1, <2>3 DEF DeskEdits
    <2>4. CASE f \in {"int", "check"}
        BY <1>1, <1>4, <2>1, <2>4 DEF DeskEdits
    <2>5. CASE f \in {"date", "datetime"}
        BY <1>2, <1>4, <2>1, <2>5 DEF DeskEdits
    <2>6. CASE f \notin {"text", "float", "int", "check", "date", "datetime"}
        <3>1. v \in {Empty, Text("words", 1), Text("json", 1)}
            BY <1>4, <2>1, <2>6 DEF DeskEdits
        <3> QED
            BY <1>1, <3>1
    <2> QED
        BY <2>2, <2>3, <2>4, <2>5, <2>6
<1> QED
    BY <1>3, <1>4

LEMMA MappableStays ==
    ASSUME FieldHeld, pair' = pair PROVE Mappable(pair.medusa, pair.frappe)'
BY DEF FieldHeld, FieldTypes, Mappable, PushVerdict, PullVerdict

LEMMA FieldStaysHeld == ASSUME FieldHeld, [FieldNext]_fieldVars PROVE FieldHeld'
<1>1. UNCHANGED <<pair, zone>>
    BY DEF FieldNext, fieldVars, Move, EditStore, EditDesk
<1>2. Mappable(pair.medusa, pair.frappe)' /\ zone' \in Zones
    BY <1>1, MappableStays DEF FieldHeld, FieldTypes
<1>3. ASSUME NEW d \in {"push", "pull"}, Move(d) PROVE FieldHeld'
    <2>1. inErp' = inErp \/ (inErp' = Written(d) /\ Written(d) # Unconvertible)
        BY <1>3 DEF Move, Carries
    <2>2. UNCHANGED inStore \/ (inStore' = [inStore EXCEPT !.first = Written(d)]
                                /\ Written(d) # Unconvertible)
        BY <1>3 DEF Move, Carries
    <2>3. PICK w : w = Written(d)
        OBVIOUS
    <2>4. /\ inStore' = [first |-> inStore'.first, last |-> inStore'.last]
          /\ inStore'.first # Unconvertible /\ inStore'.last # Unconvertible
        BY <2>2, <2>3 DEF FieldHeld, FieldTypes
    <2>5. moved' \subseteq {"push", "pull"} /\ fieldEdits' \in 0..MaxFieldEdits
        BY <1>3 DEF Move, FieldHeld, FieldTypes
    <2> QED
        BY <1>2, <2>1, <2>4, <2>5 DEF FieldHeld, FieldTypes
<1>4. ASSUME NEW v \in StoreEdits(pair.medusa), EditStore(v) PROVE FieldHeld'
    <2>1. v # Unconvertible
        BY EntersSomething
    <2>2. \/ inStore' = [inStore EXCEPT !.first = v]
          \/ inStore' = [inStore EXCEPT !.last = v]
        BY <1>4 DEF EditStore
    <2>3. /\ inStore' = [first |-> inStore'.first, last |-> inStore'.last]
          /\ inStore'.first # Unconvertible /\ inStore'.last # Unconvertible
        BY <2>1, <2>2 DEF FieldHeld, FieldTypes
    <2>4. moved' = {} /\ fieldEdits' \in 0..MaxFieldEdits /\ inErp' # Unconvertible
        BY <1>4, FieldAssumption DEF EditStore, FieldHeld, FieldTypes
    <2> QED
        BY <1>2, <2>3, <2>4 DEF FieldHeld, FieldTypes
<1>5. ASSUME NEW v \in DeskEdits(pair.frappe), EditDesk(v) PROVE FieldHeld'
    <2>1. v # Unconvertible
        BY EntersSomething
    <2>2. moved' = {} /\ fieldEdits' \in 0..MaxFieldEdits /\ inErp' = v /\ UNCHANGED inStore
        BY <1>5, FieldAssumption DEF EditDesk, FieldHeld, FieldTypes
    <2> QED
        BY <1>2, <2>1, <2>2 DEF FieldHeld, FieldTypes
<1>6. CASE UNCHANGED fieldVars
    BY <1>2, <1>6 DEF fieldVars, FieldHeld, FieldTypes
<1> QED
    BY <1>3, <1>4, <1>5, <1>6 DEF FieldNext

\* The variables of FieldMapping hold what they are said to hold, whatever the zone
\* skips: applyMapping writes no value that could not be converted.
LEMMA FieldIsTyped == FieldSpec => []FieldTypes
<1>1. FieldInit => FieldHeld
    BY FieldAssumption, HeldIsSomething DEF FieldInit, FieldHeld, FieldTypes
<1>2. FieldHeld /\ [FieldNext]_fieldVars => FieldHeld'
    BY FieldStaysHeld
<1>3. FieldHeld => FieldTypes
    BY DEF FieldHeld
<1> QED
    BY <1>1, <1>2, <1>3, PTL DEF FieldSpec
================================================================================
