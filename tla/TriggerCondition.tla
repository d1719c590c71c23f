----------------------------- MODULE TriggerCondition -----------------------------
(***************************************************************************)
(* The condition that decides which records of a sync go out, as the       *)
(* operator types it, and the record a push is about.  A condition is its  *)
(* sequence of tokens; a word that is no path of the record reads as an    *)
(* unset field.  TriggerParser reads it.                                   *)
(***************************************************************************)
EXTENDS Integers, Sequences

Seqs == INSTANCE SequencesExt

CONSTANTS
    Conditions,  \* the conditions stored, as sequences of tokens
    MaxTyping,   \* bound on tokens typed over, inserted and deleted
    MaxLength    \* bound on a condition's tokens

Fields == {"a", "b"}
Operators == {"==", ">"}
Brackets == {"(", ")"}
Tokens == Fields \cup Operators \cup Brackets \cup {"or", "and", "not", "is", "set", "1"}
Words == Tokens \ (Operators \cup Brackets \cup {"1"})

ASSUME TriggerAssumption ==
    /\ \A c \in Conditions : c \in Seq(Tokens) /\ Len(c) <= MaxLength
    /\ MaxTyping \in Nat /\ MaxLength \in Nat

VARIABLES
    condition,  \* the condition of the mapping
    record,     \* the fields of the record a push is about
    typed       \* edits of the condition so far

triggerVars == <<condition, record, typed>>

FieldValues == {"unset", "1", "2"}

TriggerInit ==
    /\ condition \in Conditions
    /\ record \in [Fields -> FieldValues]
    /\ typed = 0

-----------------------------------------------------------------------------
(* Comparing. *)

FieldAt(path) == IF path \in Fields THEN record[path] ELSE "unset"

\* isBlank.
IsSet(path) == FieldAt(path) # "unset"

\* looseEquals, and > of two numbers: a value that is no number is greater than nothing.
Compares(path, op, value) ==
    CASE op = "==" -> FieldAt(path) = value
      [] op = ">" -> FieldAt(path) = "2" /\ value = "1"

-----------------------------------------------------------------------------
(* Typing, and the records that come by. *)

Types(next) ==
    /\ typed < MaxTyping /\ typed' = typed + 1
    /\ Len(next) <= MaxLength
    /\ condition' = next /\ UNCHANGED record

Touch(f, v) == record' = [record EXCEPT ![f] = v] /\ UNCHANGED <<condition, typed>>

TriggerNext ==
    \/ \E p \in DOMAIN condition, t \in Tokens : Types([condition EXCEPT ![p] = t])
    \/ \E p \in 1 .. Len(condition) + 1, t \in Tokens : Types(Seqs!InsertAt(condition, p, t))
    \/ \E p \in DOMAIN condition : Types(Seqs!RemoveAt(condition, p))
    \/ \E f \in Fields, v \in FieldValues : Touch(f, v)

TriggerSpec == TriggerInit /\ [][TriggerNext]_triggerVars

-----------------------------------------------------------------------------
TriggerTypes ==
    /\ condition \in Seq(Tokens) /\ Len(condition) <= MaxLength
    /\ record \in [Fields -> FieldValues] /\ typed \in 0 .. MaxTyping
=============================================================================
