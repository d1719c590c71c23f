------------------------------- MODULE FieldMapping -------------------------------
(***************************************************************************)
(* One field pair of a mapping: a field of the store, a field of ERPNext,  *)
(* the conversions the connector suggests for their two types, and the     *)
(* values they hand each other as both sides edit them.                    *)
(*                                                                         *)
(* A value is abstracted to what it is and to what a text reads as; a      *)
(* number is counted in tenths, an instant and a wall-clock time in units  *)
(* of a second's half, so that the part a Frappe datetime drops is seen.   *)
(***************************************************************************)
EXTENDS Integers, FiniteSets

CONSTANTS
    Zones,         \* the site's time zone: its offset before and after its change
    Instants,      \* the instants the store's dates are edited to
    WallTimes,     \* the wall-clock times a desk user types (even)
    DayLength,     \* units in a day (even)
    MaxFieldEdits  \* bound on edits

\* Wall-clock times, days and the offsets of zones and their changes are whole seconds.
ASSUME FieldAssumption ==
    /\ DayLength \in Nat \ {0} /\ DayLength % 2 = 0 /\ MaxFieldEdits \in Nat
    /\ Instants \subseteq Int /\ WallTimes \subseteq Int
    /\ \A w \in WallTimes : w % 2 = 0
    /\ Zones \subseteq [at : Int, before : Int, after : Int]
    /\ \A z \in Zones : z.at % 2 = 0 /\ z.before % 2 = 0 /\ z.after % 2 = 0

VARIABLES
    pair,      \* the row of the mapping: its types, its conversions and its options
    zone,      \* the ERPNext site's zone
    inStore,   \* the store's field, and the one a template joins to it
    inErp,     \* ERPNext's field
    moved,     \* the directions it went, or never goes, since the last edit
    fieldEdits \* edits so far

fieldVars == <<pair, zone, inStore, inErp, moved, fieldEdits>>

-----------------------------------------------------------------------------
(* Values. *)

V(is, reads, n) == [is |-> is, reads |-> reads, n |-> n]
Empty == V("empty", "", 0)
Unconvertible == V("failure", "", 0)
Text(reads, n) == V("text", reads, n)     \* "number" as written out, "padded" otherwise
Number(n) == V("number", "", n)
Bool(n) == V("boolean", "", n)
Instant(n) == V("instant", "", n)
List(n) == V("list", "words", n)

\* asNumber, asBoolean: a text reads as a number if it is one, as a yes or no if it is
\* one of the words or 1 or 0.
IsNumeric(v) == v.is \in {"number", "boolean"} \/ (v.is = "text" /\ v.reads \in {"number", "padded"})
NumberIn(v) == IF v.is = "boolean" THEN 10 * v.n ELSE v.n
IsYesNo(v) ==
    \/ v.is \in {"number", "boolean"}
    \/ v.is = "text" /\ v.reads \in {"true/false", "yes/no"}
    \/ v.is = "text" /\ v.reads = "number" /\ v.n \in {0, 10}
YesIn(v) == IF v.n # 0 THEN 1 ELSE 0

-----------------------------------------------------------------------------
(* Wall-clock times. *)

Offset(i) == IF i < zone.at THEN zone.before ELSE zone.after

\* formatInZone: seconds, no fraction.
WallOf(i) == (i + Offset(i)) - ((i + Offset(i)) % 2)

\* Fault: one pass only.
ZonedInOnePass(w) == w - Offset(w)

\* zonedToUtc: the offset at a first guess, then the offset at the instant that gives.
ZonedToUtc(w) == w - Offset(w - Offset(w))

\* parseDateValue.
IsDate(v) == v.is = "instant" \/ (v.is = "text" /\ v.reads \in {"wall", "day"})
InstantIn(v) == IF v.is = "instant" THEN v.n ELSE ZonedToUtc(v.n)
DayStart(w) == (w \div DayLength) * DayLength

-----------------------------------------------------------------------------
(* Conversions. *)

\* coerce: the value in its new form, or none when it cannot be had.
Coerced(v, code) ==
    CASE code = "text" ->
           CASE v.is = "number" -> Text("number", v.n)
             [] v.is = "boolean" -> Text("true/false", v.n)
             [] v.is \in {"text", "instant"} -> v
             [] OTHER -> Unconvertible
      [] code = "number" -> IF IsNumeric(v) THEN Number(NumberIn(v)) ELSE Unconvertible
      [] code = "integer" ->
           IF IsNumeric(v) THEN Number(10 * (NumberIn(v) \div 10)) ELSE Unconvertible
      [] code = "check" -> IF IsYesNo(v) THEN Number(10 * YesIn(v)) ELSE Unconvertible
      [] code = "boolean" -> IF IsYesNo(v) THEN Bool(YesIn(v)) ELSE Unconvertible
      [] code = "json" -> Text("json", v.n)
      [] code = "parse_json" ->
           CASE v.is # "text" -> v
             [] v.reads = "json" -> List(v.n)
             [] OTHER -> Unconvertible
      [] code = "join" -> IF v.is = "list" THEN [v EXCEPT !.is = "text"] ELSE v
      [] code = "split" -> IF v.is = "text" THEN [v EXCEPT !.is = "list"] ELSE v
      [] code = "date_iso" -> IF IsDate(v) THEN Instant(InstantIn(v)) ELSE Unconvertible
      [] code = "date" ->
           IF IsDate(v) THEN Text("day", DayStart(WallOf(InstantIn(v)))) ELSE Unconvertible
      [] code = "datetime" -> IF IsDate(v) THEN Text("wall", WallOf(InstantIn(v))) ELSE Unconvertible
      [] OTHER -> v

AsIs == [kind |-> "none", code |-> ""]
Safe(code) == [kind |-> "safe", code |-> code]
Review(code) == [kind |-> "review", code |-> code]
Unmappable == [kind |-> "unmappable", code |-> ""]

\* pushVerdict, of a Medusa type into a Frappe one.
PushVerdict(m, f) ==
    CASE m = "string" ->
           CASE f \in {"text", "time"} -> AsIs
             [] f = "float" -> Safe("number")
             [] f = "int" -> Review("integer")
             [] f = "json" -> Review("json")
             [] OTHER -> Review(f)
      [] m = "number" ->
           CASE f = "float" -> AsIs
             [] f = "int" -> Review("integer")
             [] f = "text" -> Safe("text")
             [] f = "check" -> Review("check")
             [] OTHER -> Unmappable
      [] m = "boolean" ->
           CASE f \in {"check", "text"} -> Safe(f)
             [] f \in {"int", "float"} -> Review("check")
             [] OTHER -> Unmappable
      [] m = "datetime" ->
           CASE f \in {"datetime", "date"} -> Safe(f)
             [] f = "text" -> Safe("date_iso")
             [] OTHER -> Unmappable
      [] m = "array" ->
           CASE f = "json" -> Safe("json") [] f = "text" -> Review("join") [] OTHER -> Unmappable
      [] m = "json" -> IF f \in {"json", "text"} THEN Safe("json") ELSE Unmappable

\* pullVerdict, of a Frappe type into a Medusa one.
PullVerdict(m, f) ==
    CASE m = "string" -> IF f \in {"float", "int", "check"} THEN Safe("text") ELSE AsIs
      [] m = "number" ->
           CASE f \in {"float", "int", "check"} -> AsIs
             [] f = "text" -> Safe("number")
             [] OTHER -> Unmappable
      [] m = "boolean" ->
           CASE f = "check" -> Safe("boolean")
             [] f \in {"int", "float", "text"} -> Review("boolean")
             [] OTHER -> Unmappable
      [] m = "datetime" ->
           CASE f \in {"datetime", "date"} -> Safe("date_iso")
             [] f = "text" -> Review("date_iso")
             [] OTHER -> Unmappable
      [] m = "array" ->
           CASE f = "json" -> Safe("parse_json") [] f = "text" -> Review("split") [] OTHER -> Unmappable
      [] m = "json" ->
           CASE f = "json" -> Safe("parse_json") [] f = "text" -> Review("parse_json") [] OTHER -> Unmappable

-----------------------------------------------------------------------------
(* The pair. *)

MedusaTypes == {"string", "number", "boolean", "datetime", "array", "json"}
FrappeTypes == {"text", "float", "int", "check", "date", "datetime", "time", "json"}

TextsEdited == {Empty, Text("words", 1), Text("number", 10), Text("padded", 15),
                Text("true/false", 1), Text("yes/no", 0)}

\* Left out: a wall-clock time, or a midnight, that the zone's change skips.
Skipped(w) == zone.at + zone.before <= w /\ w < zone.at + zone.after
WallsEdited == {Empty} \cup {Text("wall", w) : w \in {x \in WallTimes : ~Skipped(x)}}
DaysEdited == {Empty} \cup {Text("day", d) : d \in {DayStart(w) : w \in WallTimes} \ {x \in WallTimes : Skipped(x)}}

\* What a person enters in a field of each type.
StoreEdits(m) ==
    CASE m = "string" -> IF pair.frappe \in {"date", "datetime"} THEN WallsEdited ELSE TextsEdited
      [] m = "number" -> {Empty, Number(0), Number(15), Number(20)}
      [] m = "boolean" -> {Bool(0), Bool(1)}
      [] m = "datetime" -> {Empty} \cup {Instant(i) : i \in Instants}
      [] OTHER -> {Empty, List(1), List(2)}
DeskEdits(f) ==
    CASE f = "text" ->
           CASE pair.medusa = "datetime" -> WallsEdited
             [] pair.medusa \in {"array", "json"} -> {Empty, Text("words", 1), Text("json", 1)}
             [] OTHER -> TextsEdited
      [] f = "float" -> {Number(0), Number(15), Number(20)}
      [] f = "int" -> {Number(0), Number(20)}
      [] f = "check" -> {Number(0), Number(10)}
      [] f = "date" -> DaysEdited
      [] f = "datetime" -> WallsEdited
      [] f = "time" -> {Empty, Text("words", 1)}
      [] OTHER -> {Empty, Text("json", 1)}

\* A pair the table calls unmappable is not made; one it would have reviewed is, with
\* its suggestion.  Left out: text in a JSON field, quoted once more at each push.
Mappable(m, f) ==
    /\ PushVerdict(m, f).kind # "unmappable" /\ PullVerdict(m, f).kind # "unmappable"
    /\ <<m, f>> # <<"string", "json">>

\* What the row may say beside its types: the directions it goes, a default or a fixed
\* value in either, or a template of two fields of the store.
Plain(m, f) == [medusa |-> m, frappe |-> f, way |-> "both", template |-> FALSE,
                fixed |-> [push |-> Empty, pull |-> Empty], default |-> [push |-> Empty, pull |-> Empty]]
AText(n) == Text("words", n)
TextPair == Plain("string", "text")
Optioned ==
    {[TextPair EXCEPT !.way = w] : w \in {"push", "pull", "none"}}
    \cup {[TextPair EXCEPT !.template = TRUE]}
    \cup {[TextPair EXCEPT !.fixed[d] = AText(3)] : d \in {"push", "pull"}}
    \cup {[TextPair EXCEPT !.default.push = p, !.default.pull = q] :
              p \in {Empty, AText(3)}, q \in {Empty, AText(4)}}

FieldInit ==
    /\ pair \in {Plain(m, f) : m \in MedusaTypes, f \in FrappeTypes} \cup Optioned
    /\ Mappable(pair.medusa, pair.frappe)
    /\ zone \in Zones
    /\ inStore = [first |-> Empty, last |-> Empty] /\ inErp = Empty
    /\ moved = {} /\ fieldEdits = 0

\* fieldFlowsInDirection; a row fixed in the other direction names no source in this
\* one, and a template has no inverse.
Other(d) == IF d = "push" THEN "pull" ELSE "push"
FlowsIn(d) ==
    /\ pair.way \in {"both", d}
    /\ pair.fixed[Other(d)] = Empty
    /\ pair.template => d = "push"

\* Fault: a template goes both ways.
FlowsBack(d) == pair.way \in {"both", d} /\ pair.fixed[Other(d)] = Empty

\* renderTemplate: the parts there are, joined; nothing when there is none.
Rendered ==
    CASE inStore.first = Empty -> inStore.last
      [] inStore.last = Empty -> inStore.first
      [] OTHER -> AText(10 * inStore.first.n + inStore.last.n)

\* The value applyMapping writes in direction d: the fixed one, the source's or its
\* default; an empty or an unconvertible one is skipped, and the target left alone.
Source(d) ==
    CASE d = "pull" -> inErp
      [] d = "push" /\ pair.template -> Rendered
      [] OTHER -> inStore.first
Written(d) ==
    LET code == IF d = "push" THEN PushVerdict(pair.medusa, pair.frappe).code
                              ELSE PullVerdict(pair.medusa, pair.frappe).code
        value == IF pair.fixed[d] # Empty THEN pair.fixed[d]
                 ELSE IF Source(d) = Empty THEN pair.default[d] ELSE Source(d)
    IN IF value = Empty THEN Unconvertible ELSE Coerced(value, code)

Carries(d) == FlowsIn(d) /\ Written(d) # Unconvertible
Move(d) ==
    /\ IF Carries(d) /\ d = "push" THEN inErp' = Written(d) ELSE UNCHANGED inErp
    /\ IF Carries(d) /\ d = "pull" THEN inStore' = [inStore EXCEPT !.first = Written(d)]
                               ELSE UNCHANGED inStore
    /\ moved' = IF Carries(d) \/ ~FlowsIn(d) THEN moved \cup {d} ELSE moved
    /\ UNCHANGED <<pair, zone, fieldEdits>>

\* Somebody edits either side.
EditStore(v) ==
    /\ fieldEdits < MaxFieldEdits
    /\ inStore' = [inStore EXCEPT !.first = v] \/ (pair.template /\ inStore' = [inStore EXCEPT !.last = v])
    /\ moved' = {} /\ fieldEdits' = fieldEdits + 1 /\ UNCHANGED <<pair, zone, inErp>>
EditDesk(v) ==
    /\ fieldEdits < MaxFieldEdits
    /\ inErp' = v
    /\ moved' = {} /\ fieldEdits' = fieldEdits + 1 /\ UNCHANGED <<pair, zone, inStore>>

FieldNext ==
    \/ \E d \in {"push", "pull"} : Move(d)
    \/ \E v \in StoreEdits(pair.medusa) : EditStore(v)
    \/ \E v \in DeskEdits(pair.frappe) : EditDesk(v)

FieldSpec == FieldInit /\ [][FieldNext]_fieldVars

-----------------------------------------------------------------------------
FieldTypes ==
    /\ Mappable(pair.medusa, pair.frappe) /\ zone \in Zones
    /\ inStore.first # Unconvertible /\ inStore.last # Unconvertible /\ inErp # Unconvertible
    /\ moved \subseteq {"push", "pull"} /\ fieldEdits \in 0 .. MaxFieldEdits

\* Once a pair has gone both ways since anyone edited it, it has settled: going either
\* way again changes neither side, whatever the types, the conversions suggested for
\* them, the site's zone and the pair's options.
CopiesSettle ==
    [][moved = {"push", "pull"} /\ fieldEdits' = fieldEdits => UNCHANGED <<inStore, inErp>>]_fieldVars
=============================================================================
