------------------------------ MODULE TriggerParser ------------------------------
(***************************************************************************)
(* How a condition is read: the recursive-descent parser, next to the      *)
(* grammar it is documented by.                                            *)
(***************************************************************************)
EXTENDS TriggerCondition

(* The parser: what it makes of the tokens from a position on, and where it stops. *)

Parsed(is, at) == [ok |-> TRUE, is |-> is, at |-> at]
Malformed == [ok |-> FALSE, is |-> FALSE, at |-> 0]
TokenAt(p) == IF p \in DOMAIN condition THEN condition[p] ELSE "end"

\* parseComparison, the longest phrase first; a value is whatever token comes next.
ParseComparison(p) ==
    CASE TokenAt(p) \notin Words -> Malformed
      [] TokenAt(p + 1) = "is" /\ TokenAt(p + 2) = "not" /\ TokenAt(p + 3) = "set"
           -> Parsed(~IsSet(TokenAt(p)), p + 4)
      [] TokenAt(p + 1) = "is" /\ TokenAt(p + 2) = "set" -> Parsed(IsSet(TokenAt(p)), p + 3)
      [] TokenAt(p + 1) \in Operators /\ TokenAt(p + 2) # "end"
           -> Parsed(Compares(TokenAt(p), TokenAt(p + 1), TokenAt(p + 2)), p + 3)
      [] OTHER -> Malformed

RECURSIVE ParseOr(_), ParseAnd(_), ParseClause(_), MoreOr(_), MoreAnd(_), MoreEither(_)

\* Fault: or takes a clause where it should take all that "and" joins.
MoreEither(so) ==
    IF ~so.ok \/ TokenAt(so.at) \notin {"or", "and"} THEN so
    ELSE LET next == ParseClause(so.at + 1)
         IN IF next.ok THEN MoreEither(Parsed(IF TokenAt(so.at) = "or" THEN so.is \/ next.is
                                              ELSE so.is /\ next.is, next.at))
            ELSE Malformed
ParseLeftToRight(p) == MoreEither(ParseClause(p))

ParseClause(p) ==
    CASE TokenAt(p) = "(" ->
           LET inner == ParseOr(p + 1)
           IN IF inner.ok /\ TokenAt(inner.at) = ")" THEN Parsed(inner.is, inner.at + 1)
                                                      ELSE Malformed
      [] TokenAt(p) = "not" ->
           LET operand == ParseClause(p + 1)
           IN IF operand.ok THEN Parsed(~operand.is, operand.at) ELSE Malformed
      [] OTHER -> ParseComparison(p)

\* The while loops of parseAnd and parseOr, which join what was read so far to the next.
MoreAnd(so) ==
    IF ~so.ok \/ TokenAt(so.at) # "and" THEN so
    ELSE LET next == ParseClause(so.at + 1)
         IN IF next.ok THEN MoreAnd(Parsed(so.is /\ next.is, next.at)) ELSE Malformed
ParseAnd(p) == MoreAnd(ParseClause(p))

MoreOr(so) ==
    IF ~so.ok \/ TokenAt(so.at) # "or" THEN so
    ELSE LET next == ParseAnd(so.at + 1)
         IN IF next.ok THEN MoreOr(Parsed(so.is \/ next.is, next.at)) ELSE Malformed
ParseOr(p) == MoreOr(ParseAnd(p))

\* parse, all of it or nothing; an empty condition matches every record, a malformed
\* one none.
Evaluated ==
    LET whole == ParseOr(1)
    IN IF condition = <<>> THEN Parsed(TRUE, 1)
       ELSE IF whole.ok /\ whole.at > Len(condition) THEN whole ELSE Malformed

-----------------------------------------------------------------------------
(* The grammar: the truth values tokens i to j may have as a phrase of each kind. *)

RECURSIVE Says(_, _, _)
Joined(word, first, second, i, j) ==
    UNION {{<<x, y>> : x \in Says(first, i, k - 1), y \in Says(second, k + 1, j)} :
             k \in {n \in i + 1 .. j - 1 : condition[n] = word}}
Comparison(i, j) ==
    CASE condition[i] \notin Words \ {"not"} -> {}
      [] SubSeq(condition, i + 1, j) = <<"is", "set">> -> {IsSet(condition[i])}
      [] SubSeq(condition, i + 1, j) = <<"is", "not", "set">> -> {~IsSet(condition[i])}
      [] j = i + 2 /\ condition[i + 1] \in Operators
           -> {Compares(condition[i], condition[i + 1], condition[j])}
      [] OTHER -> {}
Says(kind, i, j) ==
    CASE i > j -> {}
      [] kind = "orExpr" ->
           Says("andExpr", i, j) \cup {xy[1] \/ xy[2] : xy \in Joined("or", "orExpr", "andExpr", i, j)}
      [] kind = "andExpr" ->
           Says("clause", i, j) \cup {xy[1] /\ xy[2] : xy \in Joined("and", "andExpr", "clause", i, j)}
      [] condition[i] = "(" -> IF condition[j] = ")" THEN Says("orExpr", i + 1, j - 1) ELSE {}
      [] condition[i] = "not" -> {~x : x \in Says("clause", i + 1, j)}
      [] OTHER -> Comparison(i, j)

-----------------------------------------------------------------------------
\* Left out: an operator or a bracket where a value should be, which the parser takes
\* for the value.
ValuesArePlain ==
    \A p \in DOMAIN condition :
        condition[p] \in Operators => TokenAt(p + 1) \notin Operators \cup Brackets

\* The parser reads a condition as its grammar does: one that the grammar derives
\* matches a record just when it says so, "and" binding tighter than "or"; any other
\* matches none.
ReadsAsWritten ==
    condition # <<>> /\ ValuesArePlain =>
        LET meant == Says("orExpr", 1, Len(condition))
        IN IF meant = {} THEN ~Evaluated.ok /\ ~Evaluated.is
           ELSE Evaluated.ok /\ meant = {Evaluated.is}
=============================================================================
