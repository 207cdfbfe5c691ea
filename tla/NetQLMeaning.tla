---------------------------- MODULE NetQLMeaning -----------------------------
(***************************************************************************)
(* What a netql query means, read off its tokens along the grammar of      *)
(* docs/algorithms/netql-language.md, and what the two backends make of    *)
(* the translations: the reference that the compiler is held against.      *)
(***************************************************************************)
EXTENDS NetQL

-----------------------------------------------------------------------------
(***************************************************************************)
(* Boolean expressions, the same in netql and in SQL: or binds least, and  *)
(* more, not most. A span <<i, j>> of the words is the words i .. j - 1.   *)
(* An expression selects a set of rows; atoms gives, for each span, what   *)
(* it selects if it is a condition, as a set of such sets, and readings    *)
(* what it selects as a term, a unary, a conjunction or a disjunction:     *)
(* one set for every way to derive it from the rule, none if there is none.*)
(***************************************************************************)
Places(words) == 1 .. Len(words) + 1
Spans(words) == Places(words) \X Places(words)
Between(words, i, j, word) == {k \in i .. j - 1 : words[k] = word}

Meets(A, B) == {p[1] \cap p[2] : p \in A \X B}
Joins(A, B) == {p[1] \cup p[2] : p \in A \X B}

Term(words, atoms, readings, i, j) ==
    atoms[<<i, j>>] \cup (IF i + 1 < j /\ words[i] = "(" /\ words[j - 1] = ")"
                            THEN readings[<<"or", i + 1, j - 1>>] ELSE {})
Unary(words, readings, i, j) ==
    readings[<<"term", i, j>>]
      \cup (IF i < j /\ words[i] = "not" THEN {Rows \ a : a \in readings[<<"term", i + 1, j>>]} ELSE {})
And(words, readings, i, j) ==
    readings[<<"unary", i, j>>]
      \cup UNION {Meets(readings[<<"unary", i, k>>], readings[<<"and", k + 1, j>>]) :
                    k \in Between(words, i, j, "and")}
Or(words, readings, i, j) ==
    readings[<<"and", i, j>>]
      \cup UNION {Joins(readings[<<"and", i, k>>], readings[<<"or", k + 1, j>>]) :
                    k \in Between(words, i, j, "or")}

\* The readings by a rule, of smaller spans and of the rules before it.
ByRule(words, atoms, readings, rule, i, j) ==
    IF rule = "term" THEN Term(words, atoms, readings, i, j)
    ELSE IF rule = "unary" THEN Unary(words, readings, i, j)
    ELSE IF rule = "and" THEN And(words, readings, i, j)
    ELSE Or(words, readings, i, j)

Readings(words, atoms) ==
    LET readings[x \in {"term", "unary", "and", "or"} \X Places(words) \X Places(words)] ==
          ByRule(words, atoms, readings, x[1], x[2], x[3])
    IN readings

-----------------------------------------------------------------------------
(***************************************************************************)
(* The grammar of a query s, token by token. It derives what the EBNF of   *)
(* the documentation does (Documented, below) less what the parser refuses *)
(* of it: a list behind another operator than in, a scalar behind in, a    *)
(* duration of nothing, and a number too large for its type.               *)
(***************************************************************************)
AllOf(s, i, j, set) ==
    \E n \in 1 .. Len(s) : /\ j = i + 2*n - 1
                           /\ \A k \in 1 .. n : s[i + 2*k - 2] \in set
                           /\ \A k \in 1 .. n - 1 : s[i + 2*k - 1] = ","

DerivesPredicate(s, i, j) ==
    /\ i + 3 <= j /\ s[i] \in Idents
    /\ \/ j = i + 3 /\ s[i + 1] \in operatorSuggestions \ {"in"} /\ s[i + 2] \in Strings \cup DOMAIN Numbers
       \/ /\ i + 5 <= j /\ s[i + 1] = "in" /\ s[i + 2] = "(" /\ s[j - 1] = ")"
          /\ AllOf(s, i + 3, j - 1, Strings) \/ AllOf(s, i + 3, j - 1, DOMAIN Numbers)

\* Only whether there are readings counts here.
DerivesExpr(s, i, j) ==
    Readings(s, [x \in Spans(s) |-> IF DerivesPredicate(s, x[1], x[2]) THEN {{}} ELSE {}])[<<"or", i, j>>] # {}

\* The clauses in their order, each with the rule for what follows its first word.
Clauses == <<"by", "where", "over", "step", "order", "limit">>
DerivesClause(word, s, i, j) ==
    CASE word = "by"               -> AllOf(s, i, j, Idents)
      [] word = "where"            -> DerivesExpr(s, i, j)
      [] word \in {"over", "step"} -> /\ j = i + 1
                                      /\ s[i] \in DOMAIN Durations \ AtoiFails /\ Durations[s[i]] > 0
      [] word = "order"            -> \/ j = i + 2 /\ s[i] = "by" /\ s[i + 1] \in Idents
                                      \/ /\ j = i + 3 /\ s[i] = "by" /\ s[i + 1] \in Idents
                                         /\ s[i + 2] \in {"asc", "desc"}
      [] word = "limit"            -> j = i + 1 /\ s[i] \in Ints \ AtoiFails

\* A query is a metric and then the clauses, clause k from place c[k] to c[k + 1]: none of it,
\* or its word and what may follow.
Cuts(s) ==
    LET places == {2, Len(s) + 1} \cup {i \in DOMAIN s : s[i] \in ToSet(Clauses)}
    IN {c \in {<<2, by, where, over, step, order, Len(s) + 1>> :
                 by, where, over, step, order \in places} :
          \A k \in 1 .. 6 : c[k + 1] = c[k] \/ (c[k] < c[k + 1] /\ s[c[k]] = Clauses[k])}
Derivations(s) ==
    IF s = <<>> \/ s[1] \notin Idents THEN {}
    ELSE {c \in Cuts(s) : \A k \in 1 .. 6 :
            c[k] < c[k + 1] => DerivesClause(Clauses[k], s, c[k] + 1, c[k + 1])}

\* The EBNF as the documentation has it.
DocumentedPredicate(s, i, j) ==
    LET numbers == DOMAIN Numbers \cup Overflows IN
    /\ i + 3 <= j /\ s[i] \in Idents /\ s[i + 1] \in operatorSuggestions
    /\ \/ j = i + 3 /\ s[i + 2] \in Strings \cup numbers
       \/ /\ i + 5 <= j /\ s[i + 2] = "(" /\ s[j - 1] = ")"
          /\ AllOf(s, i + 3, j - 1, Strings) \/ AllOf(s, i + 3, j - 1, numbers)
DocumentedExpr(s, i, j) ==
    Readings(s, [x \in Spans(s) |-> IF DocumentedPredicate(s, x[1], x[2]) THEN {{}} ELSE {}])[<<"or", i, j>>] # {}
DocumentedClause(word, s, i, j) ==
    CASE word = "where"            -> DocumentedExpr(s, i, j)
      [] word \in {"over", "step"} -> j = i + 1 /\ s[i] \in DOMAIN Durations
      [] word = "limit"            -> j = i + 1 /\ s[i] \in Ints \cup (Overflows \cap AtoiFails)
      [] OTHER                     -> DerivesClause(word, s, i, j)
Documented(s) ==
    IF s = <<>> \/ s[1] \notin Idents THEN {}
    ELSE {c \in Cuts(s) : \A k \in 1 .. 6 :
            c[k] < c[k + 1] => DocumentedClause(Clauses[k], s, c[k] + 1, c[k + 1])}

\* What the parser has against the k-th token, wherever the EBNF allows it: parseValue and
\* parseDurationToken, and the errors of Atoi and ParseFloat.
Refused(s, k) ==
    LET behind == IF k < Len(s) THEN s[k + 1] ELSE "EOF" IN
    \/ s[k] = "in" /\ behind # "("
    \/ s[k] \in operatorSuggestions \ {"in"} /\ behind = "("
    \/ s[k] \in DOMAIN Durations /\ ~(s[k] \notin AtoiFails /\ Durations[s[k]] > 0)
    \/ s[k] = "limit" /\ behind \in AtoiFails
    \/ s[k] \in Overflows

-----------------------------------------------------------------------------
(***************************************************************************)
(* Meanings.                                                               *)
(***************************************************************************)
Satisfies(op, v, vals) ==
    \/ op = "=" /\ v = vals[1]
    \/ op = "!=" /\ v # vals[1]
    \/ op = "<" /\ v < vals[1]
    \/ op = "<=" /\ v <= vals[1]
    \/ op = ">" /\ v > vals[1]
    \/ op = ">=" /\ v >= vals[1]
    \/ op = "in" /\ v \in ToSet(vals)
    \/ op \in {"contains", "position"} /\ <<v, vals[1]>> \in Substrings
    \/ op \in {"matches", "match"} /\ <<v, vals[1]>> \in Found

\* The values of the literals of the predicate s from i to j - 1, and the rows it selects.
Literals(s, i, j) ==
    IF s[i + 1] = "in" THEN [k \in 1 .. (j - i - 3) \div 2 |-> Literal(s[i + 2*k + 1])]
    ELSE <<Literal(s[i + 2])>>
PredicateRows(s, i, j, spec) ==
    {row \in Rows : Satisfies(s[i + 1], row[spec.filter[s[i]].column], Literals(s, i, j))}
FilterReadings(s, spec) ==
    Readings(s, [x \in Spans(s) |-> IF DerivesPredicate(s, x[1], x[2])
                                      THEN {PredicateRows(s, x[1], x[2], spec)} ELSE {}])

\* The rows a query asks for, whoever's they are, default being its range without over: one
\* set for every reading of its filter.
Asked(s, default) ==
    LET c == CHOOSE c \in Derivations(s) : TRUE
        range == IF c[4] = c[3] THEN default ELSE Durations[s[c[3] + 1]]
        filter == IF c[3] = c[2] THEN {Rows}
                  ELSE FilterReadings(s, Registry[s[1]])[<<"or", c[2] + 1, c[3]>>]
    IN {{row \in selected : row["age"] <= range} : selected \in filter}

\* ClickHouse, whose grammar of AND, OR, NOT and brackets is the same.
ConditionRows(word, args) ==
    {row \in Rows :
       IF word.word = "interval" THEN row["age"] <= word.minutes
       ELSE Satisfies(word.op, row[word.column], [i \in DOMAIN word.refs |-> args[word.refs[i]]])}
SQLWord(w) == IF w = "AND" THEN "and" ELSE IF w = "OR" THEN "or" ELSE IF w = "NOT" THEN "not" ELSE w
SQLReadings(text, args) ==
    LET words == [i \in DOMAIN text |-> SQLWord(text[i].word)]
        atoms == [x \in Spans(text) |->
                    IF x[2] = x[1] + 1 /\ words[x[1]] \in {"condition", "interval"}
                      THEN {ConditionRows(text[x[1]], args)} ELSE {}]
    IN Readings(words, atoms)[<<"or", 1, Len(text) + 1>>]

\* Prometheus: every matcher holds; a pattern has to match all of the label.
PromHolds(m, row) ==
    LET v == row[m.label] IN
    \/ m.op = "=" /\ v = m.value
    \/ m.op = "!=" /\ v # m.value
    \/ m.op = "=~" /\ <<v, m.value>> \in FullMatches
    \/ m.op = "=~.*" /\ <<v, m.value>> \in Substrings

-----------------------------------------------------------------------------
\* The recursive-descent parser, which never goes back, accepts what the EBNF that the
\* documentation calls locked derives of the tokens of the lexer, save for exactly the queries
\* with a token Refused: a list that is not behind in or an in without one, a duration of
\* nothing, and a number that strconv has no room for (parser.go). What it accepts can be
\* read in one way.
AcceptsTheGrammar ==
    answer.status # 0 =>
      LET s == Lex(typed)
          accepted == answer.error \notin {"lex", "parse"}
      IN /\ accepted <=> ~LexError(s) /\ (\A k \in DOMAIN s : ~Refused(s, k)) /\ Documented(s) # {}
         /\ accepted <=> ~LexError(s) /\ Cardinality(Derivations(s)) = 1

\* The SQL selects the caller's rows that the query asks for, and nobody else's, whatever
\* its ands, ors, nots and brackets ("callers cannot bypass it": tenant scoping); each
\* placeholder is bound to the literal in its place, and both the query and the SQL can be
\* read in one way only (writeWhere, writeExpr, writeJoin).
SQLSelectsTheAsked ==
    answer.status = 200 /\ answer.backend = "clickhouse" =>
      \E asked \in Asked(Lex(typed), defaultOver) :
        /\ Asked(Lex(typed), defaultOver) = {asked}
        /\ SQLReadings(answer.out.where, answer.out.args) = {{row \in asked : row["tenant_id"] = "mine"}}

\* PromQL selects the series that the query asks for: a filter that matchers cannot say is
\* refused, never weakened. Patterns aside, which PromQL anchors and ClickHouse does not.
PromSelectsTheAsked ==
    answer.status = 200 /\ answer.backend = "prometheus" /\ (\A i \in DOMAIN typed : Lex(typed)[i] # "matches") =>
      Asked(Lex(typed), defaultPromRange)
        = {{row \in Rows : row["age"] <= answer.out.range /\ \A m \in answer.out.matchers : PromHolds(m, row)}}

\* "A grammar-aware completer narrows the set to what the parser would actually accept
\* next" (autocomplete.go): behind a query that may still be finished every suggestion
\* leaves one that may. The lone word of a metric being typed is replaced.
SuggestionsAreAccepted ==
    LET s == Lex(typed) IN
    answer.status = 0 /\ Viable(s) =>
      \A space \in BOOLEAN : \A word \in Autocomplete(s, space) :
        Viable(Append(IF Len(s) = 1 /\ ~space THEN <<>> ELSE s, word))
=============================================================================
