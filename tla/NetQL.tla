-------------------------------- MODULE NetQL --------------------------------
(***************************************************************************)
(* The query language (pkg/netql) and the handler that compiles a query    *)
(* (pkg/api/netql.go): the parser, the type checker, the ClickHouse and    *)
(* the Prometheus translators and the autocompleter. A word is a string;   *)
(* its characters matter only to the lexer, which is modelled by what it   *)
(* makes of the word. A query is typed phrase by phrase and submitted.     *)
(***************************************************************************)
EXTENDS Integers, FiniteSets, SequencesExt

CONSTANTS
    Registry,       \* metric -> its MetricSpec: backend, groupBy, filter
    Lower,          \* the words with capitals -> their lower-case form
    Strings,        \* the string literals
    Numbers,        \* the number literals -> their value
    Ints,           \* those of them without a dot
    Overflows,      \* the number literals that are too large for a float64
    Durations,      \* the duration literals -> their length in minutes
    AtoiFails,      \* the literals without a dot, durations too, with too many digits for an int
    OtherNames,     \* the names that are of no metric and no field
    Substrings,     \* the pairs of strings of which the first contains the second
    Found,          \* the pairs of a string and a pattern found in it
    FullMatches,    \* those of them where the pattern matches all of the string
    Phrases,        \* what is typed at a time: sequences of words
    MaxPhrases,     \* bound: phrases of a query
    Rows            \* results and series: [tenant, age, field -> value]

ASSUME NetQLAssumption ==
    /\ Ints \subseteq DOMAIN Numbers
    /\ Phrases \subseteq Seq(STRING) /\ \A w \in DOMAIN Lower : Lower[w] \in STRING
    /\ MaxPhrases \in Nat

\* DefaultRegistry: a metric has one of two backends; the labels of a Prometheus metric are
\* strings, under one name each.
ASSUME RegistryAssumption ==
    \A m \in DOMAIN Registry :
      /\ Registry[m].backend \in {"clickhouse", "prometheus"}
      /\ Registry[m].backend = "prometheus" =>
           \A f \in DOMAIN Registry[m].filter :
             /\ Registry[m].filter[f].kind = "string"
             /\ f \in DOMAIN Registry[m].groupBy => Registry[m].groupBy[f] = Registry[m].filter[f].column

VARIABLES
    typed,          \* the phrases typed so far, run together
    phrases,        \* how many they are
    answer          \* the response, once the query is submitted

vars == <<typed, phrases, answer>>

-----------------------------------------------------------------------------
(***************************************************************************)
(* lexer.go. A word that is nothing below is a lexical error, such as a    *)
(* string that is not closed or a lone exclamation mark.                   *)
(***************************************************************************)
keywords == {"by", "where", "and", "or", "not", "in", "contains", "matches",
             "over", "step", "order", "asc", "desc", "limit"}
Comparisons == {"=", "!=", "<", "<=", ">", ">="}
Punctuation == Comparisons \cup {"(", ")", ","}
Fields == UNION {DOMAIN Registry[m].groupBy \cup DOMAIN Registry[m].filter : m \in DOMAIN Registry}
Idents == DOMAIN Registry \cup Fields \cup OtherNames

\* The first characters of a word tell its class.
ASSUME TokensAssumption ==
    LET classes == <<keywords, Punctuation, Idents, Strings, DOMAIN Numbers, DOMAIN Durations, Overflows>>
    IN \A i, j \in DOMAIN classes : i # j => classes[i] \cap classes[j] = {}

\* Words are strings, metrics and fields too: they are the keys of the maps of DefaultRegistry.
ASSUME WordsAssumption == keywords \cup Punctuation \cup Idents \subseteq STRING

lexIdentOrKeyword(w) == IF w \in DOMAIN Lower THEN Lower[w] ELSE w

\* The kind of a token. A number that ParseFloat has an error for is refused where it
\* stands, wherever the parser meets it; it has a kind that nothing expects.
next(tok) ==
    IF tok \in keywords              THEN "keyword"
    ELSE IF tok \in Punctuation      THEN tok
    ELSE IF tok \in Idents           THEN "ident"
    ELSE IF tok \in Strings          THEN "string"
    ELSE IF tok \in Ints             THEN "int"
    ELSE IF tok \in DOMAIN Numbers   THEN "number"
    ELSE IF tok \in DOMAIN Durations THEN "duration"
    ELSE IF tok \in Overflows        THEN "overflow"
    ELSE "error"

Lex(words) == [i \in DOMAIN words |-> lexIdentOrKeyword(words[i])]
LexError(toks) == \E i \in DOMAIN toks : next(toks[i]) = "error"

-----------------------------------------------------------------------------
(***************************************************************************)
(* parser.go. A parse of toks from position p is [ok, pos, ast], pos being *)
(* where it stopped: behind what it read, or at the token it refused. An   *)
(* expression is the sequence of the nodes of its tree, each behind its    *)
(* terms.                                                                  *)
(***************************************************************************)
peek(toks, p) == IF p <= Len(toks) THEN toks[p] ELSE "EOF"
kind(toks, p) == IF p <= Len(toks) THEN next(toks[p]) ELSE "EOF"
ParseError(p) == [ok |-> FALSE, pos |-> p, ast |-> <<>>]
Parsed(p, ast) == [ok |-> TRUE, pos |-> p, ast |-> ast]

expect(toks, p, kinds) ==
    IF kind(toks, p) \in kinds THEN Parsed(p + 1, peek(toks, p)) ELSE ParseError(p)

\* Parse r, and then what follows(r) parses from its end.
Then(r, follows(_)) == IF r.ok THEN follows(r) ELSE r

\* Tokens of some kinds with commas between them: the loop ends at the first that is of
\* another kind or has no comma behind it.
Items(kinds, toks, p) ==
    LET n == Min({k \in 1 .. Len(toks) + 1 :
                    kind(toks, p + 2*k - 2) \notin kinds \/ peek(toks, p + 2*k - 1) # ","})
        last == p + 2*n - 2
    IN IF kind(toks, last) \in kinds THEN Parsed(last + 1, [k \in 1 .. n |-> toks[p + 2*k - 2]])
       ELSE ParseError(last)

Ident(toks, p) == expect(toks, p, {"ident"})

\* ParseFloat, of a number it has no error for; a string stands for itself.
Literal(tok) == IF tok \in Strings THEN tok ELSE Numbers[tok]
Value(valueKind, toks) == [kind |-> valueKind, items |-> [i \in DOMAIN toks |-> Literal(toks[i])]]
Predicate(field, op, val) == [node |-> "predicate", field |-> field, op |-> op, value |-> val]
Node(node, terms) == [node |-> node, terms |-> terms]

parseList(kinds, valueKind, toks, p) ==
    Then(Items(kinds, toks, p), LAMBDA r :
      Then(expect(toks, r.pos, {")"}), LAMBDA close : Parsed(close.pos, Value(valueKind, r.ast))))

parseValueList(toks, p) ==
    Then(expect(toks, p, {"("}), LAMBDA open :
      IF kind(toks, open.pos) = "string" THEN parseList({"string"}, "strings", toks, open.pos)
      ELSE parseList({"int", "number"}, "numbers", toks, open.pos))

parseValue(op, toks, p) ==
    IF op = "in" THEN parseValueList(toks, p)
    ELSE Then(expect(toks, p, {"string", "int", "number"}), LAMBDA v :
           Parsed(v.pos, Value(IF v.ast \in Strings THEN "string" ELSE "number", <<v.ast>>)))

parseOp(toks, p) ==
    IF peek(toks, p) \in Comparisons \cup {"in", "contains", "matches"}
      THEN Parsed(p + 1, toks[p]) ELSE ParseError(p)

parsePredicate(toks, p) ==
    Then(Ident(toks, p), LAMBDA id :
      Then(parseOp(toks, id.pos), LAMBDA op :
        Then(parseValue(op.ast, toks, op.pos), LAMBDA val :
          Parsed(val.pos, <<Predicate(id.ast, op.ast, val.ast)>>))))

\* A term, and what the loops of parseAndExpr and parseExpr read behind word, as one parse
\* that counts its terms.
Terms(first, word, toks, rest(_)) ==
    IF ~first.ok \/ peek(toks, first.pos) # word
      THEN [ok |-> first.ok, pos |-> first.pos, ast |-> first.ast, terms |-> 1]
      ELSE LET r == rest(first.pos + 1)
           IN [ok |-> r.ok, pos |-> r.pos, ast |-> first.ast \o r.ast, terms |-> r.terms + 1]

\* One term alone is itself, several are joined by a node.
Joined(node, r) ==
    IF ~r.ok THEN ParseError(r.pos)
    ELSE Parsed(r.pos, IF r.terms = 1 THEN r.ast ELSE Append(r.ast, Node(node, r.terms)))

parseTerm(exprs, toks, p) ==
    IF peek(toks, p) # "(" THEN parsePredicate(toks, p)
    ELSE Then(Joined("or", exprs[p + 1].ors), LAMBDA inner :
           Then(expect(toks, inner.pos, {")"}), LAMBDA close : Parsed(close.pos, inner.ast)))

parseUnary(exprs, toks, p) ==
    IF peek(toks, p) # "not" THEN parseTerm(exprs, toks, p)
    ELSE Then(parseTerm(exprs, toks, p + 1), LAMBDA r :
           Parsed(r.pos, Append(r.ast, Node("not", 1))))

\* What can be parsed from a position on: unaries with and between them, and such
\* conjunctions with or between them.
parseAndExpr(exprs, toks, p) ==
    Terms(parseUnary(exprs, toks, p), "and", toks, LAMBDA q : exprs[q].ands)
parseOrExpr(exprs, toks, p) ==
    Terms(Joined("and", parseAndExpr(exprs, toks, p)), "or", toks, LAMBDA q : exprs[q].ors)

Exprs(toks) ==
    LET exprs[p \in 1 .. Len(toks) + 1] ==
          [ands |-> parseAndExpr(exprs, toks, p), ors |-> parseOrExpr(exprs, toks, p)]
    IN exprs

parseExpr(toks, p) == Joined("or", Exprs(toks)[p].ors)

parseGroupBy(toks, p) == Items({"ident"}, toks, p)

parseDurationToken(toks, p) ==
    Then(expect(toks, p, {"duration"}), LAMBDA d :
      IF d.ast \notin AtoiFails /\ Durations[d.ast] > 0 THEN Parsed(d.pos, Durations[d.ast])
      ELSE ParseError(p))

parseOrderBy(toks, p) ==
    IF peek(toks, p) # "by" THEN ParseError(p)
    ELSE Then(Ident(toks, p + 1), LAMBDA id :
           IF peek(toks, id.pos) \in {"asc", "desc"}
             THEN Parsed(id.pos + 1, [field |-> id.ast, direction |-> toks[id.pos]])
             ELSE Parsed(id.pos, [field |-> id.ast, direction |-> "asc"]))

parseLimit(toks, p) ==
    Then(expect(toks, p, {"int"}), LAMBDA n :
      IF n.ast \notin AtoiFails THEN Parsed(n.pos, Numbers[n.ast]) ELSE ParseError(p))

\* A clause that may be missing: <<>> then, and else <<what it says>>.
Given(r) == IF r.ok THEN Parsed(r.pos, <<r.ast>>) ELSE r
Clause(toks, p, word, parse(_, _)) ==
    IF peek(toks, p) # word THEN Parsed(p, <<>>) ELSE Given(parse(toks, p + 1))

parseQuery(toks) ==
    Then(Ident(toks, 1), LAMBDA metric :
    Then(Clause(toks, metric.pos, "by", parseGroupBy), LAMBDA groupBy :
    Then(Clause(toks, groupBy.pos, "where", parseExpr), LAMBDA filter :
    Then(Clause(toks, filter.pos, "over", parseDurationToken), LAMBDA over :
    Then(Clause(toks, over.pos, "step", parseDurationToken), LAMBDA step :
    Then(Clause(toks, step.pos, "order", parseOrderBy), LAMBDA orderBy :
    Then(Clause(toks, orderBy.pos, "limit", parseLimit), LAMBDA limit :
      Parsed(limit.pos,
        [metric |-> metric.ast, groupBy |-> IF groupBy.ast = <<>> THEN <<>> ELSE groupBy.ast[1], filter |-> filter.ast,
         over |-> over.ast, step |-> step.ast, orderBy |-> orderBy.ast, limit |-> limit.ast]))))))))

\* A plausible mistake: what is behind the last clause is not looked at.
Parse_Trailing(toks) == parseQuery(toks)

Parse(toks) ==
    Then(parseQuery(toks), LAMBDA q : IF q.pos <= Len(toks) THEN ParseError(q.pos) ELSE q)

\* More tokens could still make a query of these: the parser refused none of them.
Viable(toks) == ~LexError(toks) /\ Parse(toks).pos > Len(toks)

-----------------------------------------------------------------------------
(***************************************************************************)
(* check.go.                                                               *)
(***************************************************************************)
opCompatible(op, fieldKind, valueKind) ==
    IF fieldKind = "string"
      THEN \/ op \in {"=", "!=", "contains", "matches"} /\ valueKind = "string"
           \/ op = "in" /\ valueKind = "strings"
      ELSE \/ op \in Comparisons /\ valueKind = "number"
           \/ op = "in" /\ valueKind = "numbers"

checkPredicate(p, spec) ==
    p.field \in DOMAIN spec.filter /\ opCompatible(p.op, spec.filter[p.field].kind, p.value.kind)

\* Of the tree, only the predicates matter.
Predicates(nodes) == {nodes[i] : i \in {j \in DOMAIN nodes : nodes[j].node = "predicate"}}
checkExpr(nodes, spec) == \A p \in Predicates(nodes) : checkPredicate(p, spec)

Check(q) ==
    /\ q.metric \in DOMAIN Registry
    /\ ToSet(q.groupBy) \subseteq DOMAIN Registry[q.metric].groupBy
    /\ \A e \in ToSet(q.filter) : checkExpr(e, Registry[q.metric])
    /\ \A ob \in ToSet(q.orderBy) : ob.field \in {q.metric} \cup ToSet(q.groupBy)
    /\ \A n \in ToSet(q.limit) : n > 0

-----------------------------------------------------------------------------
(***************************************************************************)
(* translate_ch.go. The text of a WHERE clause is a sequence of words, one *)
(* of them for a whole condition, whose placeholders are positions in the  *)
(* arguments; a fragment is [text, args] with all arguments bound so far.  *)
(***************************************************************************)
defaultLimit == 10000
defaultOver == 60                       \* defaultOverHours, in minutes
Word(w) == <<[word |-> w]>>
Condition(col, op, refs) == <<[word |-> "condition", column |-> col, op |-> op, refs |-> refs]>>

\* What has been written is [texts, args]: the texts of the terms that no node has taken up
\* yet, and all arguments bound so far.

\* bindScalar, bindList, and the functions of contains and matches.
writePredicate(p, spec, out) ==
    LET fn == IF p.op = "contains" THEN "position" ELSE IF p.op = "matches" THEN "match" ELSE p.op
        refs == [i \in DOMAIN p.value.items |-> Len(out.args) + i]
    IN [texts |-> Append(out.texts, Condition(spec.filter[p.field].column, fn, refs)),
        args |-> out.args \o p.value.items]

\* A plausible mistake: the terms are joined, but not bracketed.
writeJoin_Bare(sep, texts) ==
    FlattenSeq([i \in DOMAIN texts |-> (IF i > 1 THEN Word(sep) ELSE <<>>) \o texts[i]])

writeJoin(sep, texts) ==
    Word("(") \o FlattenSeq([i \in DOMAIN texts |-> (IF i > 1 THEN Word(sep) ELSE <<>>) \o texts[i]])
              \o Word(")")

\* A node takes up the last texts, as many as it has terms.
writeNode(e, spec, out) ==
    LET rest  == Len(out.texts) - e.terms
        terms == SubSeq(out.texts, rest + 1, Len(out.texts))
        text  == IF e.node = "and" THEN writeJoin("AND", terms)
                 ELSE IF e.node = "or" THEN writeJoin("OR", terms)
                 ELSE Word("NOT") \o Word("(") \o terms[1] \o Word(")")
    IN IF e.node = "predicate" THEN writePredicate(e, spec, out)
       ELSE [texts |-> Append(SubSeq(out.texts, 1, rest), text), args |-> out.args]

writeExpr(nodes, spec, out) ==
    LET after[k \in 0 .. Len(nodes)] ==
          IF k = 0 THEN out ELSE writeNode(nodes[k], spec, after[k - 1])
    IN after[Len(nodes)]

writeWhere(q, spec, tenantID) ==
    LET over == IF q.over = <<>> THEN defaultOver ELSE q.over[1]
        scope == Condition("tenant_id", "=", <<1>>) \o Word("AND")
                   \o <<[word |-> "interval", minutes |-> over]>>
        f == writeExpr(q.filter[1], spec, [texts |-> <<>>, args |-> <<tenantID>>])
    IN IF q.filter = <<>> THEN [text |-> scope, args |-> <<tenantID>>]
       ELSE [text |-> scope \o Word("AND") \o f.texts[1], args |-> f.args]

\* The columns with their aliases, the metric last.
writeSelect(q, spec) == Append([i \in DOMAIN q.groupBy |-> spec.groupBy[q.groupBy[i]]], q.metric)

writeOrderBy(q) ==
    CASE q.orderBy # <<>>                       -> q.orderBy
      [] q.orderBy = <<>> /\ q.groupBy # <<>>   -> <<[field |-> q.groupBy[1], direction |-> "asc"]>>
      [] OTHER                                  -> <<>>

writeLimit(q) == IF q.limit = <<>> THEN defaultLimit ELSE q.limit[1]

TranslateClickHouse(q, tenantID) ==
    LET spec == Registry[q.metric]
        where == writeWhere(q, spec, tenantID)
    IN [select |-> writeSelect(q, spec), where |-> where.text, args |-> where.args,
        groupBy |-> q.groupBy, orderBy |-> writeOrderBy(q), limit |-> writeLimit(q)]

-----------------------------------------------------------------------------
(***************************************************************************)
(* translate_prom.go. The matchers of a selector, all of which must hold.  *)
(***************************************************************************)
defaultPromRange == 5

\* contains is the pattern that has .* before and after the quoted text.
collectPredicate(p, spec) ==
    [label |-> IF p.field \in DOMAIN spec.groupBy THEN spec.groupBy[p.field]
               ELSE spec.filter[p.field].column,
     op    |-> IF p.op = "matches" THEN "=~" ELSE IF p.op = "contains" THEN "=~.*" ELSE p.op,
     value |-> IF p.value.kind = "string" THEN p.value.items[1] ELSE ""]

\* A plausible mistake: a disjunction is collected as if it were a conjunction.
Expressible_Or(e) ==
    e.node \in {"and", "or"} \/ (e.node = "predicate" /\ e.op \in {"=", "!=", "matches", "contains"})

\* What label matchers can say.
Expressible(e) ==
    e.node = "and" \/ (e.node = "predicate" /\ e.op \in {"=", "!=", "matches", "contains"})

collectLabels(nodes, spec) ==
    [ok |-> \A i \in DOMAIN nodes : Expressible(nodes[i]),
     matchers |-> {collectPredicate(p, spec) : p \in Predicates(nodes)}]

\* A histogram is aggregated by its buckets first.
buildByClause(q, spec) ==
    (IF spec.quantile THEN <<"le">> ELSE <<>>) \o [i \in DOMAIN q.groupBy |-> spec.groupBy[q.groupBy[i]]]

buildRange(q) == IF q.over = <<>> THEN defaultPromRange ELSE q.over[1]

\* step, order by and limit have no place in the expression.
TranslatePrometheus(q) ==
    LET spec == Registry[q.metric]
        labels == collectLabels(IF q.filter = <<>> THEN <<>> ELSE q.filter[1], spec)
    IN [ok |-> labels.ok, matchers |-> labels.matchers, by |-> buildByClause(q, spec), range |-> buildRange(q)]

-----------------------------------------------------------------------------
(***************************************************************************)
(* api/netql.go.                                                           *)
(***************************************************************************)
NoAnswer == [status |-> 0]
netqlError(error) == [status |-> IF error = "translate" THEN 422 ELSE 400, error |-> error]
OK(backend, out) == [status |-> 200, error |-> "", backend |-> backend, out |-> out]

compileNetQL(toks, tenantID) ==
    LET q == Parse(toks).ast IN
    IF LexError(toks) THEN netqlError("lex")
    ELSE IF ~Parse(toks).ok THEN netqlError("parse")
    ELSE IF ~Check(q) THEN netqlError("type")
    ELSE IF Registry[q.metric].backend = "clickhouse"
           THEN OK("clickhouse", TranslateClickHouse(q, tenantID))
    ELSE IF TranslatePrometheus(q).ok THEN OK("prometheus", TranslatePrometheus(q))
    ELSE netqlError("translate")

-----------------------------------------------------------------------------
(***************************************************************************)
(* autocomplete.go, with the cursor behind the last of toks.               *)
(***************************************************************************)
clauseKeywordsAfterMetric == {"by", "where", "over", "step", "order", "limit"}
operatorSuggestions == Comparisons \cup {"in", "contains", "matches"}
metricSuggestions == DOMAIN Registry

isOrderByContext(toks) == Len(toks) >= 2 /\ SubSeq(toks, Len(toks) - 1, Len(toks)) = <<"order", "by">>

\* A plausible mistake: the walk back does not stop where a filter began.
inGroupByList_PastWhere(toks) ==
    LET marks == {i \in DOMAIN toks : toks[i] \in {"by", "over", "step", "order", "limit"}} IN
    /\ marks # {}
    /\ toks[Max(marks)] = "by" /\ toks[Max(marks) - 1] # "order"

\* The last keyword of a clause is the by of a group-by list.
inGroupByList(toks) ==
    LET marks == {i \in DOMAIN toks : toks[i] \in {"by", "where", "over", "step", "order", "limit"}} IN
    /\ marks # {}
    /\ toks[Max(marks)] = "by" /\ toks[Max(marks) - 1] # "order"

Autocomplete(toks, endsWithSpace) ==
    LET last == toks[Len(toks)]
        prev == IF Len(toks) >= 2 THEN toks[Len(toks) - 1] ELSE ""
        spec == Registry[toks[1]]
        field == next(last) = "ident"
    IN CASE LexError(toks) \/ toks = <<>>                     -> metricSuggestions
         [] Len(toks) = 1 /\ field /\ ~endsWithSpace          -> metricSuggestions
         [] Len(toks) = 1 /\ field /\ endsWithSpace           -> clauseKeywordsAfterMetric
         [] OTHER ->
              IF toks[1] \notin DOMAIN Registry THEN {}
              ELSE CASE last = "by" /\ isOrderByContext(toks) -> DOMAIN spec.groupBy \cup {toks[1]}
                [] last = "by" /\ ~isOrderByContext(toks)     -> DOMAIN spec.groupBy
                [] last \in {"where", "and", "or"}            -> DOMAIN spec.filter
                [] last = "," /\ inGroupByList(toks)          -> DOMAIN spec.groupBy
                [] field /\ prev \in {"where", "and", "or", "not"} -> operatorSuggestions
                [] last = "order"                             -> {"by"}
                [] last \in {"asc", "desc"}                   -> {"limit"}
                [] OTHER                                      -> {}

-----------------------------------------------------------------------------
(***************************************************************************)
(* Typing and submitting a query. Typing goes on as long as the parser has *)
(* refused no token: what is behind a refused one it never reads.          *)
(***************************************************************************)
Type(phrase) ==
    /\ answer = NoAnswer
    /\ phrases < MaxPhrases
    /\ Viable(Lex(typed))
    /\ typed' = typed \o phrase
    /\ phrases' = phrases + 1
    /\ UNCHANGED answer

netqlTranslateHandler ==
    /\ answer = NoAnswer
    /\ answer' = compileNetQL(Lex(typed), "mine")
    /\ UNCHANGED <<typed, phrases>>

Init == typed = <<>> /\ phrases = 0 /\ answer = NoAnswer

Next == (\E phrase \in Phrases : Type(phrase)) \/ netqlTranslateHandler

Spec == Init /\ [][Next]_vars
=============================================================================
