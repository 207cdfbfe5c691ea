------------------------------ MODULE MCNetQL -------------------------------
(***************************************************************************)
(* A ClickHouse and a Prometheus metric; three columns, one of them a      *)
(* number that no group-by list may name. Phrases are typed that make up   *)
(* filters with brackets, negations, lists and every clause.               *)
(***************************************************************************)
EXTENDS NetQLMeaning

Text(column) == [kind |-> "string", column |-> column]
MCRegistry ==
    [latency_p95 |-> [backend |-> "clickhouse", quantile |-> FALSE,
                      groupBy |-> [pop |-> "pop_id"],
                      filter |-> [pop |-> Text("pop_id"),
                                  observed_at |-> [kind |-> "number", column |-> "observed_at"]]],
     request_rate |-> [backend |-> "prometheus", quantile |-> TRUE,
                       groupBy |-> [route |-> "route"],
                       filter |-> [route |-> Text("route"), pop |-> Text("pop_id")]]]
MCLower == [WHERE |-> "where"]
MCStrings == {"'a'", "'ab'"}
\* A literal of twenty nines stands for those that Atoi refuses and ParseFloat does not.
Nines == "99999999999999999999"
MCNumbers == [n \in {"0", "7", "7.5", Nines} |->
                IF n = "0" THEN 0 ELSE IF n = "7" THEN 14 ELSE IF n = "7.5" THEN 15 ELSE 1000]
MCInts == {"0", "7", Nines}
MCOverflows == {"9...9"}
MCDurations == [d \in {"0m", "30m", "9...9m"} |-> IF d = "0m" THEN 0 ELSE IF d = "30m" THEN 30 ELSE 1000]
MCAtoiFails == {Nines, "9...9", "9...9m"}
MCSubstrings == {<<"'a'", "'a'">>, <<"'ab'", "'a'">>, <<"'ab'", "'ab'">>}
MCFullMatches == {<<"'a'", "'a'">>, <<"'ab'", "'ab'">>}
MCPhrases ==
    {<<"latency_p95">>, <<"request_rate">>, <<"by">>, <<"pop">>, <<"route">>, <<",">>, <<"where">>,
     <<"latency_p95", "WHERE">>, <<"request_rate", "where">>,
     <<"and">>, <<"or">>, <<"not">>, <<"(">>, <<")">>, <<"'a'">>, <<"'open">>,
     <<"pop", "in", "(">>, <<"route", "!=", "'a'">>, <<"pop", "contains", "'ab'">>,
     <<"observed_at", ">=", "7.5">>, <<"over", "30m">>, <<"step", "0m">>, <<"order">>, <<"desc">>,
     <<"limit", "0">>, <<"limit", "7">>, <<"limit", Nines>>, <<"over", "9...9m">>,
     <<"observed_at", "<", Nines>>, <<"observed_at", "<", "9...9">>, <<"nosuch">>,
     <<"pop", "=", "(", "'a'", ")">>, <<"pop", "in", "'a'">>}
MCRows ==
    {[tenant_id |-> t, age |-> a, pop_id |-> p, route |-> r, observed_at |-> o] :
       t \in {"mine", "theirs"}, a \in {3, 20, 50, 70}, p \in MCStrings, r \in MCStrings, o \in {14, 15}}
=============================================================================
