------------------------------ MODULE MCStores ------------------------------
(* Small instances of Stores for TLC: what the model answers, what the feeds   *)
(* list, what is traded and what the screener answers.                         *)
EXTENDS Stores, TLC

CONSTANTS alpha, beta, etf

claim(quote, confidence) ==
    [quote |-> quote, ticker |-> "ABC", name |-> "NULL", confidence |-> confidence]
SomeAnswers ==
    {[kind |-> "unreachable", claims |-> {}], [kind |-> "malformed", claims |-> {}],
     [kind |-> "claims", claims |-> {claim("window", "number"), claim("elsewhere", "number")}],
     [kind |-> "claims", claims |-> {claim("window", "words")}]}
SomeItems == [p \in Playlists |-> Videos]
SomePublished == [v \in Videos |-> IF v = CHOOSE w \in Videos : TRUE THEN 1 ELSE 2]

SomeTickers == [h \in Headlines |-> CASE h = "h1" -> <<"A", "B">> [] h = "h2" -> <<"A">>
                                  [] OTHER -> <<>>]
SomeListed == [f \in {"rss", ApiFeed} |-> IF f = "rss" THEN <<"h1", "h3">> ELSE <<"h2">>]
SomeRssFeeds == <<"rss">>

SomeTraded == [s \in Stocks |-> IF s = beta THEN 1 .. LastMinute \ {2} ELSE 1 .. LastMinute]
SomeScreens == {<<alpha, beta, alpha>>, <<etf, beta>>}
SomeNewsNames == {<<>>}
SomeFallback == <<alpha>>
=============================================================================
