--------------------------- MODULE MCLimitConfig ---------------------------
EXTENDS LimitConfig

\* Upper and lower case of one name.
MCNormalize(item) == IF item = "A" THEN "a" ELSE item

MCLines ==
  [kind : {"comment", "malformed"}, item : {""}, limit : {0}]
  \cup [kind : {"key"}, item : {"k"}, limit : {0, 1}]
  \cup [kind : {"domain"}, item : {"a", "A", "test"}, limit : {1}]
  \cup [kind : {"domain"}, item : {"b"}, limit : {2, 3}]
  \cup [kind : {"public"}, item : {"s", "t"}, limit : {0, 1}]

MCLongLines == MCLines \cup {[kind |-> "overlong", item |-> "", limit |-> 0]}

\* Names of up to four labels, and suffix lines that concern them.
MCDomains == {<<"o">>, <<"a", "o">>, <<"x", "o">>, <<"y", "o">>, <<"x", "a", "o">>, <<"y", "x", "o">>,
              <<"y", "a", "x", "o">>, <<"p">>, <<"x", "p">>}

MCSuffixLines ==
  {[kind |-> "comment"], [kind |-> "malformed"]}
  \cup [kind : {"plain", "wildcard"}, name : {<<"o">>, <<"x", "o">>}]
  \cup [kind : {"exception"}, name : {<<"o">>, <<"x", "o">>, <<"y", "x", "o">>, <<"x", "p">>}]
=============================================================================
