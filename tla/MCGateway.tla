------------------------------- MODULE MCGateway -------------------------------
(* Constants that TLC needs for Gateway: a few requests of each kind and      *)
(* streams that join, split, overrun and break off lines.                     *)
EXTENDS Gateway

MCNames == {"key", "free"}
MCLower == [n \in MCNames |-> n]
MCNoAlias == [n \in MCNames |-> None]
MCCovers == [a |-> {"https://a"}]
MCEntries == <<[id |-> 1, name |-> "key", domain |-> "a"], [id |-> 2, name |-> "free", domain |-> None]>>

Good == [local |-> TRUE, browser |-> FALSE, token |-> TRUE, route |-> "/resolve", post |-> TRUE,
         json |-> TRUE, long |-> FALSE, name |-> "key", origin |-> "https://a"]

MCRequests ==
    {Good, [Good EXCEPT !.route = "/execute"], [Good EXCEPT !.token = FALSE, !.route = "/list"],
     [Good EXCEPT !.token = FALSE, !.route = "/status", !.post = FALSE]}

L(m) == <<m, "nl">>
MCStreams ==
    { L("initialize") \o L("initialized") \o L("list") \o L("execute"),
      L("initialized") \o L("initialize_bad") \o L("initialize") \o L("tools/list") \o L("ping"),
      L("initialize") \o <<"initialized", "pad", "nl", "blank", "nl", "nl", "resolve", "pad", "nl", "list">>,
      <<"ping", "pad", "pad", "nl">> \o L("ping"),
      <<"ping", "pad", "nl", "ping", "pad", "pad">>,
      <<"ping", "bad", "nl", "ping", "pad", "nl", "bad", "nl", "garbage", "nl", "nl">>,
      L("response") \o L("not_a_request") \o L("initialize") \o L("initialized") \o L("unknown") \o L("call_bad") }

=============================================================================
