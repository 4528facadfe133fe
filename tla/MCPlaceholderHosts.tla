-------------------------- MODULE MCPlaceholderHosts --------------------------
(* Constants that TLC needs for PlaceholderHosts. *)
EXTENDS PlaceholderHosts

MCOpenClaw == {"openclaw"}

\* a and b are bound to this computer, far is not, none is not in the vault.
MCNames == {"a", "B:b", "far", "none"}
MCWords == {"a", "far", "none"}
MCLower == [n \in MCNames |-> n]
MCNoAlias == [n \in MCNames |-> None]
MCCovers == [localhost |-> {"http://localhost"}, far |-> {"https://far"}]
MCEntries == <<[id |-> 1, name |-> "a", domain |-> "localhost"],
               [id |-> 2, name |-> "B:b", domain |-> "localhost"],
               [id |-> 3, name |-> "far", domain |-> "far"]>>

MCFirstValues == [a |-> <<Plain("2"), Pattern, Ref("B:b")>>, far |-> <<Plain("4")>>] @@
                 ("B:b" :> <<Plain("3")>>)

MCValues == [n \in DOMAIN MCFirstValues |->
    {MCFirstValues[n]} \cup IF n = "a" THEN {<<Plain("1")>>} ELSE {}]

MCCalls == 1 .. 2

MCMessages == [c \in MCCalls |->
    IF c = 1 THEN {<< <<Ref("a"), Plain("x"), Ref("B:b"), Ref("a")>> >>,
                   << <<Ref("a")>>, <<Ref("far")>> >>}
    ELSE {<< <<Ref("a")>> >>}]

=============================================================================
