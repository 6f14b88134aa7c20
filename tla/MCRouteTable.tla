---------------------------- MODULE MCRouteTable ----------------------------
EXTENDS RouteTable

MCDigits == [s \in {} |-> 0]

MCPorts == {[name |-> "pg", port |-> 5432]}

ToService(s) ==
    [type |-> "Service",
     ref  |-> [ns |-> None, name |-> s, port |-> [type |-> "Int", int |-> 5432, str |-> ""]]]

MCServices == {<<1, "a">>}

MCKeys == {<<1, 1>>, <<1, 2>>}

\* Two routes that may claim database 1 at two priorities.
MCSpecs == {[prio |-> p, database |-> 1, backend |-> ToService("a"), tls |-> None] : p \in {0, 1}}

\* Routes that claim one of two databases.
MCRenames ==
    {[prio |-> 0, database |-> d, backend |-> ToService("a"), tls |-> None] : d \in {1, 2}}

AnyRoutes == [MCKeys -> MCSpecs \cup {None}]

\* One route, claiming database 1 at the lower priority.
OneRoute ==
    {[k \in MCKeys |-> IF k = <<1, 1>> THEN CHOOSE s \in MCSpecs : s.prio = 0 ELSE None]}

OneRename == {[k \in MCKeys |-> IF k = <<1, 1>> THEN CHOOSE s \in MCRenames : s.database = 1 ELSE None]}
=============================================================================
