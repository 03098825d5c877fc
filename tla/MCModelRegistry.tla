--------------------------- MODULE MCModelRegistry ---------------------------
EXTENDS ModelRegistry, TLC

MCScope == {"*", "nobody", "a", "b"}
TeamA == FromScopes({"a"}, {})
NotB == FromScopes({}, {"b"})
MCYaml == {"key", "router"}
MCYamlScope == "key" :> {NoConstraint} @@ "router" :> NotB
MCDBScope == [c \in DBNames |-> NotB]
MCYamlLimits == "m1" :> <<[cred |-> Global, rpm |-> 1]>> @@ "m2" :> <<>> @@ "m3" :> <<>>
MCInline == "m1" :> "db-model-1" @@ "m2" :> "db-model-2" @@ "m3" :> "db-model-3"
MCDBRows == {[model |-> "m2", ref |-> "dbkey", rpm |-> 2], [model |-> "m1", ref |-> InlineRef, rpm |-> 2]}
Malformed == {[needs |-> {{}}, denied |-> {}]} \* as another router may send it
Row(m, f, s, o) == [model |-> m, fallback |-> f, scope |-> s, inherits |-> FALSE, own |-> o, weight |-> 0]
Plain(m, f, s) == [Row(m, f, s, {}) EXCEPT !.inherits = TRUE]
Up(rows) == [kind |-> "up", rows |-> rows]
MCHealths ==
    {Up({Row("m2", FALSE, TeamA, Malformed), Plain("m3", TRUE, {NoConstraint})}),
     Up({Row("m2", FALSE, {NoConstraint}, NotB), Plain("m3", FALSE, TeamA)}),
     [kind |-> "legacy", rows |-> {Plain("m2", FALSE, {NoConstraint})}],
     [kind |-> "down", rows |-> {}]}
Caller(a) == [admin |-> FALSE, allowed |-> a, denied |-> {}]
MCCallers == {Caller({"a"})}
ClashingNames == {"router"}
=============================================================================
