----------------------------- MODULE SessionCalls -----------------------------
(***************************************************************************)
(* A program from its generated files to the objects of its queries: it is *)
(* generated, starts up, opens its sessions, sends statements and maps     *)
(* their rows. Each start of a behaviour chooses which of these it is      *)
(* about.                                                                  *)
(***************************************************************************)
EXTENDS RewriteMeaning, Startup, Routing, GeneratedFiles

callVars == <<vars, routingVars, fileVars>>

(* A query has its rows: given is [query, trees]. *)
Map(out) ==
    /\ sent = NotSent
    /\ sent' = [op |-> front, st |-> Statement("select", <<>>, NoArgs, TRUE), out |-> out]
    /\ UNCHANGED <<front, w, open, calls, script>>
MapRows == front = "rows" /\ Map(ScanRows(script.query))
MapOne  == front = "row" /\ Map(ScanOne(script.query))

(* A program registers what it has, validates it and queries a statement:  *)
(* given is [handlers, registrations, uses: [statement, rows, sets]].      *)
StartUp ==
    /\ front = "startup"
    /\ LET Use(r, u) == IF u.statement \in DOMAIN r.statements
                        THEN QueryStatement(r, r.statements[u.statement], u.rows, u.sets, u.settings)
                        ELSE [err |-> FALSE, objects |-> <<>>, mapped |-> TRUE]
           Using(r) == [accepted |-> Validate(r), registry |-> r,
                        cached |-> [ns \in DOMAIN r.mappers |-> ResolveCacheNamespace(r, ns)],
                        used |-> [i \in DOMAIN script.uses |-> Use(r, script.uses[i])]]
       IN Map(Using(FoldLeft(Register, NewRegistry(script.handlers), script.registrations)))

AnyOf(S) == {CHOOSE x \in S : TRUE}
CallsInit == /\ Init
             /\ RoutingInit(IF front = "routing" THEN Factories ELSE AnyOf(Factories))
             /\ FilesInit(IF front = "files" THEN Jobs ELSE AnyOf(Jobs))
CallsNext == \/ (Next \/ MapRows \/ MapOne \/ StartUp) /\ UNCHANGED <<routingVars, fileVars>>
             \/ front = "routing" /\ RoutingNext /\ UNCHANGED <<vars, fileVars>>
             \/ front = "files" /\ FilesNext /\ UNCHANGED <<vars, routingVars>>
CallsSpec == CallsInit /\ [][CallsNext]_callVars

-----------------------------------------------------------------------------
(* The objects a query is about: trees of [own: path -> value, nested: the  *)
(* property of an association or collection -> its objects, path -> value]. *)
(* A zero field is the same as none, and so an association of zeros.       *)
NonZero(object) == [path \in {p \in DOMAIN object : ~IsZeroDatabaseValue(object[p])} |-> object[path]]
Elements(objects) == [of |-> {NonZero(o) : o \in Range(objects)}, count |-> Len(objects)]
Shape(map, object) ==
    LET lists == {<<c.prop>> : c \in Range(map.collections)} \intersect DOMAIN object
    IN [own |-> NonZero([path \in DOMAIN object \ lists |-> object[path]]),
        lists |-> [path \in lists |-> Elements(object[path])]]
TreeShape(map, tree) ==
    LET props(objects) == {o.prop : o \in Range(objects)} \intersect {p \in DOMAIN tree.nested : tree.nested[p] # <<>>}
        inner == UNION {{<<a>> \o path : path \in DOMAIN tree.nested[a][1]} : a \in props(map.associations)}
    IN [own |-> NonZero(tree.own @@ [path \in inner |-> tree.nested[path[1]][1][Tail(path)]]),
        lists |-> [path \in {<<p>> : p \in props(map.collections)} |-> Elements(tree.nested[path[1]])]]

(* JoinComesBack: the rows of a join, or of several result sets, come back *)
(* as the objects they were made of, in whatever order the rows come:      *)
(* every root once, and under it every child once.                         *)
JoinComesBack ==
    sent.op \in {"rows", "row"} =>
        LET map == script.query.map
            single == sent.op = "rows" \/ Cardinality(script.trees) = 1
            both == HasResultSetMappings(map) /\ WithoutResultSets(map).collections # <<>>
            refused == ~single \/ (sent.op = "row" /\ both)
        IN /\ sent.out.err <=> refused
           /\ ~refused => /\ {Shape(map, o) : o \in Range(sent.out.objects)} = {TreeShape(map, t) : t \in script.trees}
                          /\ Len(sent.out.objects) = Cardinality(script.trees)

(* AcceptedServes: what the registry's validation accepts works when it is *)
(* used: a mapper that wants a cache gets one, and a query finds its       *)
(* provider, its result map, the map its discriminator names, its type     *)
(* handlers, its result sets and its nested selects. Left out: a case of   *)
(* another Go type, which only the row of that case refuses.               *)
CaseTypesAgree(m) ==
    \A map, other \in Range(m.resultMaps) : \A c \in Range(map.disc.cases) :
        c.name \in {"", map.name} /\ (c.ref = other.id => other.name = map.name)
AcceptedServes ==
    sent.op = "startup" /\ sent.out.accepted =>
        LET mappers == sent.out.registry.mappers
        IN /\ \A ns \in DOMAIN mappers : mappers[ns].cached => sent.out.cached[ns] # ""
           /\ (\A ns \in DOMAIN mappers : CaseTypesAgree(mappers[ns])) =>
                  \A u \in Range(sent.out.used) : ~u.err /\ u.mapped
===============================================================================
