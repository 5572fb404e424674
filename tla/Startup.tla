-------------------------------- MODULE Startup --------------------------------
(***************************************************************************)
(* What a program does before its first statement: it registers its        *)
(* entities, mappers, caches and SQL providers (registry.go, provider.go), *)
(* and has the registry validated (registry_validate.go).                  *)
(***************************************************************************)
EXTENDS ResultMaps, Functions

(* A name of a statement is a sequence: <<ns, id>>, or <<id>> within ns.   *)
(* registry: [entities, mappers, statements, caches, cacheRefs, handlers,  *)
(* providers]                                                              *)
NewRegistry(handlers) ==
    [entities |-> <<>>, mappers |-> <<>>, statements |-> <<>>, caches |-> {}, cacheRefs |-> <<>>,
     handlers |-> handlers, providers |-> <<>>]
Put1(f, x, y) == (x :> y) @@ f

RegisterEntity(r, e) ==         \* [name: of its Go type, table, columns]
    IF e.name \in {""} \union DOMAIN r.entities \/ e.table = "" THEN r
    ELSE [r EXCEPT !.entities = Put1(@, e.name, e.columns)]

(* mapper: [ns, cached, ref, resultMaps, statements, ...]; one whose       *)
(* namespace or statement is taken is refused as a whole.                  *)
RegisterMapper(r, m) ==
    LET names == {st.name : st \in Range(m.statements)}
        Named(n) == CHOOSE st \in Range(m.statements) : st.name = n
    IN IF m.ns = "" \/ m.ns \in DOMAIN r.mappers \/ <<>> \in names \/ names \intersect DOMAIN r.statements # {} THEN r
       ELSE [r EXCEPT !.mappers = Put1(@, m.ns, m),
                      !.statements = [n \in names |-> Named(n)] @@ @,
                      !.cacheRefs = IF m.cached /\ m.ref # "" THEN Put1(@, m.ns, m.ref) ELSE @,
                      !.caches = IF m.cached /\ m.ref = "" THEN @ \union {m.ns} ELSE @]
RegisterCache(r, ns) == IF ns = "" THEN r ELSE [r EXCEPT !.caches = @ \union {ns}]
RegisterProvider(r, p) ==       \* [name, statements, commands]: whom it serves, all if empty
    IF p.name = "" \/ <<>> \in p.statements \/ "" \in p.commands THEN r
    ELSE [r EXCEPT !.providers = Put1(@, p.name, p)]
Register(r, x) == CASE x.kind = "entity" -> RegisterEntity(r, x)
                    [] x.kind = "mapper" -> RegisterMapper(r, x)
                    [] x.kind = "cache" -> RegisterCache(r, x.ns)
                    [] x.kind = "provider" -> RegisterProvider(r, x)

(* The namespace whose cache a mapper uses, "" for none: a reference goes  *)
(* before a cache of the namespace itself.                                 *)
RECURSIVE FollowRefs(_, _, _)
FollowRefs(r, ns, seen) ==
    IF ns \in seen THEN ""
    ELSE IF ns \in DOMAIN r.cacheRefs THEN FollowRefs(r, r.cacheRefs[ns], seen \union {ns})
    ELSE IF ns \in r.caches THEN ns ELSE ""
ResolveCacheNamespace(r, ns) == FollowRefs(r, ns, {})

-----------------------------------------------------------------------------
(* Validation: what a statement will need must be there.                   *)
Commands == {"select", "insert", "update", "delete", "call"}

RECURSIVE CacheRefValid(_, _, _)
CacheRefValid(r, ns, seen) ==
    /\ ns \notin seen
    /\ IF ns \in DOMAIN r.cacheRefs THEN CacheRefValid(r, r.cacheRefs[ns], seen \union {ns})
       ELSE ns \in r.caches

HandlersKnown(r, fields) == \A f \in Range(fields) : f.handler \in {""} \union r.handlers
StatementExists(r, ns, select) == {select, <<ns>> \o select} \intersect DOMAIN r.statements # {}

RECURSIVE ObjectsValid(_, _, _)
ObjectsValid(r, ns, objects) ==
    \A o \in Range(objects) :
        /\ o.select # <<>> => o.columnParses /\ StatementExists(r, ns, o.select)
        /\ HandlersKnown(r, o.fields)
        /\ ObjectsValid(r, ns, o.associations) /\ ObjectsValid(r, ns, o.collections)

DiscriminatorValid(r, ns, maps, disc) ==
    /\ (disc.col = <<>>) = (disc.cases = <<>>)
    /\ HandlersKnown(r, <<disc>>)
    /\ \A c \in Range(disc.cases) :
          /\ c.ref # "" => c.ref \in DOMAIN maps
          /\ HandlersKnown(r, c.fields)
          /\ ObjectsValid(r, ns, c.associations) /\ ObjectsValid(r, ns, c.collections)

ResultMapValid(r, ns, maps, map) ==
    /\ map.name # ""
    /\ map.extends # "" => map.extends \in DOMAIN maps
    /\ HandlersKnown(r, MapFields(map))
    /\ ObjectsValid(r, ns, map.associations) /\ ObjectsValid(r, ns, map.collections)
    /\ DiscriminatorValid(r, ns, maps, map.disc)

(* No map reaches itself by what it extends and what its cases name.       *)
ExtendsOnly(map) == {map.extends} \ {""}
References(map) == ({map.extends} \union {c.ref : c \in Range(map.disc.cases)}) \ {""}
RECURSIVE Reached(_, _)
Reached(maps, ids) ==
    LET next == ids \union UNION {References(maps[id]) \intersect DOMAIN maps : id \in ids}
    IN IF next = ids THEN ids ELSE Reached(maps, next)
ReferencesAcyclic(maps) ==
    \A id \in DOMAIN maps : id \notin Reached(maps, References(maps[id]) \intersect DOMAIN maps)

(* A result set is declared by the statement and mapped at the root only.  *)
RECURSIVE ResultSetsValid(_, _, _)
ResultSetsValid(declared, objects, nested) ==
    \A o \in Range(objects) :
        /\ o.set # "" => ~nested /\ o.set \in declared /\ JoinColumnsMatch(o)
        /\ ResultSetsValid(declared, o.associations \o o.collections, nested \/ o.set # "")

SelectKeyValid(st) ==
    /\ st.generatedKeys => st.keyProperty # ""
    /\ st.selectKey.enabled => /\ st.selectKey.keyProperty # "" \/ st.keyProperty # ""
                               /\ st.selectKey.sql # st.selectKey.dynamic
                               /\ st.selectKey.order \in {"", "BEFORE", "AFTER"}

ProviderAllows(p, st) == /\ p.statements # {} => st.name \in p.statements
                         /\ p.commands # {} => st.command \in p.commands

StatementValid(r, ns, maps, st) ==
    /\ st.ns = ns /\ st.command \in Commands /\ (st.sql \/ st.provider # "")
    /\ st.provider # "" => st.provider \in DOMAIN r.providers /\ ProviderAllows(r.providers[st.provider], st)
    /\ st.resultMap # "" =>
          /\ st.resultMap \in DOMAIN maps
          /\ LET map == maps[st.resultMap]
             IN \A m \in {map} \union Range(map.disc.cases) :
                    ResultSetsValid(Range(st.declared), m.associations \o m.collections, FALSE)
    /\ \A id \in Range(st.setMaps) : id # "" => id \in DOMAIN maps
    /\ \A p \in Range(st.parameters) : p.name # ""
    /\ HandlersKnown(r, st.parameters)
    /\ SelectKeyValid(st)

MapsById(m) == [id \in {map.id : map \in Range(m.resultMaps)} |-> CHOOSE map \in Range(m.resultMaps) : map.id = id]
MapperValid(r, m) ==
    LET maps == MapsById(m)
    IN /\ Cardinality(DOMAIN maps) = Len(m.resultMaps) /\ "" \notin DOMAIN maps
       /\ m.cached /\ m.ref # "" => CacheRefValid(r, m.ns, {})
       /\ \A map \in Range(m.resultMaps) : ResultMapValid(r, m.ns, maps, map)
       /\ ReferencesAcyclic(maps)
       /\ \A st \in Range(m.statements) : StatementValid(r, m.ns, maps, st)

ProvidersValid(r) == \A p \in Range(r.providers) : p.statements \subseteq DOMAIN r.statements /\ p.commands \subseteq Commands
EntitiesValid(r) == \A columns \in Range(r.entities) : HandlersKnown(r, columns)
Validate(r) == EntitiesValid(r) /\ ProvidersValid(r) /\ \A ns \in DOMAIN r.mappers : MapperValid(r, r.mappers[ns])

(* A query of a statement: its provider must serve it, its result map is   *)
(* looked up (without one its rows are mapped by the names of the fields), *)
(* and its nested selects, once the rows are there.                        *)
LookupResultMap(m, id) == SelectSeq(m.resultMaps, LAMBDA map : map.id = id)
ProviderServes(r, st) ==
    st.provider # "" => st.provider \in DOMAIN r.providers /\ ProviderAllows(r.providers[st.provider], st)
NestedSelectsFound(r, ns, objects) ==
    \A o \in Range(objects) : o.select # <<>> => o.columnParses /\ StatementExists(r, ns, o.select)

(* A map is given the columns its type is registered with. *)
OfEntity(r, map) ==
    [map EXCEPT !.entity = IF map.target \in DOMAIN r.entities THEN r.entities[map.target] ELSE <<>>]

QueryStatement(r, st, rows, sets, s) ==
    LET own   == r.mappers[st.ns]
        maps  == MapsById(own)
        found == LookupResultMap(own, st.resultMap)
        map   == OfEntity(r, IF found # <<>> THEN found[1] ELSE st.plain)
    IN IF ProviderServes(r, st) /\ (st.sql \/ st.provider # "")
          /\ NestedSelectsFound(r, st.ns, map.associations \o map.collections)
       THEN ScanRows([map |-> map, rows |-> rows, sets |-> sets, declared |-> st.declared,
                      settings |-> [s EXCEPT !.maps = [id \in DOMAIN maps |-> OfEntity(r, maps[id])], !.handlers = r.handlers]])
            @@ [mapped |-> (st.resultMap = "" \/ found # <<>>)]
       ELSE Error @@ [mapped |-> FALSE]
===============================================================================
