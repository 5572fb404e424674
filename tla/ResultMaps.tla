------------------------------ MODULE ResultMaps ------------------------------
(***************************************************************************)
(* From the rows of a query to objects, as a result map says               *)
(* (sqlsession.go, resultmap_*.go, discriminator.go, automapping.go).      *)
(*                                                                         *)
(* A name is a sequence of parts: of the column item_id, of the property   *)
(* ItemID and of the column id behind the prefix item_, it is the same     *)
(* <<"item", "id">> (mapUnderscoreToCamelCase is on). A value is [t, v],   *)
(* its Go type and its text. An object maps paths of properties to values, *)
(* and the path of a collection to a sequence of objects.                  *)
(*                                                                         *)
(* A result map, association or collection has                             *)
(*   type: property -> Go type of its fields                               *)
(*   fields: Seq([prop, col, id, handler: a type handler, or ""])           *)
(*   associations, collections                                             *)
(* a nested one also prop, prefix, notNull: the columns that tell whether   *)
(* it is there, set: the name of its result set, or "", and parent,        *)
(* foreign: the columns of its root and of that set that meet; a result    *)
(* map also id, name: of its Go type, auto, entity: the columns of its     *)
(* entity, args: of its constructor, disc: its discriminator.              *)
(***************************************************************************)
EXTENDS Integers, Sequences, SequencesExt, FiniteSets, FiniteSetsExt, TLC

Null == [t |-> "nil", v |-> ""]
Zeros == [int |-> "0", string |-> "", bytes |-> "-"]   \* no slice but nil is a zero []byte
IsZeroDatabaseValue(x) == x = Null \/ x.v = Zeros[x.t]

(* NULL becomes the zero value of the field, bytes the text of a string. *)
SetReflectField(x, type) ==
    CASE type = "*int" -> IF x = Null THEN Null ELSE [x EXCEPT !.t = "int"]
      [] OTHER         -> [t |-> type, v |-> IF x = Null THEN Zeros[type] ELSE x.v]

(* A row is [cols, vals]; of two columns of one name the last one counts. *)
Has(row, col) == col \in Range(row.cols)
Of(row, col) == row.vals[Max({i \in DOMAIN row.cols : row.cols[i] = col})]

-----------------------------------------------------------------------------
(* Which object a row is about, and whether it is there.                   *)
PrefixColumn(prefix, col) == IF col = <<>> THEN <<>> ELSE prefix \o col
PrefixedColumns(cols, prefix) == SelectSeq([i \in DOMAIN cols |-> PrefixColumn(prefix, cols[i])], LAMBDA c : c # <<>>)
PrefixedFields(fields, prefix) == [i \in DOMAIN fields |-> [fields[i] EXCEPT !.col = PrefixColumn(prefix, @)]]
MapFields(map) == map.args \o map.fields

IdentityFields(fields) ==
    LET ids == SelectSeq(fields, LAMBDA f : f.id)
    IN IF ids # <<>> THEN ids ELSE fields

ColumnsPresent(cols, row) == \E c \in Range(cols) : Has(row, c) /\ ~IsZeroDatabaseValue(Of(row, c))

(* The columns whose values say that a nested object is there: those the   *)
(* map names, or else those of its identity.                               *)
Presence(object, prefix) ==
    LET named == PrefixedColumns(object.notNull, prefix)
        ids   == IdentityFields(PrefixedFields(object.fields, prefix))
    IN IF named # <<>> THEN named ELSE [i \in DOMAIN ids |-> ids[i].col]

ResultObjectKey(fields, row) ==
    LET ids == SelectSeq(IdentityFields(fields), LAMBDA f : Has(row, f.col))
    IN IF ids # <<>> THEN [i \in DOMAIN ids |-> <<ids[i].col, Of(row, ids[i].col)>>]
       ELSE [i \in DOMAIN row.vals |-> <<i, row.vals[i]>>]

-----------------------------------------------------------------------------
(* Which field a column is written to: one binding of each column; a later *)
(* one replaces an earlier one. s: settings of the session.                *)
HasNestedObjects(map) ==
    \/ map.associations # <<>> \/ map.collections # <<>>
    \/ \E c \in Range(map.disc.cases) : c.associations # <<>> \/ c.collections # <<>>
AutoMapping(map, s) ==
    CASE map.auto # "unset"     -> map.auto = "true"
      [] s.auto = "NONE"        -> FALSE
      [] s.auto = "PARTIAL"     -> ~HasNestedObjects(map)
      [] OTHER                  -> TRUE

Binding(path, type, presence, auto, handler) ==
    [path |-> path, type |-> type, presence |-> presence, auto |-> auto, handler |-> handler]
ExportedFields(type) == [p \in DOMAIN type |-> Binding(<<p>>, type[p], <<>>, TRUE, "")]

AddFields(bindings, object, fields, path, presence, auto) ==
    LET known == SelectSeq(fields, LAMBDA f : f.col # <<>> /\ f.prop \in DOMAIN object.type)
        Bind(all, f) == (f.col :> Binding(Append(path, f.prop), object.type[f.prop], presence, auto, f.handler)) @@ all
    IN FoldLeft(Bind, bindings, known)

RECURSIVE AddAssociation(_, _, _, _)
AddAssociation(bindings, a, path, inherited) ==
    LET prefix == inherited \o a.prefix
        inner  == Append(path, a.prop)
        Nested(all, child) == AddAssociation(all, child, inner, prefix)
    IN IF a.set # "" THEN bindings
       ELSE FoldLeft(Nested,
                     AddFields(bindings, a, PrefixedFields(a.fields, prefix), inner,
                               PrefixedColumns(a.notNull, prefix), FALSE),
                     a.associations)

ColumnBindings(map, s) ==
    LET auto == AutoMapping(map, s)
        own  == IF auto THEN AddFields(ExportedFields(map.type), map, map.entity, <<>>, <<>>, TRUE) ELSE <<>>
        Add1(all, a) == AddAssociation(all, a, <<>>, <<>>)
    IN FoldLeft(Add1, AddFields(own, map, MapFields(map), <<>>, <<>>, FALSE), map.associations)

(* An element of a collection takes every column named like a field of it, *)
(* whatever the map says of auto-mapping.                                  *)
ElementBindings(object, prefix) ==
    LET Add1(all, a) == AddAssociation(all, a, <<>>, prefix)
    IN FoldLeft(Add1, AddFields(ExportedFields(object.type), object, PrefixedFields(object.fields, prefix),
                                <<>>, <<>>, FALSE), object.associations)

(* The object of one row: of the columns bound to a field, the last one.   *)
Error   == [err |-> TRUE, objects |-> <<>>]
ApplyBindings(bindings, row, s) ==
    LET unknown == {i \in DOMAIN row.cols : row.cols[i] \notin DOMAIN bindings}
        To(i)   == bindings[row.cols[i]]
        written == {i \in DOMAIN row.cols \ unknown :
                        To(i).presence = <<>> \/ ColumnsPresent(To(i).presence, row)}
        Writer(path) == Max({i \in written : To(i).path = path})
        fails == \/ s.unknown = "FAILING" /\ unknown # {} /\ \E c \in DOMAIN bindings : bindings[c].auto
                 \/ \E i \in written : To(i).handler \notin {""} \union s.handlers
    IN IF fails THEN Error
       ELSE [err |-> FALSE,
             objects |-> <<[path \in {To(i).path : i \in written} |->
                               SetReflectField(row.vals[Writer(path)], To(Writer(path)).type)]>>]

-----------------------------------------------------------------------------
(* Generated row scanners take over where nothing stands against it. They  *)
(* write the fields the columns are named for, and an association only     *)
(* when it is there.                                                       *)
WithoutHandlers(fields) == \A f \in Range(fields) : f.handler = ""
Simple(map) == map.disc.cases = <<>> /\ map.collections = <<>> /\ WithoutHandlers(MapFields(map))
RECURSIVE AssociationScannable(_)
AssociationScannable(a) == a.set = "" /\ a.collections = <<>> /\ WithoutHandlers(a.fields)
                           /\ \A child \in Range(a.associations) : AssociationScannable(child)
RowScannerSupported(map) == Simple(map) /\ map.associations = <<>>
AssociationRowScannerSupported(map) ==
    /\ Simple(map) /\ map.associations # <<>> /\ map.auto = "false"
    /\ \A a \in Range(map.associations) : AssociationScannable(a)

(* columns of a row as the scanner gets them: the property, or the column, *)
(* or, for the objects of an association map, nothing.                     *)
ScannerColumns(fields, row, others) ==
    LET Named(col) == {i \in DOMAIN fields : fields[i].col = col}
    IN [i \in DOMAIN row.cols |-> IF Named(row.cols[i]) # {} THEN fields[Max(Named(row.cols[i]))].prop
                                  ELSE IF others THEN row.cols[i] ELSE <<>>]
ScanRow(type, cols, row, path) ==
    LET last(p) == Max({i \in DOMAIN cols : cols[i] = p})
        object == [p \in DOMAIN type \intersect Range(cols) |-> SetReflectField(row.vals[last(p)], type[p])]
    IN [full \in {Append(path, p) : p \in DOMAIN object} |-> object[Last(full)]]

RECURSIVE ScanAssociations(_, _, _, _)
ScanAssociations(associations, row, path, inherited) ==
    LET Scan(object, a) ==
            LET prefix == inherited \o a.prefix
                inner  == Append(path, a.prop)
            IN IF ~ColumnsPresent(Presence(a, prefix), row) THEN object
               ELSE ScanRow(a.type, ScannerColumns(PrefixedFields(a.fields, prefix), row, FALSE), row, inner)
                    @@ ScanAssociations(a.associations, row, inner, prefix) @@ object
    IN FoldLeft(Scan, <<>>, associations)

ScannedBy(map, row) ==
    IF RowScannerSupported(map) THEN ScanRow(map.type, ScannerColumns(map.fields \o map.args, row, TRUE), row, <<>>)
    ELSE ScanRow(map.type, ScannerColumns(MapFields(map), row, FALSE), row, <<>>)
         @@ ScanAssociations(map.associations, row, <<>>, <<>>)

-----------------------------------------------------------------------------
(* The discriminator picks the map of a row: the case of its value, either *)
(* another map, or this one with the fields of the case.                   *)
NoDiscriminator == [col |-> <<>>, cases |-> <<>>, handler |-> ""]
MergeCase(map, c) == [map EXCEPT !.name = IF c.name # "" THEN c.name ELSE @, !.disc = NoDiscriminator,
                                 !.fields = @ \o c.fields, !.associations = @ \o c.associations,
                                 !.collections = @ \o c.collections]

RECURSIVE EffectiveResultMap(_, _, _, _)
EffectiveResultMap(map, row, s, stack) ==
    LET matching == {i \in DOMAIN map.disc.cases : map.disc.cases[i].value = Of(row, map.disc.col).v}
        c == map.disc.cases[Min(matching)]
        failed == [err |-> TRUE, map |-> map]
        Fitting(x) == IF x.err \/ x.map.name \notin {"", map.target} THEN failed ELSE x
    IN IF map.disc.cases = <<>> \/ ~Has(row, map.disc.col) THEN [err |-> FALSE, map |-> map]
       ELSE IF map.disc.handler \notin {""} \union s.handlers THEN failed
       ELSE IF matching = {} THEN [err |-> FALSE, map |-> map]
       ELSE IF c.ref = "" THEN Fitting([err |-> FALSE, map |-> MergeCase(map, c)])
       ELSE IF c.ref \notin DOMAIN s.maps \/ c.ref \in Range(stack) THEN failed
       ELSE Fitting(EffectiveResultMap([s.maps[c.ref] EXCEPT !.target = map.target], row, s, Append(stack, map.id)))

(* A session keeps the bindings of a map under a key of what the map says: *)
(* a row takes those of the first map of that key.                         *)
WholeId(map) == <<map.id, map.name, map.auto>>
FieldKeys(fields) == [i \in DOMAIN fields |-> <<fields[i].prop, fields[i].col, fields[i].handler>>]
RECURSIVE ObjectKeys(_)
ObjectKeys(objects) ==
    [i \in DOMAIN objects |-> <<objects[i].prop, objects[i].prefix, objects[i].notNull, FieldKeys(objects[i].fields),
                                ObjectKeys(objects[i].associations), ObjectKeys(objects[i].collections)>>]
ResultMapPlanKey(map) ==
    <<map.id, map.name, map.auto, FieldKeys(map.args), FieldKeys(map.fields),
      ObjectKeys(map.associations), ObjectKeys(map.collections)>>

ScanEach(map, rows, s) ==
    LET effective == [i \in DOMAIN rows |-> EffectiveResultMap(map, rows[i], s, <<>>)]
        Own(i)  == effective[i].map
        Plan(i) == Own(Min({j \in 1..i : ResultMapPlanKey(Own(j)) = ResultMapPlanKey(Own(i))}))
        ScanValue(i) ==
            IF effective[i].err THEN Error
            ELSE IF s.scanners /\ (RowScannerSupported(Own(i)) \/ AssociationRowScannerSupported(Own(i)))
            THEN [err |-> FALSE, objects |-> <<ScannedBy(Own(i), rows[i])>>]
            ELSE ApplyBindings(ColumnBindings(Plan(i), s), rows[i], s)
        All(values) == IF \E i \in DOMAIN rows : values[i].err THEN Error
                       ELSE [err |-> FALSE, objects |-> [i \in DOMAIN rows |-> values[i].objects[1]]]
    IN All([i \in DOMAIN rows |-> ScanValue(i)])

-----------------------------------------------------------------------------
(* Joined rows: a root is made of its first row, a child of the first row  *)
(* of its root that has it.                                                *)
Objects(acc) == IF acc.err THEN Error ELSE [err |-> FALSE, objects |-> acc.objects]
WithElement(root, prop, child) == (<<prop>> :> Append(IF <<prop>> \in DOMAIN root THEN root[<<prop>>] ELSE <<>>, child)) @@ root

Added(acc, c, id, child, at) ==
    IF child.err THEN [acc EXCEPT !.err = TRUE]
    ELSE [acc EXCEPT !.seen = @ \union {id}, !.objects[at] = WithElement(@, c.prop, child.objects[1])]
AddChild(acc, c, row, key, at, s) ==
    LET Add1(id) == IF id \in acc.seen THEN acc
                    ELSE Added(acc, c, id, ApplyBindings(ElementBindings(c, c.prefix), row, s), at)
    IN IF acc.err \/ ~ColumnsPresent(Presence(c, c.prefix), row) THEN acc
       ELSE Add1(<<key, c.prop, ResultObjectKey(PrefixedFields(c.fields, c.prefix), row)>>)

ScanRowsWithCollections(map, rows, s) ==
    LET inline == SelectSeq(map.collections, LAMBDA c : c.set = "")
        Grown(acc, key, root) == [acc EXCEPT !.err = @ \/ root.err, !.keys = Append(@, key), !.objects = @ \o root.objects]
        Rooted(acc, key, row) == IF key \in Range(acc.keys) THEN acc
                                 ELSE Grown(acc, key, ApplyBindings(ColumnBindings(map, s), row, s))
        Children(acc, key, row) ==
            LET Child(all, c) == AddChild(all, c, row, key, CHOOSE i \in DOMAIN acc.keys : acc.keys[i] = key, s)
            IN IF acc.err THEN acc ELSE FoldLeft(Child, acc, inline)
        Next2(acc, key, row) == Children(Rooted(acc, key, row), key, row)
        Next1(acc, row) == IF acc.err THEN acc ELSE Next2(acc, ResultObjectKey(MapFields(map), row), row)
    IN Objects(FoldLeft(Next1, [err |-> FALSE, objects |-> <<>>, keys |-> <<>>, seen |-> {}], rows))

-----------------------------------------------------------------------------
(* Result sets: objects of the sets behind the first one are put to the    *)
(* roots that their foreign columns name.                                  *)
ResultSetPlans(map) ==
    LET Kind(objects, many) == [i \in DOMAIN objects |-> [object |-> objects[i], many |-> many]]
    IN SelectSeq(Kind(map.associations, FALSE) \o Kind(map.collections, TRUE), LAMBDA p : p.object.set # "")
RECURSIVE WithoutResultSets(_)
WithoutResultSets(object) ==
    LET Inline(objects) == LET kept == SelectSeq(objects, LAMBDA o : o.set = "")
                           IN [i \in DOMAIN kept |-> WithoutResultSets(kept[i])]
    IN [object EXCEPT !.associations = Inline(@), !.collections = Inline(@)]
RECURSIVE AnyResultSet(_)
AnyResultSet(objects) == \E o \in Range(objects) : o.set # "" \/ AnyResultSet(o.associations \o o.collections)
HasResultSetMappings(map) == \E m \in {map} \union Range(map.disc.cases) : AnyResultSet(m.associations \o m.collections)

(* The names of the sets that follow, as the statement declares them: the  *)
(* first name is the first set's, unless it is one that is mapped.         *)
ResultSetOrder(declared, plans) ==
    LET needed == {p.object.set : p \in Range(plans)}
        order  == IF declared # <<>> /\ declared[1] \notin needed THEN Tail(declared) ELSE declared
    IN [err |-> declared = <<>> \/ ~needed \subseteq Range(order), names |-> order]

JoinColumnsMatch(object) == object.parent # <<>> /\ Len(object.parent) = Len(object.foreign)

(* A root's key is read from its fields, in their Go types, a row's from   *)
(* the driver's values; a missing or NULL part leaves the object out.      *)
RootKey(map, root, cols) ==
    LET Prop(col) == LET named == SelectSeq(MapFields(map), LAMBDA f : f.col = col)
                     IN IF named # <<>> THEN named[1].prop ELSE col
        Field(p)  == IF <<p>> \in DOMAIN root THEN root[<<p>>] ELSE SetReflectField(Null, map.type[p])
        props     == [i \in DOMAIN cols |-> Prop(cols[i])]
    IN IF \A p \in Range(props) : p \in DOMAIN map.type /\ Field(p) # Null
       THEN [i \in DOMAIN props |-> Field(props[i])] ELSE <<>>
RowKey(row, cols) ==
    LET stops == {i \in DOMAIN cols : ~Has(row, cols[i]) \/ Of(row, cols[i]) = Null}
    IN [err |-> stops # {} /\ ~Has(row, cols[Min(stops)]),
        key |-> IF stops = {} THEN [i \in DOMAIN cols |-> Of(row, cols[i])] ELSE <<>>]

Attach(acc, p, child, r, row) ==
    LET id == <<r, p.object.prop, ResultObjectKey(p.object.fields, row)>>
        own == [path \in {<<p.object.prop>> \o q : q \in DOMAIN child} |-> child[Tail(path)]]
        rest == {path \in DOMAIN acc.objects[r] : path[1] # p.object.prop}
    IN IF ~p.many THEN [acc EXCEPT !.objects[r] = own @@ [path \in rest |-> @[path]]]
       ELSE IF id \in acc.seen THEN acc
       ELSE [acc EXCEPT !.seen = @ \union {id}, !.objects[r] = WithElement(@, p.object.prop, child)]

ApplyResultSetRow(acc, p, row, map, roots, s) ==
    LET Attached(child, parents) ==
            LET To(all, r) == Attach(all, p, child.objects[1], r, row)
            IN IF child.err THEN [acc EXCEPT !.err = TRUE] ELSE FoldLeft(To, acc, SetToSortSeq(parents, <))
        Child(parents) ==
            IF parents = {} \/ ~ColumnsPresent(Presence(p.object, <<>>), row) THEN acc
            ELSE Attached(ApplyBindings(ElementBindings(p.object, <<>>), row, s), parents)
        Keyed(key) ==
            IF key.err THEN [acc EXCEPT !.err = TRUE]
            ELSE IF key.key = <<>> THEN acc
            ELSE Child({r \in DOMAIN roots : RootKey(map, roots[r], p.object.parent) = key.key})
    IN IF acc.err THEN acc ELSE Keyed(RowKey(row, p.object.foreign))

ScanMappedResultSet(acc, rows, plans, map, s) ==
    LET roots == acc.objects
        Row(all, row) == LET Plan(all2, p) == ApplyResultSetRow(all2, p, row, map, roots, s)
                         IN FoldLeft(Plan, all, plans)
    IN Objects(FoldLeft(Row, [err |-> acc.err, objects |-> roots, seen |-> {}], rows))

(* sets: the rows of the sets behind the first one. *)
ApplyResultSetMappings(roots, sets, map, declared, s) ==
    LET plans == ResultSetPlans(map)
        order == ResultSetOrder(declared, plans)
        One(acc, i) == ScanMappedResultSet(acc, sets[i], SelectSeq(plans, LAMBDA p : p.object.set = order.names[i]), map, s)
    IN IF roots.err \/ roots.objects = <<>> \/ plans = <<>> THEN roots
       ELSE IF order.err \/ (\E p \in Range(plans) : ~JoinColumnsMatch(p.object)) \/ Len(sets) < Len(order.names) THEN Error
       ELSE FoldLeft(One, roots, [i \in DOMAIN order.names |-> i])

-----------------------------------------------------------------------------
(* Query and QueryOne. query: [map, rows, sets, declared, settings].       *)
ScanRoots(map, rows, s) ==
    IF map.collections # <<>> THEN ScanRowsWithCollections(map, rows, s) ELSE ScanEach(map, rows, s)

(* A map without result sets is its own root, and has none to apply.       *)
ScanRows(q) ==
    ApplyResultSetMappings(ScanRoots(WithoutResultSets(q.map), q.rows, q.settings),
                           q.sets, q.map, q.declared, q.settings)

ScanOne(q) ==
    LET One(all) == IF Len(all.objects) # 1 THEN Error ELSE all
    IN IF HasResultSetMappings(q.map) /\ (WithoutResultSets(q.map).collections # <<>> \/ Len(q.rows) # 1)
       THEN Error ELSE One(ScanRows(q))
===============================================================================
