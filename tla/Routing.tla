-------------------------------- MODULE Routing --------------------------------
(***************************************************************************)
(* Sessions over several data sources (routing.go): a factory opens one of *)
(* each, in the order of their keys, and closes them again when one of     *)
(* them fails; the routing session sends an operation to the source that   *)
(* its context names, or its resolver, or else to the default.             *)
(***************************************************************************)
EXTENDS Naturals, Sequences, SequencesExt, FiniteSets

CONSTANTS
    Factories,    \* [keys: sorted, resolver, default: of the option, "" without, registry: is it given]
    Operations,   \* [kind, statement, key: of the context, or ""]
    StatementCommand, \* statement -> command, of the registry
    MaxOpens      \* bound: sessions opened from one factory

ASSUME RoutingAssumption ==
    /\ MaxOpens \in Nat
    /\ \A f \in Factories : f.keys # <<>> /\ IsInjective(f.keys) /\ "" \notin Range(f.keys)

VARIABLES
    factory,
    phase,      \* "opening", "ready", "failed" or "closed": of the session
    sessions,   \* keys whose session the routing session got
    alive,      \* keys whose session is open
    default,    \* defaultKey
    opens,      \* sessions asked for so far
    routed      \* operations and where they went, or "error" (history)

routingVars == <<factory, phase, sessions, alive, default, opens, routed>>

RoutingInit(choices) ==
    /\ factory \in choices
    /\ phase = "opening" /\ sessions = {} /\ alive = {} /\ default = "" /\ opens = 1 /\ routed = {}

(* The keys that are left, by their places, of which the first is next. *)
Pending == {i \in DOMAIN factory.keys : factory.keys[i] \notin sessions}
ForgetSessions == sessions' = {} /\ UNCHANGED alive
CloseRoutingSessions == sessions' = {} /\ alive' = alive \ sessions

OpenNext ==
    /\ phase = "opening"
    /\ \E i \in Pending :
          /\ \A j \in Pending : i <= j
          /\ sessions' = sessions \union {factory.keys[i]} /\ alive' = alive \union {factory.keys[i]}
    /\ UNCHANGED <<factory, phase, default, opens, routed>>

OpenFails ==                \* the opener returns an error, or no session
    /\ phase = "opening" /\ Pending # {}
    /\ CloseRoutingSessions /\ phase' = "failed"
    /\ UNCHANGED <<factory, default, opens, routed>>

(* The sessions' map is walked in any order: the default is the first key, *)
(* until the one called default comes; an option replaces it.              *)
AnyKey == sessions
DefaultKeys == IF "default" \in sessions THEN {"default"} ELSE sessions
NewRoutingSession ==
    /\ phase = "opening" /\ Pending = {}
    /\ \E key \in DefaultKeys :
          LET chosen == IF factory.default # "" THEN factory.default ELSE key
          IN /\ default' = chosen
             /\ IF chosen \in sessions THEN phase' = "ready" /\ UNCHANGED <<sessions, alive>>
                ELSE phase' = "failed" /\ CloseRoutingSessions
    /\ UNCHANGED <<factory, opens, routed>>

Command(f, op) == IF f.registry /\ op.statement \in DOMAIN StatementCommand
                  THEN StatementCommand[op.statement] ELSE ""
StatementIsWrite(command) == command \in {"insert", "update", "delete", "call"}

(* A resolver is [kind, key] or [kind, read, write]; one by statement is   *)
(* [kind, routes] and leaves the others to the next of the list, its       *)
(* fallback. Without an answer the operation goes to the default.          *)
Decides(part, op) == part.kind = "statement" => op.statement \in DOMAIN part.routes
Choice(f, part, op) ==
    CASE part.kind = "static"     -> part.key
      [] part.kind = "read/write" -> IF op.kind \in {"exec", "call"} \/ StatementIsWrite(Command(f, op))
                                     THEN part.write ELSE part.read
      [] part.kind = "statement"  -> part.routes[op.statement]
Resolver(f, op) ==
    LET deciding == SelectSeq(f.resolver, LAMBDA part : Decides(part, op))
    IN IF deciding = <<>> THEN "" ELSE Choice(f, Head(deciding), op)
Resolve(op) ==
    LET resolved == Resolver(factory, op)
    IN IF op.key # "" THEN op.key ELSE IF resolved # "" THEN resolved ELSE default
Delegate(op) == IF Resolve(op) \in sessions THEN Resolve(op) ELSE "error"

Route(op) ==
    /\ phase = "ready"
    /\ routed' = routed \union {<<op, Delegate(op)>>}
    /\ UNCHANGED <<factory, phase, sessions, alive, default, opens>>

CloseSession ==
    /\ phase = "ready"
    /\ CloseRoutingSessions /\ phase' = "closed"
    /\ UNCHANGED <<factory, default, opens, routed>>

OpenAgain ==
    /\ phase \in {"failed", "closed"} /\ opens < MaxOpens
    /\ phase' = "opening" /\ opens' = opens + 1 /\ default' = ""
    /\ UNCHANGED <<factory, sessions, alive, routed>>

RoutingNext ==
    \/ OpenNext \/ OpenFails \/ NewRoutingSession \/ CloseSession \/ OpenAgain
    \/ \E op \in Operations : Route(op)
RoutingSpec == RoutingInit(Factories) /\ [][RoutingNext]_routingVars

-----------------------------------------------------------------------------
(* NoneLeftOpen: a factory that could not open every session, and a        *)
(* routing session that was closed, leave no session open.                 *)
NoneLeftOpen == phase \in {"failed", "closed"} => alive = {}

(* RoutesAgree: sessions of one factory send an operation to one place,    *)
(* unless nothing names its source and no key is the default's.            *)
RoutesAgree ==
    \A a, b \in routed :
        a[1] = b[1] => \/ a[2] = b[2]
                       \/ /\ a[1].key = "" /\ Resolver(factory, a[1]) = ""
                          /\ factory.default = "" /\ "default" \notin Range(factory.keys)
===============================================================================
