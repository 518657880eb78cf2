---------------------------- MODULE DependencySort ----------------------------
(***************************************************************************)
(* The order in which the handlers of a device twin are invoked:           *)
(* AzureRawHost::HandlerInvokeSequence feeds every registered handler and  *)
(* the dependencies its plugin's manifest lists to DependencySort, which   *)
(* sorts them by Kahn's algorithm or throws.  A list may name any handler, *)
(* registered or not.                                                      *)
(***************************************************************************)
EXTENDS Integers, Sequences, FiniteSets

CONSTANTS
    N,              \* handlers 1 .. N, in the map's order
    MaxDependencies \* bound: length of one handler's list

ASSUME ParametersOK == N \in Nat /\ MaxDependencies \in Nat

Names == 1 .. N

VARIABLES
    handlers,       \* _rawHandlerMap: the handlers registered
    dependencyMap,  \* handler to the list in its manifest
    dMap,           \* name to the handlers that depend on it
    given,          \* handlers given to SetDependenciesMap so far
    dependencies,   \* number of a handler's dependencies not yet in result
    q,              \* handlers whose dependencies are all in result
    todo,           \* dependents of the last dequeued handler still to visit
    result,
    outcome         \* "registering", "giving", "sorting", then "sorted" or "thrown"

registeredVars == <<handlers, dependencyMap>>
sortVars == <<dMap, given, dependencies, q, todo, result, outcome>>

Lists == UNION {[1 .. n -> Names] : n \in 0 .. MaxDependencies}

SortInit ==
    /\ dMap = [a \in Names |-> << >>]
    /\ given = {}
    /\ dependencies = [h \in Names |-> 0]
    /\ q = << >>
    /\ todo = << >>
    /\ result = << >>
    /\ outcome = "registering"

Occurrences(a, list) == Cardinality({i \in 1 .. Len(list) : list[i] = a})

\* The next handler in the map's order; one push_back for each time a name
\* occurs in its list.
SetDependenciesMap ==
    /\ outcome = "giving"
    /\ \E h \in handlers \ given :
         /\ \A k \in handlers \ given : h <= k
         /\ dMap' = [a \in Names |->
                       dMap[a] \o [i \in 1 .. Occurrences(a, dependencyMap[h]) |-> h]]
         /\ given' = given \cup {h}
    /\ UNCHANGED <<registeredVars, dependencies, q, todo, result, outcome>>

\* The handlers without dependencies are queued in the map's order.
StartSort ==
    LET free == {h \in handlers : dependencyMap[h] = << >>}
    IN  /\ outcome = "giving"
        /\ given = handlers
        /\ outcome' = "sorting"
        /\ dependencies' = [h \in Names |-> Len(dependencyMap[h])]
        /\ \E line \in [1 .. Cardinality(free) -> free] :
             /\ \A i, j \in 1 .. Cardinality(free) : i < j => line[i] < line[j]
             /\ q' = line
        /\ UNCHANGED <<registeredVars, dMap, given, todo, result>>

Dequeue ==
    /\ outcome = "sorting"
    /\ todo = << >>
    /\ q # << >>
    /\ q' = Tail(q)
    /\ result' = Append(result, Head(q))
    /\ todo' = dMap[Head(q)]
    /\ UNCHANGED <<registeredVars, dMap, given, dependencies, outcome>>

\* Mutant: a handler is queued as soon as one dependency is met.
VisitDependentEarly ==
    LET v == Head(todo)
    IN  /\ todo # << >>
        /\ todo' = Tail(todo)
        /\ dependencies' = [dependencies EXCEPT ![v] = @ - 1]
        /\ q' = Append(q, v)
        /\ UNCHANGED <<registeredVars, dMap, given, result, outcome>>

VisitDependent ==
    LET v == Head(todo)
    IN  /\ todo # << >>
        /\ todo' = Tail(todo)
        /\ dependencies' = [dependencies EXCEPT ![v] = @ - 1]
        /\ q' = IF dependencies[v] = 1 THEN Append(q, v) ELSE q
        /\ UNCHANGED <<registeredVars, dMap, given, result, outcome>>

Finish ==
    /\ outcome = "sorting"
    /\ todo = << >>
    /\ q = << >>
    /\ outcome' = IF Len(result) = Cardinality(handlers) THEN "sorted" ELSE "thrown"
    /\ UNCHANGED <<registeredVars, dMap, given, dependencies, q, todo, result>>

SortStep == SetDependenciesMap \/ StartSort \/ Dequeue \/ VisitDependent \/ Finish

-----------------------------------------------------------------------------
(* Properties *)

\* Every variable keeps its type; no counter is decremented below zero.
SortTypeOK ==
    /\ handlers \subseteq Names
    /\ dependencyMap \in [Names -> Lists]
    /\ dMap \in [Names -> Seq(Names)]
    /\ given \subseteq Names
    /\ dependencies \in [Names -> 0 .. MaxDependencies]
    /\ q \in Seq(Names)
    /\ todo \in Seq(Names)
    /\ result \in Seq(Names)
    /\ outcome \in {"registering", "giving", "sorting", "sorted", "thrown", "ended"}

Listed(h) == {dependencyMap[h][i] : i \in 1 .. Len(dependencyMap[h])}

(***************************************************************************)
(* No handler is put in the order, nor even queued for it, before all the  *)
(* handlers its manifest lists, and none is put there twice, whatever      *)
(* lists the manifests hold: cyclic, with repetitions, with unknown names. *)
(***************************************************************************)
OrderRespectsDependencies ==
    LET line == result \o q
    IN  \A i \in 1 .. Len(line) :
          /\ \A d \in Listed(line[i]) :
               \E j \in 1 .. Len(result) : j < i /\ result[j] = d
          /\ \A j \in 1 .. Len(line) : line[i] = line[j] => i = j

\* A set of handlers none of which can be the first of the set in any order.
Blocked(S) ==
    S # {} /\ \A h \in S : \E d \in Listed(h) : d \in S \/ d \notin handlers

(***************************************************************************)
(* The sort gives up exactly when no order of all handlers exists.         *)
(***************************************************************************)
ThrowsOnlyIfImpossible ==
    /\ outcome = "thrown" => \E S \in SUBSET handlers : Blocked(S)
    /\ outcome = "sorted" => \A S \in SUBSET handlers : ~Blocked(S)

(***************************************************************************)
(* Both together: what SortDependency promises its caller, for every map   *)
(* of dependencies the manifests can give it.                              *)
(***************************************************************************)
SortIsCorrect == OrderRespectsDependencies /\ ThrowsOnlyIfImpossible

=============================================================================
