----------------------- MODULE PluginRegistrationProofs -----------------------
(***************************************************************************)
(* The sequence of the handlers is an order of all of them, each after     *)
(* those its manifest lists, or empty because there is none; and every     *)
(* handler in it is backed by a loaded plug-in.  Proved for any number of  *)
(* handlers, manifests and entries in their lists.                         *)
(*                                                                         *)
(* The heart is Kahn's algorithm.  Its counters count the entries of a     *)
(* list that are not yet in the result, together with the visits still     *)
(* due for the handler that went there last.                               *)
(***************************************************************************)
EXTENDS PluginRegistration, TLAPS, FunctionTheorems, FiniteSetTheorems, SequenceTheorems

-----------------------------------------------------------------------------
(* Counting the places of a name in a list *)

Places(a, list) == {i \in 1 .. Len(list) : list[i] = a}
Missing(list, R) == {i \in 1 .. Len(list) : list[i] \notin R}

\* A set of numbers moved by n has as many elements as before.
LEMMA ShiftedCount ==
    ASSUME NEW A \in SUBSET Int, IsFiniteSet(A), NEW B \in SUBSET Int, NEW n \in Int,
           \A x \in A : x + n \in B,
           \A y \in B : y - n \in A
    PROVE  IsFiniteSet(B) /\ Cardinality(B) = Cardinality(A)
PROOF
<1> DEFINE f == [x \in A |-> x + n]
<1>1. f \in [A -> B]
    OBVIOUS
<1>2. \A x, y \in A : f[x] = f[y] => x = y
    OBVIOUS
<1>3. \A y \in B : \E x \in A : f[x] = y
  <2> TAKE y \in B
  <2>1. y - n \in A /\ f[y - n] = y
      OBVIOUS
  <2> QED BY <2>1
<1>4. f \in Bijection(A, B)
    BY <1>1, <1>2, <1>3, Fun_IsBij
<1> QED BY <1>4, FS_Bijection, Fun_ExistsBij

\* The places in a list, and those of them with some property, are finite.
LEMMA FinitePlaces ==
    ASSUME NEW list, Len(list) \in Nat, NEW P \in SUBSET (1 .. Len(list))
    PROVE  IsFiniteSet(P) /\ Cardinality(P) \in Nat /\ (Cardinality(P) = 0 <=> P = {})
PROOF
<1>1. IsFiniteSet(1 .. Len(list))
    BY FS_Interval
<1>2. IsFiniteSet(P)
    BY <1>1, FS_Subset
<1> QED BY <1>2, FS_CardinalityType, FS_EmptySet

\* The number of occurrences is a number, and is zero if there are none.
LEMMA OccurrencesType ==
    ASSUME NEW list, Len(list) \in Nat, NEW a
    PROVE  /\ IsFiniteSet(Places(a, list))
           /\ Occurrences(a, list) = Cardinality(Places(a, list))
           /\ Occurrences(a, list) \in Nat
           /\ Occurrences(a, list) = 0 <=> \A i \in 1 .. Len(list) : list[i] # a
PROOF
<1>1. Places(a, list) \in SUBSET (1 .. Len(list))
    BY DEF Places
<1>2. Occurrences(a, list) = Cardinality(Places(a, list))
    BY DEF Occurrences, Places
<1>3. Places(a, list) = {} <=> \A i \in 1 .. Len(list) : list[i] # a
    BY DEF Places
<1> QED BY <1>1, <1>2, <1>3, FinitePlaces

\* An empty list has no occurrences.
LEMMA NoOccurrences ==
    ASSUME NEW list, Len(list) = 0, NEW a
    PROVE  Occurrences(a, list) = 0
PROOF
<1>1. {i \in 1 .. Len(list) : list[i] = a} = {}
    OBVIOUS
<1> QED BY <1>1, FS_EmptySet DEF Occurrences

\* The number of missing entries is a number, and is zero if none is missing.
LEMMA MissingType ==
    ASSUME NEW list, Len(list) \in Nat, NEW R
    PROVE  /\ IsFiniteSet(Missing(list, R))
           /\ Cardinality(Missing(list, R)) \in Nat
           /\ Cardinality(Missing(list, R)) = 0 <=> \A i \in 1 .. Len(list) : list[i] \in R
PROOF
<1>1. Missing(list, R) \in SUBSET (1 .. Len(list))
    BY DEF Missing
<1>2. Missing(list, R) = {} <=> \A i \in 1 .. Len(list) : list[i] \in R
    BY DEF Missing
<1> QED BY <1>1, <1>2, FinitePlaces

\* Without its head a list has one occurrence less of the head, and as many of
\* every other name.
LEMMA OccurrencesTail ==
    ASSUME NEW S, NEW s \in Seq(S), s # << >>, NEW a
    PROVE  /\ a = Head(s) => Occurrences(a, s) = Occurrences(a, Tail(s)) + 1
           /\ a # Head(s) => Occurrences(a, s) = Occurrences(a, Tail(s))
PROOF
<1> DEFINE rest == Places(a, s) \ {1}
<1>1. /\ Len(s) \in Nat /\ Len(s) > 0
      /\ Len(Tail(s)) = Len(s) - 1
      /\ \A i \in 1 .. Len(Tail(s)) : Tail(s)[i] = s[i + 1]
      /\ Head(s) = s[1]
    BY LenProperties, EmptySeq, HeadTailProperties
<1>2. /\ IsFiniteSet(Places(a, s)) /\ IsFiniteSet(Places(a, Tail(s)))
      /\ Occurrences(a, s) = Cardinality(Places(a, s))
      /\ Occurrences(a, Tail(s)) = Cardinality(Places(a, Tail(s)))
      /\ Cardinality(Places(a, s)) \in Nat
  <2>1. Len(Tail(s)) \in Nat
      BY <1>1
  <2>2. IsFiniteSet(Places(a, Tail(s)))
        /\ Occurrences(a, Tail(s)) = Cardinality(Places(a, Tail(s)))
      BY <2>1, OccurrencesType
  <2>3. /\ IsFiniteSet(Places(a, s))
        /\ Occurrences(a, s) = Cardinality(Places(a, s))
        /\ Occurrences(a, s) \in Nat
      BY <1>1, OccurrencesType
  <2> QED BY <2>2, <2>3
<1>3. Places(a, Tail(s)) \in SUBSET Int /\ rest \in SUBSET Int
    BY <1>1 DEF Places
<1>4. \A x \in Places(a, Tail(s)) : x + 1 \in rest
    BY <1>1 DEF Places
<1>5. \A y \in rest : y - 1 \in Places(a, Tail(s))
  <2> TAKE y \in rest
  <2>1. y \in 1 .. Len(s) /\ y # 1 /\ s[y] = a
      BY DEF Places
  <2>2. y - 1 \in 1 .. Len(Tail(s))
      BY <1>1, <2>1
  <2>3. Tail(s)[y - 1] = s[(y - 1) + 1] /\ (y - 1) + 1 = y
      BY <1>1, <2>1, <2>2
  <2> QED BY <2>1, <2>2, <2>3 DEF Places
<1>6. Cardinality(rest) = Cardinality(Places(a, Tail(s)))
  <2> HIDE DEF rest
  <2>1. 1 \in Int
      OBVIOUS
  <2> QED BY <1>2, <1>3, <1>4, <1>5, <2>1, ShiftedCount
<1>7. 1 \in Places(a, s) <=> a = Head(s)
    BY <1>1 DEF Places
<1>8. Cardinality(rest) = IF 1 \in Places(a, s) THEN Cardinality(Places(a, s)) - 1
                          ELSE Cardinality(Places(a, s))
    BY <1>2, FS_RemoveElement
<1> QED BY <1>2, <1>6, <1>7, <1>8

\* n entries h at the end of a list are n occurrences more of h.
LEMMA OccurrencesConcat ==
    ASSUME NEW S, NEW s \in Seq(S), NEW h \in S, NEW n \in Nat, NEW a
    PROVE  Occurrences(a, s \o [i \in 1 .. n |-> h]) =
             Occurrences(a, s) + (IF a = h THEN n ELSE 0)
PROOF
<1> DEFINE t == [i \in 1 .. n |-> h]
           new == (Len(s) + 1) .. (Len(s) + n)
           more == IF a = h THEN new ELSE {}
<1>1. t \in Seq(S) /\ Len(t) = n
    OBVIOUS
<1>2. /\ Len(s) \in Nat
      /\ Len(s \o t) = Len(s) + n
      /\ \A i \in 1 .. Len(s) + n : (s \o t)[i] = IF i <= Len(s) THEN s[i] ELSE t[i - Len(s)]
    BY <1>1, ConcatProperties, LenProperties
<1>3. \A i \in new : (s \o t)[i] = h
    BY <1>2
<1>4. Places(a, s \o t) = Places(a, s) \cup more
    BY <1>2, <1>3 DEF Places
<1>5. Places(a, s) \cap more = {}
    BY <1>2 DEF Places
<1>6. IsFiniteSet(more) /\ Cardinality(more) = IF a = h THEN n ELSE 0
  <2>1. /\ IsFiniteSet(new)
        /\ Cardinality(new) = IF Len(s) + 1 > Len(s) + n THEN 0
                                 ELSE (Len(s) + n) - (Len(s) + 1) + 1
    <3>1. Len(s) + 1 \in Int /\ Len(s) + n \in Int
        BY <1>2
    <3> QED BY <3>1, FS_Interval
  <2>2. Cardinality(new) = n
      BY <1>2, <2>1
  <2> QED BY <2>1, <2>2, FS_EmptySet
<1>7. /\ IsFiniteSet(Places(a, s))
      /\ Occurrences(a, s) = Cardinality(Places(a, s))
      /\ Occurrences(a, s) \in Nat
      /\ Occurrences(a, s \o t) = Cardinality(Places(a, s \o t))
  <2>1. Len(s \o t) \in Nat
      BY <1>2
  <2> HIDE DEF t
  <2>2. Occurrences(a, s \o t) = Cardinality(Places(a, s \o t))
      BY <2>1, OccurrencesType
  <2> QED BY <1>2, <2>2, OccurrencesType
<1>8. Cardinality(Places(a, s) \cup more)
        = Cardinality(Places(a, s)) + Cardinality(more) - Cardinality(Places(a, s) \cap more)
    BY <1>6, <1>7, FS_Union
<1>9. Cardinality(Places(a, s) \cap more) = 0
    BY <1>5, FS_EmptySet
<1> HIDE DEF more, t
<1>10. Cardinality(Places(a, s \o t)) = Cardinality(Places(a, s)) + Cardinality(more)
    BY <1>4, <1>6, <1>7, <1>8, <1>9
<1> QED BY <1>6, <1>7, <1>10 DEF t

\* A name that joins the set accounts for its occurrences in the list.
LEMMA MissingLess ==
    ASSUME NEW list, Len(list) \in Nat, NEW R, NEW x, x \notin R
    PROVE  Cardinality(Missing(list, R)) =
             Cardinality(Missing(list, R \cup {x})) + Occurrences(x, list)
PROOF
<1>1. Missing(list, R) = Missing(list, R \cup {x}) \cup Places(x, list)
    BY DEF Missing, Places
<1>2. Missing(list, R \cup {x}) \cap Places(x, list) = {}
    BY DEF Missing, Places
<1>3. /\ IsFiniteSet(Missing(list, R \cup {x}))
      /\ Cardinality(Missing(list, R \cup {x})) \in Nat
      /\ IsFiniteSet(Places(x, list))
      /\ Occurrences(x, list) = Cardinality(Places(x, list))
      /\ Occurrences(x, list) \in Nat
    BY MissingType, OccurrencesType
<1>4. Cardinality(Missing(list, R \cup {x}) \cap Places(x, list)) = 0
    BY <1>2, FS_EmptySet
<1>5. Cardinality(Missing(list, R \cup {x}) \cup Places(x, list))
        = Cardinality(Missing(list, R \cup {x})) + Cardinality(Places(x, list))
            - Cardinality(Missing(list, R \cup {x}) \cap Places(x, list))
    BY <1>3, FS_Union
<1> QED BY <1>1, <1>3, <1>4, <1>5

-----------------------------------------------------------------------------
(* The inductive invariant *)

Started == outcome \in {"sorting", "sorted", "thrown"}
Ranked == {result[i] : i \in 1 .. Len(result)}
Line == result \o q
InLine == {Line[i] : i \in 1 .. Len(Line)}

\* A handler is among the dependents of a name as often as it lists it.
DependentsInv ==
    /\ outcome = "registering" => given = {}
    /\ Started => given = handlers
    /\ \A a, h \in Names :
         Occurrences(h, dMap[a]) =
           IF h \in given THEN Occurrences(a, dependencyMap[h]) ELSE 0

\* Nothing is queued before the sort or visited outside it.
IdleInv ==
    /\ outcome \in {"registering", "giving"} => q = << >> /\ result = << >>
    /\ todo # << >> => outcome = "sorting"

\* What a handler's counter counts, and what becomes of a handler whose
\* counter is zero.
CounterInv ==
    Started =>
      /\ \A i \in 1 .. Len(todo) : todo[i] \in handlers
      /\ \A h \in handlers :
           dependencies[h] =
             Cardinality(Missing(dependencyMap[h], Ranked)) + Occurrences(h, todo)
      /\ \A h \in Names : h \in InLine <=> h \in handlers /\ dependencies[h] = 0

\* OrderRespectsDependencies, without the set of the names in a list.
OrderInv ==
    \A i \in 1 .. Len(Line) :
      /\ \A k \in 1 .. Len(dependencyMap[Line[i]]) :
           \E j \in 1 .. Len(result) : j < i /\ result[j] = dependencyMap[Line[i]][k]
      /\ \A j \in 1 .. Len(Line) : Line[i] = Line[j] => i = j

\* No member of a blocked set gets into the line.
BlockedInv ==
    Started => \A S \in SUBSET handlers : Blocked(S) => S \cap InLine = {}

\* A sort that does not throw has placed every handler.
SortedInv == outcome = "sorted" => Ranked = handlers

SortInv ==
    /\ SortTypeOK /\ DependentsInv /\ IdleInv /\ CounterInv /\ BlockedInv /\ SortedInv
    /\ OrderInv /\ ThrowsOnlyIfImpossible

AtManifest == {"launch", "load", "host", "hostLoaded", "hung", "info", "register"}
Over == {"unload", "ended", "crashed"}

\* Where the agent is, in terms of the sort.
StepInv ==
    /\ step \in AtManifest \cup {"static", "next"} => outcome = "registering"
    /\ step \in Over => outcome = "ended"
    /\ step = "static" => handlers = {} /\ owner = [h \in Names |-> 0]

\* What is known of the plug-in being loaded, and of those that are.
PluginInv ==
    /\ \A p \in pluginsMap :
         p <= manifest /\ found[p] = Len(EntryPoints(kindOf[p]))
    /\ step \in AtManifest => manifest # 0 /\ manifest \notin pluginsMap
    /\ step \in {"launch", "host", "hostLoaded"} => kindOf[manifest] = "outOfProc"
    /\ step \in {"hostLoaded", "info", "register"} =>
         found[manifest] = Len(EntryPoints(kindOf[manifest]))

\* Who a registered handler belongs to.
OwnerInv ==
    step \notin Over =>
      \A h \in handlers :
        \/ h \in Static /\ owner[h] = 0
        \/ owner[h] \in pluginsMap
        \/ owner[h] = manifest /\ step = "register"

RegistrationInv == RegistrationTypeOK /\ StepInv /\ PluginInv /\ OwnerInv

IInv == SortInv /\ RegistrationInv

-----------------------------------------------------------------------------
(* The sort *)

\* Lists have a length, and empty sequences no elements.
LEMMA ListType ==
    ASSUME NEW list \in Lists
    PROVE  list \in Seq(Names) /\ Len(list) \in Nat /\ Len(list) <= MaxDependencies
PROOF
<1>1. PICK n \in 0 .. MaxDependencies : list \in [1 .. n -> Names]
    BY DEF Lists
<1>2. n \in Nat
    BY ParametersOK
<1> QED BY <1>1, <1>2

\* While nothing is placed or queued the line is empty.
LEMMA EmptyLine ==
    ASSUME q = << >>, result = << >>
    PROVE  Line = << >> /\ Len(Line) = 0 /\ InLine = {} /\ Ranked = {} /\ OrderInv
PROOF
<1>1. Line = << >>
    BY DEF Line
<1>2. Len(<< >>) = 0
    OBVIOUS
<1> QED BY <1>1, <1>2 DEF InLine, Line, Ranked, OrderInv

\* The invariant's form of the order is the property.
LEMMA OrderMeans == OrderInv => OrderRespectsDependencies
PROOF
<1>1. ASSUME OrderInv, NEW i \in 1 .. Len(Line), NEW d \in Listed(Line[i])
      PROVE  \E j \in 1 .. Len(result) : j < i /\ result[j] = d
  <2>1. PICK k \in 1 .. Len(dependencyMap[Line[i]]) : d = dependencyMap[Line[i]][k]
      BY DEF Listed
  <2> QED BY <1>1, <2>1 DEF OrderInv
<1>2. ASSUME OrderInv, NEW i \in 1 .. Len(Line)
      PROVE  \A j \in 1 .. Len(Line) : Line[i] = Line[j] => i = j
    BY <1>2 DEF OrderInv
<1> QED BY <1>1, <1>2 DEF OrderRespectsDependencies, Line

\* The order is not disturbed by what leaves the line and the lists alone.
LEMMA OrderFrame ==
    /\ OrderInv
    /\ Line' = Line /\ result' = result /\ dependencyMap' = dependencyMap
    => OrderInv'
PROOF
BY DEF OrderInv

\* Where the elements of the line are.
LEMMA LineParts ==
    ASSUME SortTypeOK
    PROVE  /\ Line \in Seq(Names)
           /\ Len(result) \in Nat /\ Len(q) \in Nat /\ Len(Line) = Len(result) + Len(q)
           /\ \A i \in 1 .. Len(Line) : Line[i] \in Names
           /\ \A i \in 1 .. Len(result) : Line[i] = result[i]
           /\ \A i \in 1 .. Len(q) : Line[Len(result) + i] = q[i]
           /\ Ranked \subseteq InLine
           /\ InLine \subseteq Names
PROOF
<1>1. result \in Seq(Names) /\ q \in Seq(Names)
    BY DEF SortTypeOK
<1>2. /\ Line \in Seq(Names)
      /\ Len(result) \in Nat /\ Len(q) \in Nat /\ Len(Line) = Len(result) + Len(q)
      /\ \A i \in 1 .. Len(result) + Len(q) :
           Line[i] = IF i <= Len(result) THEN result[i] ELSE q[i - Len(result)]
    BY <1>1, ConcatProperties, LenProperties DEF Line
<1>3. \A i \in 1 .. Len(Line) : Line[i] \in Names
    BY <1>2, ElementOfSeq
<1>4. \A i \in 1 .. Len(result) : i \in 1 .. Len(Line) /\ Line[i] = result[i]
    BY <1>2
<1>5. \A i \in 1 .. Len(q) : Line[Len(result) + i] = q[i]
  <2> TAKE i \in 1 .. Len(q)
  <2>1. /\ Len(result) + i \in 1 .. Len(result) + Len(q)
        /\ ~(Len(result) + i <= Len(result))
        /\ (Len(result) + i) - Len(result) = i
      BY <1>2
  <2> QED BY <1>2, <2>1
<1>6. Ranked \subseteq InLine
    BY <1>4 DEF Ranked, InLine
<1>7. InLine \subseteq Names
    BY <1>3 DEF InLine
<1> QED BY <1>2, <1>3, <1>4, <1>5, <1>6, <1>7

\* Giving one handler's list adds the handler once for each entry.
LEMMA GivingKeepsSortInv == SortInv /\ SetDependenciesMap => SortInv'
PROOF
<1> SUFFICES ASSUME SortInv, SetDependenciesMap PROVE SortInv'
    OBVIOUS
<1> USE DEF SetDependenciesMap
<1>1. PICK h \in handlers \ given :
        /\ dMap' = [a \in Names |->
                      dMap[a] \o [i \in 1 .. Occurrences(a, dependencyMap[h]) |-> h]]
        /\ given' = given \cup {h}
    OBVIOUS
<1>2. /\ outcome = "giving" /\ outcome' = outcome
      /\ handlers' = handlers /\ dependencyMap' = dependencyMap
      /\ dependencies' = dependencies /\ q' = q /\ todo' = todo /\ result' = result
    BY DEF registeredVars
<1>3. q = << >> /\ result = << >> /\ todo = << >>
    BY <1>2 DEF SortInv, IdleInv
<1>4. h \in Names /\ dependencyMap[h] \in Lists /\ dependencyMap[h] \in Seq(Names)
      /\ Len(dependencyMap[h]) \in Nat
    BY <1>1, ListType DEF SortInv, SortTypeOK
<1>5. \A a \in Names : dMap[a] \in Seq(Names) /\ Occurrences(a, dependencyMap[h]) \in Nat
    BY <1>4, OccurrencesType DEF SortInv, SortTypeOK
<1>6. dMap' \in [Names -> Seq(Names)]
  <2>1. ASSUME NEW a \in Names
        PROVE  dMap[a] \o [i \in 1 .. Occurrences(a, dependencyMap[h]) |-> h] \in Seq(Names)
    <3>1. [i \in 1 .. Occurrences(a, dependencyMap[h]) |-> h] \in Seq(Names)
        BY <1>4, <1>5
    <3> QED BY <1>5, <3>1
  <2> QED BY <1>1, <2>1
<1>7. SortTypeOK'
    BY <1>1, <1>2, <1>4, <1>6 DEF SortInv, SortTypeOK
<1>8. ASSUME NEW a \in Names, NEW k \in Names
      PROVE  Occurrences(k, dMap'[a])
               = IF k \in given' THEN Occurrences(a, dependencyMap[k]) ELSE 0
  <2>1. Occurrences(k, dMap'[a])
          = Occurrences(k, dMap[a])
              + (IF k = h THEN Occurrences(a, dependencyMap[h]) ELSE 0)
      BY <1>1, <1>4, <1>5, OccurrencesConcat
  <2>2. Occurrences(k, dMap[a])
          = IF k \in given THEN Occurrences(a, dependencyMap[k]) ELSE 0
      BY DEF SortInv, DependentsInv
  <2>3. CASE k = h
      BY <1>1, <1>5, <2>1, <2>2, <2>3
  <2>4. CASE k # h
    <3>1. Occurrences(k, dMap[a]) \in Nat
        BY <1>5, LenProperties, OccurrencesType
    <3> QED BY <1>1, <2>1, <2>2, <2>4, <3>1
  <2> QED BY <2>3, <2>4
<1>9. DependentsInv'
    BY <1>2, <1>8 DEF DependentsInv, Started
<1>10. (IdleInv /\ CounterInv /\ BlockedInv /\ SortedInv)'
    BY <1>2, <1>3 DEF IdleInv, CounterInv, BlockedInv, SortedInv, Started
<1>11. OrderInv'
  <2>1. Line' = Line
      BY <1>2 DEF Line
  <2> QED BY <1>2, <2>1, OrderFrame DEF SortInv
<1>12. ThrowsOnlyIfImpossible'
    BY <1>2 DEF ThrowsOnlyIfImpossible
<1> QED BY <1>7, <1>9, <1>10, <1>11, <1>12 DEF SortInv

\* The handlers without dependencies are the first in the line.
LEMMA StartingKeepsSortInv == SortInv /\ StartSort => SortInv'
PROOF
<1> SUFFICES ASSUME SortInv, StartSort PROVE SortInv'
    OBVIOUS
<1> DEFINE free == {h \in handlers : dependencyMap[h] = << >>}
           n == Cardinality(free)
<1>1. /\ outcome = "giving" /\ outcome' = "sorting" /\ given = handlers
      /\ handlers' = handlers /\ dependencyMap' = dependencyMap
      /\ dMap' = dMap /\ given' = given /\ todo' = todo /\ result' = result
      /\ dependencies' = [h \in Names |-> Len(dependencyMap[h])]
    BY DEF StartSort, registeredVars
<1>2. PICK line \in [1 .. n -> free] :
        /\ \A i, j \in 1 .. n : i < j => line[i] < line[j]
        /\ q' = line
    BY DEF StartSort
<1>3. q = << >> /\ result = << >> /\ todo = << >>
    BY <1>1 DEF SortInv, IdleInv
<1>4. /\ handlers \subseteq Names
      /\ \A h \in Names : /\ dependencyMap[h] \in Seq(Names)
                          /\ Len(dependencyMap[h]) \in 0 .. MaxDependencies
    BY ListType, ParametersOK DEF SortInv, SortTypeOK
<1>5. IsFiniteSet(Names) /\ IsFiniteSet(free) /\ n \in Nat /\ free \subseteq Names
  <2>1. IsFiniteSet(Names)
      BY ParametersOK, FS_Interval DEF Names
  <2>2. free \subseteq Names
      BY <1>4
  <2>3. IsFiniteSet(free)
      BY <2>1, <2>2, FS_Subset
  <2> QED BY <2>1, <2>2, <2>3, FS_CardinalityType
<1> HIDE DEF n
<1>6. \A i \in 1 .. n : line[i] \in Int
    BY <1>5 DEF Names
<1>7. \A i, j \in 1 .. n : line[i] = line[j] => i = j
  <2> SUFFICES ASSUME NEW i \in 1 .. n, NEW j \in 1 .. n, line[i] = line[j], i # j
               PROVE  FALSE
      OBVIOUS
  <2>1. i < j \/ j < i
      OBVIOUS
  <2>2. line[i] < line[j] \/ line[j] < line[i]
      BY <1>2, <2>1
  <2> QED BY <1>6, <2>2
<1>8. {line[i] : i \in 1 .. n} = free
  <2>1. IsFiniteSet(1 .. n) /\ Cardinality(1 .. n) = n
      BY <1>5, FS_Interval
  <2>2. line \in Injection(1 .. n, free)
      BY <1>7, Fun_IsInj
  <2>3. line \in Surjection(1 .. n, free)
      BY <1>5, <2>1, <2>2, FS_Injection DEF n
  <2>4. \A h \in free : \E i \in 1 .. n : line[i] = h
    <3> HIDE DEF free
    <3> QED BY <2>3 DEF Surjection
  <2> QED BY <2>4
<1>9. q' \in Seq(Names) /\ Len(q') = n
    BY <1>2, <1>5
<1>10. Line' = line /\ Len(Line') = n
    BY <1>1, <1>2, <1>3, <1>9, ConcatEmptySeq DEF Line
<1>11. InLine' = free
    BY <1>8, <1>10 DEF InLine
<1>12. SortTypeOK'
    BY <1>1, <1>4, <1>9 DEF SortInv, SortTypeOK
<1>13. (DependentsInv /\ IdleInv /\ SortedInv)'
    BY <1>1, <1>3 DEF SortInv, DependentsInv, IdleInv, SortedInv, Started
<1>14. Ranked' = {} /\ Len(todo') = 0
    BY <1>1, <1>3 DEF Ranked
<1>15. CounterInv'
  <2>1. ASSUME NEW h \in handlers
        PROVE  dependencies'[h]
                 = Cardinality(Missing(dependencyMap[h], {})) + Occurrences(h, todo')
    <3>1. Occurrences(h, todo') = 0
        BY <1>14, NoOccurrences
    <3>2. Missing(dependencyMap[h], {}) = 1 .. Len(dependencyMap[h])
        BY DEF Missing
    <3>3. Len(dependencyMap[h]) \in Nat
        BY <1>4, ParametersOK
    <3>4. Cardinality(1 .. Len(dependencyMap[h])) = Len(dependencyMap[h])
        BY <3>3, FS_Interval
    <3>5. dependencies'[h] = Len(dependencyMap[h])
        BY <1>1, <1>4
    <3> QED BY <3>1, <3>2, <3>3, <3>4, <3>5
  <2>2. ASSUME NEW h \in Names
        PROVE  h \in InLine' <=> h \in handlers /\ dependencies'[h] = 0
    <3>1. dependencies'[h] = Len(dependencyMap[h]) /\ dependencyMap[h] \in Seq(Names)
        BY <1>1, <1>4
    <3>2. dependencyMap[h] = << >> <=> Len(dependencyMap[h]) = 0
        BY <3>1, EmptySeq
    <3>3. h \in free <=> h \in handlers /\ Len(dependencyMap[h]) = 0
        BY <3>2
    <3> HIDE DEF free
    <3> QED BY <1>11, <3>1, <3>3
  <2>3. \A i \in 1 .. Len(todo') : todo'[i] \in handlers'
      BY <1>14
  <2>4. \A h \in handlers' :
          dependencies'[h]
            = Cardinality(Missing(dependencyMap'[h], Ranked')) + Occurrences(h, todo')
      BY <1>1, <1>14, <2>1
  <2>5. \A h \in Names : h \in InLine' <=> h \in handlers' /\ dependencies'[h] = 0
      BY <1>1, <2>2
  <2> QED BY <2>3, <2>4, <2>5 DEF CounterInv
<1>16. \A h \in free : Listed(h) = {}
    BY DEF Listed
<1>17. BlockedInv'
  <2>1. ASSUME NEW S \in SUBSET handlers, Blocked(S) PROVE S \cap free = {}
      BY <1>16, <2>1 DEF Blocked
  <2>2. \A S \in SUBSET handlers : Blocked(S)' <=> Blocked(S)
      BY <1>1 DEF Blocked, Listed
  <2> QED BY <1>1, <1>11, <2>1, <2>2 DEF BlockedInv
<1>18. OrderInv'
  <2>1. \A i \in 1 .. n : dependencyMap[line[i]] = << >>
      BY <1>2
  <2>2. \A i \in 1 .. n : Len(dependencyMap[line[i]]) = 0
    <3>1. Len(<< >>) = 0
        OBVIOUS
    <3> QED BY <2>1, <3>1
  <2> QED BY <1>1, <1>7, <1>10, <2>2 DEF OrderInv
<1>19. ThrowsOnlyIfImpossible'
    BY <1>1 DEF ThrowsOnlyIfImpossible
<1> QED BY <1>12, <1>13, <1>15, <1>17, <1>18, <1>19 DEF SortInv

\* The line stays; its first queued handler is now placed, and its dependents
\* are to be visited.
LEMMA DequeuingKeepsSortInv == SortInv /\ Dequeue => SortInv'
PROOF
<1> SUFFICES ASSUME SortInv, Dequeue PROVE SortInv'
    OBVIOUS
<1> DEFINE x == Head(q)
<1>1. /\ outcome = "sorting" /\ outcome' = outcome /\ todo = << >> /\ q # << >>
      /\ q' = Tail(q) /\ result' = Append(result, x) /\ todo' = dMap[x]
      /\ handlers' = handlers /\ dependencyMap' = dependencyMap
      /\ dMap' = dMap /\ given' = given /\ dependencies' = dependencies
    BY DEF Dequeue, registeredVars
<1>2. /\ SortTypeOK /\ result \in Seq(Names) /\ q \in Seq(Names)
      /\ dMap \in [Names -> Seq(Names)] /\ dependencyMap \in [Names -> Lists]
      /\ handlers \subseteq Names
    BY DEF SortInv, SortTypeOK
<1>3. /\ x \in Names /\ q[1] = x /\ Len(q) > 0
      /\ q' \in Seq(Names) /\ Len(q') = Len(q) - 1
      /\ \A i \in 1 .. Len(q') : q'[i] = q[i + 1]
    BY <1>1, <1>2, EmptySeq, HeadTailProperties
<1>4. /\ result' \in Seq(Names) /\ Len(result') = Len(result) + 1
      /\ \A i \in 1 .. Len(result) : result'[i] = result[i]
      /\ result'[Len(result) + 1] = x
    BY <1>1, <1>2, <1>3, AppendProperties
<1>5. dMap[x] \in Seq(Names)
    BY <1>2, <1>3
<1>6. SortTypeOK'
    BY <1>1, <1>3, <1>4, <1>5 DEF SortInv, SortTypeOK
<1> HIDE DEF x
<1>7. Line' = Line
  <2>1. <<x>> \in Seq(Names) /\ <<x>> \o q' = q
      BY <1>1, <1>2, <1>3 DEF x
  <2>2. result' = result \o <<x>>
      BY <1>1, <1>2, <1>3, AppendIsConcat
  <2>3. (result \o <<x>>) \o q' = result \o (<<x>> \o q')
    <3> DEFINE one == <<x>>
    <3>1. result \in Seq(Names) /\ one \in Seq(Names) /\ q' \in Seq(Names)
        BY <1>2, <1>3, <2>1
    <3> HIDE DEF one
    <3>2. (result \o one) \o q' = result \o (one \o q')
        BY <3>1, ConcatAssociative
    <3> QED BY <3>2 DEF one
  <2> QED BY <2>1, <2>2, <2>3 DEF Line
<1>8. InLine' = InLine
    BY <1>7 DEF InLine
<1>9. Ranked' = Ranked \cup {x}
  <2>0. Len(result) \in Nat
      BY <1>2, LenProperties
  <2>1. \A i \in 1 .. Len(result') : i \in 1 .. Len(result) \/ i = Len(result) + 1
      BY <1>4, <2>0
  <2>2. \A i \in 1 .. Len(result) : i \in 1 .. Len(result')
      BY <1>4, <2>0
  <2>3. Len(result) + 1 \in 1 .. Len(result')
      BY <1>4, <2>0
  <2>4. \A i \in 1 .. Len(result') : result'[i] \in Ranked \cup {x}
      BY <1>4, <2>1 DEF Ranked
  <2>5. Ranked \subseteq Ranked'
      BY <1>4, <2>2 DEF Ranked
  <2>6. x \in Ranked'
      BY <1>4, <2>3 DEF Ranked
  <2> QED BY <2>4, <2>5, <2>6 DEF Ranked
<1>10. x \notin Ranked
  <2> SUFFICES ASSUME NEW i \in 1 .. Len(result), result[i] = x PROVE FALSE
      BY DEF Ranked
  <2>1. /\ Len(result) \in Nat /\ Len(q) \in Nat /\ Len(Line) = Len(result) + Len(q)
        /\ Line[i] = x
        /\ \A k \in 1 .. Len(q) : Line[Len(result) + k] = q[k]
      BY <1>2, LineParts
  <2>2. i \in 1 .. Len(Line) /\ Len(result) + 1 \in 1 .. Len(Line)
      BY <1>3, <2>1
  <2>3. Line[Len(result) + 1] = x
      BY <1>3, <2>1
  <2>4. i = Len(result) + 1
      BY <2>1, <2>2, <2>3 DEF SortInv, OrderInv
  <2> QED BY <2>1, <2>4
<1>11. (DependentsInv /\ IdleInv /\ SortedInv)'
    BY <1>1 DEF SortInv, DependentsInv, IdleInv, SortedInv, Started
<1>12. given = handlers /\ Started
    BY <1>1 DEF SortInv, DependentsInv, Started
<1>13. CounterInv'
  <2>1. ASSUME NEW h \in Names
        PROVE  Occurrences(h, dMap[x])
                 = IF h \in handlers THEN Occurrences(x, dependencyMap[h]) ELSE 0
      BY <1>3, <1>12 DEF SortInv, DependentsInv
  <2>2. ASSUME NEW i \in 1 .. Len(dMap[x]) PROVE dMap[x][i] \in handlers
    <3>1. dMap[x][i] \in Names /\ Len(dMap[x]) \in Nat
        BY <1>5, ElementOfSeq, LenProperties
    <3>2. Occurrences(dMap[x][i], dMap[x]) # 0
        BY <3>1, OccurrencesType
    <3> QED BY <2>1, <3>1, <3>2
  <2>3. ASSUME NEW h \in handlers
        PROVE  dependencies[h] = Cardinality(Missing(dependencyMap[h], Ranked \cup {x}))
                                   + Occurrences(h, dMap[x])
    <3>1. Len(dependencyMap[h]) \in Nat /\ h \in Names
        BY <1>2, ListType
    <3>2. dependencies[h]
            = Cardinality(Missing(dependencyMap[h], Ranked)) + Occurrences(h, todo)
        BY <1>12 DEF SortInv, CounterInv
    <3>3. Occurrences(h, todo) = 0
      <4>1. Len(todo) = 0
          BY <1>1
      <4> QED BY <4>1, NoOccurrences
    <3>4. Cardinality(Missing(dependencyMap[h], Ranked)) =
            Cardinality(Missing(dependencyMap[h], Ranked \cup {x}))
              + Occurrences(x, dependencyMap[h])
        BY <1>10, <3>1, MissingLess
    <3>5. /\ Cardinality(Missing(dependencyMap[h], Ranked \cup {x})) \in Nat
          /\ Occurrences(x, dependencyMap[h]) \in Nat
        BY <3>1, MissingType, OccurrencesType
    <3> QED BY <2>1, <3>1, <3>2, <3>3, <3>4, <3>5
  <2>4. \A h \in Names : h \in InLine <=> h \in handlers /\ dependencies[h] = 0
      BY <1>12 DEF SortInv, CounterInv
  <2> QED BY <1>1, <1>8, <1>9, <2>2, <2>3, <2>4 DEF CounterInv
<1>14. BlockedInv'
  <2>1. \A S \in SUBSET handlers : Blocked(S)' <=> Blocked(S)
      BY <1>1 DEF Blocked, Listed
  <2> QED BY <1>1, <1>8, <1>12, <2>1 DEF SortInv, BlockedInv
<1>15. OrderInv'
  <2>1. ASSUME NEW i \in 1 .. Len(Line), NEW k \in 1 .. Len(dependencyMap[Line[i]])
        PROVE  \E j \in 1 .. Len(result') :
                 j < i /\ result'[j] = dependencyMap[Line[i]][k]
    <3>1. PICK j \in 1 .. Len(result) : j < i /\ result[j] = dependencyMap[Line[i]][k]
        BY DEF SortInv, OrderInv
    <3>2. Len(result) \in Nat
        BY <1>2, LenProperties
    <3>3. j \in 1 .. Len(result') /\ result'[j] = result[j]
        BY <1>4, <3>2
    <3> QED BY <3>1, <3>3
  <2>2. \A i, j \in 1 .. Len(Line) : Line[i] = Line[j] => i = j
      BY DEF SortInv, OrderInv
  <2> QED BY <1>1, <1>7, <2>1, <2>2 DEF OrderInv
<1>16. ThrowsOnlyIfImpossible'
    BY <1>1 DEF ThrowsOnlyIfImpossible
<1> QED BY <1>6, <1>11, <1>13, <1>14, <1>15, <1>16 DEF SortInv

\* A visit takes one off the counter of a dependent; at zero everything it
\* lists is placed, and it joins the line.
LEMMA VisitingKeepsSortInv == SortInv /\ VisitDependent => SortInv'
PROOF
<1> SUFFICES ASSUME SortInv, VisitDependent PROVE SortInv'
    OBVIOUS
<1> DEFINE v == Head(todo)
           list == dependencyMap[v]
           last == dependencies[v] = 1
<1>1. /\ todo # << >> /\ todo' = Tail(todo)
      /\ dependencies' = [dependencies EXCEPT ![v] = @ - 1]
      /\ q' = IF last THEN Append(q, v) ELSE q
      /\ handlers' = handlers /\ dependencyMap' = dependencyMap
      /\ dMap' = dMap /\ given' = given /\ result' = result /\ outcome' = outcome
    BY DEF VisitDependent, registeredVars
<1>2. outcome = "sorting" /\ Started
    BY <1>1 DEF SortInv, IdleInv, Started
<1>3. /\ SortTypeOK /\ result \in Seq(Names) /\ q \in Seq(Names) /\ todo \in Seq(Names)
      /\ dependencies \in [Names -> 0 .. MaxDependencies]
      /\ handlers \subseteq Names
      /\ \A h \in Names : Len(dependencyMap[h]) \in Nat
    BY ListType DEF SortInv, SortTypeOK
<1>4. /\ v \in Names /\ todo[1] = v /\ Len(todo) > 0 /\ Len(todo) \in Nat
      /\ todo' \in Seq(Names) /\ Len(todo') = Len(todo) - 1
      /\ \A i \in 1 .. Len(todo') : todo'[i] = todo[i + 1]
    BY <1>1, <1>3, EmptySeq, HeadTailProperties
<1> HIDE DEF v
<1>5. \A i \in 1 .. Len(todo) : todo[i] \in handlers
    BY <1>2 DEF SortInv, CounterInv
<1>6. v \in handlers
    BY <1>4, <1>5
<1>7. ASSUME NEW h \in handlers
      PROVE  /\ dependencies[h]
                  = Cardinality(Missing(dependencyMap[h], Ranked)) + Occurrences(h, todo)
             /\ Occurrences(h, todo) = Occurrences(h, todo') + (IF h = v THEN 1 ELSE 0)
             /\ Cardinality(Missing(dependencyMap[h], Ranked)) \in Nat
             /\ Occurrences(h, todo') \in Nat
  <2>1. dependencies[h]
          = Cardinality(Missing(dependencyMap[h], Ranked)) + Occurrences(h, todo)
      BY <1>2 DEF SortInv, CounterInv
  <2>2. Cardinality(Missing(dependencyMap[h], Ranked)) \in Nat
      BY <1>3, MissingType
  <2>3. Occurrences(h, todo') \in Nat /\ Occurrences(h, todo) \in Nat
      BY <1>3, <1>4, LenProperties, OccurrencesType
  <2>4. /\ h = v => Occurrences(h, todo) = Occurrences(h, todo') + 1
        /\ h # v => Occurrences(h, todo) = Occurrences(h, todo')
      BY <1>1, <1>3, OccurrencesTail DEF v
  <2> QED BY <2>1, <2>2, <2>3, <2>4
<1>8. dependencies[v] \in 1 .. MaxDependencies
  <2>1. dependencies[v] \in 0 .. MaxDependencies
      BY <1>3, <1>4
  <2>2. dependencies[v] # 0
      BY <1>6, <1>7
  <2> QED BY <2>1, <2>2, ParametersOK
<1>9. /\ dependencies' \in [Names -> 0 .. MaxDependencies]
      /\ dependencies'[v] = dependencies[v] - 1
      /\ \A h \in Names : h # v => dependencies'[h] = dependencies[h]
  <2>1. dependencies[v] - 1 \in 0 .. MaxDependencies
      BY <1>8, ParametersOK
  <2> QED BY <1>1, <1>3, <1>4, <2>1
<1>10. q' \in Seq(Names)
    BY <1>1, <1>3, <1>4
<1>11. SortTypeOK'
    BY <1>1, <1>4, <1>9, <1>10 DEF SortInv, SortTypeOK
<1>12. (DependentsInv /\ IdleInv /\ SortedInv)'
    BY <1>1, <1>2 DEF SortInv, DependentsInv, IdleInv, SortedInv, Started
<1>13. Ranked' = Ranked
    BY <1>1 DEF Ranked
<1>14. Line \in Seq(Names) /\ Len(Line) \in Nat /\ Len(result) \in Nat
       /\ Len(result) <= Len(Line) /\ Ranked \subseteq InLine
    BY <1>3, LineParts
<1>15. last => /\ Len(Line') = Len(Line) + 1
               /\ \A i \in 1 .. Len(Line) : Line'[i] = Line[i]
               /\ Line'[Len(Line) + 1] = v
  <2> SUFFICES ASSUME last PROVE Line' = Append(Line, v)
      BY <1>4, <1>14, AppendProperties
  <2> DEFINE one == <<v>>
  <2>1. one \in Seq(Names)
      BY <1>4
  <2>2. Append(q, v) = q \o one /\ Append(Line, v) = Line \o one
      BY <1>3, <1>4, <1>14, AppendIsConcat
  <2> HIDE DEF one
  <2>3. (result \o q) \o one = result \o (q \o one)
    <3>1. result \in Seq(Names) /\ q \in Seq(Names) /\ one \in Seq(Names)
        BY <1>3, <2>1
    <3> QED BY <3>1, ConcatAssociative
  <2> QED BY <1>1, <2>2, <2>3 DEF Line
<1>16. ~last => Line' = Line
    BY <1>1 DEF Line
<1>17. \A i \in 1 .. Len(Line) + 1 : i \in 1 .. Len(Line) \/ i = Len(Line) + 1
    BY <1>14
<1>18. InLine' = IF last THEN InLine \cup {v} ELSE InLine
  <2>1. CASE last
    <3>1. \A i \in 1 .. Len(Line') : Line'[i] \in InLine \cup {v}
        BY <1>15, <1>17, <2>1 DEF InLine
    <3>2. \A i \in 1 .. Len(Line) : i \in 1 .. Len(Line') /\ Line'[i] = Line[i]
        BY <1>14, <1>15, <2>1
    <3>3. Len(Line) + 1 \in 1 .. Len(Line') /\ Line'[Len(Line) + 1] = v
        BY <1>14, <1>15, <2>1
    <3> QED BY <2>1, <3>1, <3>2, <3>3 DEF InLine
  <2>2. CASE ~last
      BY <1>16, <2>2 DEF InLine
  <2> QED BY <2>1, <2>2
<1>19. \A h \in Names : h \in InLine <=> h \in handlers /\ dependencies[h] = 0
    BY <1>2 DEF SortInv, CounterInv
<1>20. v \notin InLine
    BY <1>4, <1>8, <1>19
<1>21. CounterInv'
  <2>1. \A i \in 1 .. Len(todo') : todo'[i] \in handlers
    <3> TAKE i \in 1 .. Len(todo')
    <3>1. i + 1 \in 1 .. Len(todo)
        BY <1>4
    <3> QED BY <1>4, <1>5, <3>1
  <2>2. ASSUME NEW h \in handlers
        PROVE  dependencies'[h]
                 = Cardinality(Missing(dependencyMap[h], Ranked)) + Occurrences(h, todo')
    <3>1. CASE h = v
        BY <1>7, <1>9, <3>1
    <3>2. CASE h # v
        BY <1>3, <1>7, <1>9, <3>2
    <3> QED BY <3>1, <3>2
  <2>3. ASSUME NEW h \in Names
        PROVE  h \in InLine' <=> h \in handlers /\ dependencies'[h] = 0
    <3>1. CASE h = v
      <4>1. dependencies'[v] = 0 <=> last
          BY <1>8, <1>9
      <4> QED BY <1>6, <1>18, <1>20, <3>1, <4>1
    <3>2. CASE h # v
        BY <1>9, <1>18, <1>19, <3>2
    <3> QED BY <3>1, <3>2
  <2> QED BY <1>1, <1>13, <2>1, <2>2, <2>3 DEF CounterInv
<1>22. last => \A k \in 1 .. Len(list) : list[k] \in Ranked
  <2> SUFFICES ASSUME last PROVE Cardinality(Missing(list, Ranked)) = 0
      BY <1>3, <1>4, MissingType
  <2> QED BY <1>6, <1>7
<1>23. BlockedInv'
  <2>1. \A S \in SUBSET handlers : Blocked(S)' <=> Blocked(S)
      BY <1>1 DEF Blocked, Listed
  <2>2. ASSUME NEW S \in SUBSET handlers, Blocked(S), last PROVE v \notin S
    <3> SUFFICES ASSUME v \in S PROVE FALSE
        OBVIOUS
    <3>1. PICK d \in Listed(v) : d \in S \/ d \notin handlers
        BY <2>2 DEF Blocked
    <3>2. d \in Ranked
        BY <1>22, <2>2 DEF Listed
    <3>3. d \in InLine /\ d \in handlers
        BY <1>14, <1>19, <3>2, <1>3, LineParts
    <3> QED BY <1>2, <2>2, <3>1, <3>3 DEF SortInv, BlockedInv
  <2>3. \A S \in SUBSET handlers : Blocked(S) => S \cap InLine = {}
      BY <1>2 DEF SortInv, BlockedInv
  <2> QED BY <1>1, <1>18, <2>1, <2>2, <2>3 DEF BlockedInv
<1>24. OrderInv'
  <2>1. /\ \A i \in 1 .. Len(Line) : \A k \in 1 .. Len(dependencyMap[Line[i]]) :
             \E j \in 1 .. Len(result) : j < i /\ result[j] = dependencyMap[Line[i]][k]
        /\ \A i, j \in 1 .. Len(Line) : Line[i] = Line[j] => i = j
      BY DEF SortInv, OrderInv
  <2>2. CASE ~last
      BY <1>1, <1>16, <2>1, <2>2 DEF OrderInv
  <2>3. CASE last
    <3>1. ASSUME NEW k \in 1 .. Len(list)
          PROVE  \E j \in 1 .. Len(result) : j < Len(Line) + 1 /\ result[j] = list[k]
      <4>1. PICK j \in 1 .. Len(result) : result[j] = list[k]
          BY <1>22, <2>3 DEF Ranked
      <4> QED BY <1>14, <4>1
    <3>2. \A i \in 1 .. Len(Line) : Line[i] # v
        BY <1>20 DEF InLine
    <3>3. ASSUME NEW i \in 1 .. Len(Line'), NEW k \in 1 .. Len(dependencyMap[Line'[i]])
          PROVE  \E j \in 1 .. Len(result) : j < i /\ result[j] = dependencyMap[Line'[i]][k]
      <4>1. CASE i \in 1 .. Len(Line)
        <5>1. Line'[i] = Line[i]
            BY <1>15, <2>3, <4>1
        <5>2. k \in 1 .. Len(dependencyMap[Line[i]])
            BY <5>1
        <5> QED BY <2>1, <4>1, <5>1, <5>2
      <4>2. CASE i = Len(Line) + 1
          BY <1>15, <2>3, <3>1, <4>2
      <4> QED BY <1>15, <1>17, <2>3, <4>1, <4>2
    <3>4. ASSUME NEW i \in 1 .. Len(Line'), NEW j \in 1 .. Len(Line'), Line'[i] = Line'[j]
          PROVE  i = j
        BY <1>15, <1>17, <2>1, <2>3, <3>2, <3>4
    <3> QED BY <1>1, <3>3, <3>4 DEF OrderInv
  <2> QED BY <2>2, <2>3
<1>25. ThrowsOnlyIfImpossible'
    BY <1>1, <1>2 DEF ThrowsOnlyIfImpossible
<1> QED BY <1>11, <1>12, <1>21, <1>23, <1>24, <1>25 DEF SortInv

\* With nothing left to do either every handler is placed, or those that are
\* not block each other.
LEMMA FinishingKeepsSortInv == SortInv /\ Finish => SortInv'
PROOF
<1> SUFFICES ASSUME SortInv, Finish PROVE SortInv'
    OBVIOUS
<1>1. /\ outcome = "sorting" /\ todo = << >> /\ q = << >>
      /\ outcome' = IF Len(result) = Cardinality(handlers) THEN "sorted" ELSE "thrown"
      /\ handlers' = handlers /\ dependencyMap' = dependencyMap
      /\ dMap' = dMap /\ given' = given /\ dependencies' = dependencies
      /\ q' = q /\ todo' = todo /\ result' = result
    BY DEF Finish, registeredVars
<1>2. /\ SortTypeOK /\ result \in Seq(Names) /\ handlers \subseteq Names
      /\ \A h \in Names : Len(dependencyMap[h]) \in Nat
    BY ListType DEF SortInv, SortTypeOK
<1>3. Started /\ Started'
    BY <1>1 DEF Started
<1>4. Line = result /\ Len(result) \in Nat
    BY <1>1, <1>2, ConcatEmptySeq, LenProperties DEF Line
<1>5. InLine = Ranked
    BY <1>4 DEF InLine, Ranked
<1>6. \A h \in Names : h \in Ranked <=> h \in handlers /\ dependencies[h] = 0
    BY <1>3, <1>5 DEF SortInv, CounterInv
<1>7. Ranked \subseteq Names
    BY <1>2, <1>5, LineParts
<1>8. Ranked \subseteq handlers
    BY <1>6, <1>7
<1>9. Len(result) = Cardinality(handlers) <=> Ranked = handlers
  <2>1. IsFiniteSet(handlers)
    <3>1. IsFiniteSet(Names)
        BY ParametersOK, FS_Interval DEF Names
    <3> QED BY <1>2, <3>1, FS_Subset
  <2>2. IsFiniteSet(1 .. Len(result)) /\ Cardinality(1 .. Len(result)) = Len(result)
      BY <1>4, FS_Interval
  <2>3. result \in [1 .. Len(result) -> handlers]
    <3>1. result \in [1 .. Len(result) -> Names]
        BY <1>2, LenProperties
    <3>2. \A i \in 1 .. Len(result) : result[i] \in handlers
        BY <1>8 DEF Ranked
    <3> QED BY <3>1, <3>2
  <2>4. \A i, j \in 1 .. Len(result) : result[i] = result[j] => i = j
      BY <1>4 DEF SortInv, OrderInv
  <2>5. result \in Injection(1 .. Len(result), handlers)
      BY <2>3, <2>4, Fun_IsInj
  <2>6. Len(result) = Cardinality(handlers)
          <=> result \in Surjection(1 .. Len(result), handlers)
      BY <2>1, <2>2, <2>5, FS_Injection
  <2>7. result \in Surjection(1 .. Len(result), handlers) <=> Ranked = handlers
      BY <1>8, <2>3 DEF Surjection, Ranked
  <2> QED BY <2>6, <2>7
<1>10. ASSUME NEW h \in handlers \ Ranked
       PROVE  \E d \in Listed(h) : d \notin Ranked
  <2>1. dependencies[h] # 0
      BY <1>2, <1>6
  <2>2. dependencies[h]
          = Cardinality(Missing(dependencyMap[h], Ranked)) + Occurrences(h, todo)
      BY <1>3 DEF SortInv, CounterInv
  <2>3. Occurrences(h, todo) = 0
    <3>1. Len(todo) = 0
        BY <1>1
    <3> QED BY <3>1, NoOccurrences
  <2>4. Cardinality(Missing(dependencyMap[h], Ranked)) # 0
      BY <2>1, <2>2, <2>3
  <2>5. PICK k \in 1 .. Len(dependencyMap[h]) : dependencyMap[h][k] \notin Ranked
      BY <1>2, <2>4, MissingType
  <2> QED BY <2>5 DEF Listed
<1>11. ThrowsOnlyIfImpossible'
  <2>1. \A S \in SUBSET handlers : Blocked(S)' <=> Blocked(S)
      BY <1>1 DEF Blocked, Listed
  <2>2. CASE Ranked = handlers
    <3>1. outcome' = "sorted"
        BY <1>1, <1>9, <2>2
    <3>2. ASSUME NEW S \in SUBSET handlers, Blocked(S) PROVE FALSE
      <4>1. S \cap Ranked = {}
          BY <1>3, <1>5, <3>2 DEF SortInv, BlockedInv
      <4>2. S # {}
          BY <3>2 DEF Blocked
      <4> QED BY <2>2, <4>1, <4>2
    <3> QED BY <1>1, <2>1, <3>1, <3>2 DEF ThrowsOnlyIfImpossible
  <2>3. CASE Ranked # handlers
    <3>1. outcome' = "thrown"
        BY <1>1, <1>9, <2>3
    <3> DEFINE left == handlers \ Ranked
    <3>2. left # {} /\ left \in SUBSET handlers
        BY <1>8, <2>3
    <3>3. \A h \in left : \E d \in Listed(h) : d \in left \/ d \notin handlers
        BY <1>10
    <3>4. Blocked(left)
        BY <3>2, <3>3 DEF Blocked
    <3> QED BY <1>1, <2>1, <3>1, <3>2, <3>4 DEF ThrowsOnlyIfImpossible
  <2> QED BY <2>2, <2>3
<1>12. Ranked' = Ranked /\ Line' = Line /\ InLine' = InLine
    BY <1>1 DEF Ranked, Line, InLine
<1>13. SortedInv'
    BY <1>1, <1>9, <1>12 DEF SortedInv
<1>14. SortTypeOK'
    BY <1>1 DEF SortInv, SortTypeOK
<1>15. (DependentsInv /\ IdleInv)'
    BY <1>1 DEF SortInv, DependentsInv, IdleInv, Started
<1>16. CounterInv'
    BY <1>1, <1>3, <1>12 DEF SortInv, CounterInv
<1>17. BlockedInv'
  <2>1. \A S \in SUBSET handlers : Blocked(S)' <=> Blocked(S)
      BY <1>1 DEF Blocked, Listed
  <2> QED BY <1>1, <1>3, <1>12, <2>1 DEF SortInv, BlockedInv
<1>18. OrderInv'
    BY <1>1, <1>12, OrderFrame DEF SortInv
<1> QED BY <1>11, <1>13, <1>14, <1>15, <1>16, <1>17, <1>18 DEF SortInv

\* DependencySort as a whole.
LEMMA SortStepsKeepSortInv == SortInv /\ SortStep => SortInv'
PROOF
BY GivingKeepsSortInv, StartingKeepsSortInv, DequeuingKeepsSortInv, VisitingKeepsSortInv,
   FinishingKeepsSortInv DEF SortStep

\* Steps that leave the sort and the registered handlers alone.
LEMMA OtherStepsKeepSortInv ==
    SortInv /\ UNCHANGED <<registeredVars, sortVars>> => SortInv'
PROOF
<1> SUFFICES ASSUME SortInv, UNCHANGED <<registeredVars, sortVars>> PROVE SortInv'
    OBVIOUS
<1>1. /\ handlers' = handlers /\ dependencyMap' = dependencyMap /\ dMap' = dMap
      /\ given' = given /\ dependencies' = dependencies /\ q' = q /\ todo' = todo
      /\ result' = result /\ outcome' = outcome
    BY DEF registeredVars, sortVars
<1>2. Ranked' = Ranked /\ Line' = Line /\ InLine' = InLine /\ (Started' <=> Started)
    BY <1>1 DEF Ranked, Line, InLine, Started
<1>3. \A S \in SUBSET handlers : Blocked(S)' <=> Blocked(S)
    BY <1>1 DEF Blocked, Listed
<1>4. SortTypeOK'
    BY <1>1 DEF SortInv, SortTypeOK
<1>5. (DependentsInv /\ IdleInv /\ SortedInv)'
    BY <1>1, <1>2 DEF SortInv, DependentsInv, IdleInv, SortedInv
<1>6. CounterInv'
    BY <1>1, <1>2 DEF SortInv, CounterInv
<1>7. BlockedInv'
    BY <1>1, <1>2, <1>3 DEF SortInv, BlockedInv
<1>8. OrderInv'
    BY <1>1, <1>2, OrderFrame DEF SortInv
<1>9. ThrowsOnlyIfImpossible'
    BY <1>1, <1>3 DEF SortInv, ThrowsOnlyIfImpossible
<1> QED BY <1>4, <1>5, <1>6, <1>7, <1>8, <1>9 DEF SortInv

\* Until the sort begins the handlers and their lists may change.
LEMMA RegisteringKeepsSortInv ==
    /\ SortInv
    /\ outcome = "registering"
    /\ outcome' \in {"registering", "giving"}
    /\ handlers' \subseteq Names /\ dependencyMap' \in [Names -> Lists]
    /\ UNCHANGED <<dMap, given, dependencies, q, todo, result>>
    => SortInv'
PROOF
<1> SUFFICES ASSUME SortInv, outcome = "registering", outcome' \in {"registering", "giving"},
                    handlers' \subseteq Names, dependencyMap' \in [Names -> Lists],
                    UNCHANGED <<dMap, given, dependencies, q, todo, result>>
             PROVE  SortInv'
    OBVIOUS
<1>1. given = {} /\ q = << >> /\ result = << >> /\ todo = << >>
    BY DEF SortInv, DependentsInv, IdleInv
<1>2. SortTypeOK'
    BY DEF SortInv, SortTypeOK
<1>3. ~Started'
    BY DEF Started
<1>4. DependentsInv'
    BY <1>1, <1>3 DEF SortInv, DependentsInv
<1>5. (IdleInv /\ CounterInv /\ BlockedInv /\ SortedInv)'
    BY <1>1, <1>3 DEF IdleInv, CounterInv, BlockedInv, SortedInv
<1>6. OrderInv'
  <2>1. Line' = << >> /\ Len(Line') = 0
    <3>1. q' = << >> /\ result' = << >> /\ Len(<< >>) = 0
        BY <1>1
    <3> QED BY <3>1 DEF Line
  <2> QED BY <2>1 DEF OrderInv
<1>7. ThrowsOnlyIfImpossible'
    BY DEF ThrowsOnlyIfImpossible
<1> QED BY <1>2, <1>4, <1>5, <1>6, <1>7 DEF SortInv

\* After the sort the handlers leave.
LEMMA EndingKeepsSortInv ==
    /\ SortInv
    /\ outcome \in {"sorted", "thrown", "ended"} /\ outcome' = "ended"
    /\ handlers' \subseteq Names
    /\ UNCHANGED <<dependencyMap, dMap, given, dependencies, q, todo, result>>
    => SortInv'
PROOF
<1> SUFFICES ASSUME SortInv, outcome \in {"sorted", "thrown", "ended"}, outcome' = "ended",
                    handlers' \subseteq Names,
                    UNCHANGED <<dependencyMap, dMap, given, dependencies, q, todo, result>>
             PROVE  SortInv'
    OBVIOUS
<1>1. todo = << >>
    BY DEF SortInv, IdleInv
<1>2. SortTypeOK'
    BY DEF SortInv, SortTypeOK
<1>3. ~Started'
    BY DEF Started
<1>4. DependentsInv'
    BY <1>3 DEF SortInv, DependentsInv
<1>5. (IdleInv /\ CounterInv /\ BlockedInv /\ SortedInv)'
    BY <1>1, <1>3 DEF IdleInv, CounterInv, BlockedInv, SortedInv
<1>6. OrderInv'
  <2>1. Line' = Line
      BY DEF Line
  <2> QED BY <2>1, OrderFrame DEF SortInv
<1>7. ThrowsOnlyIfImpossible'
    BY DEF ThrowsOnlyIfImpossible
<1> QED BY <1>2, <1>4, <1>5, <1>6, <1>7 DEF SortInv

-----------------------------------------------------------------------------
(* The registration *)

\* The number of functions that are looked up in a library.
LEMMA EntryPointsCount == \A kind : Len(EntryPoints(kind)) \in 0 .. 5
PROOF
<1> TAKE kind
<1>1. CASE kind = "direct"
    BY <1>1 DEF EntryPoints
<1>2. CASE kind # "direct"
    BY <1>2 DEF EntryPoints
<1> QED BY <1>1, <1>2

\* Each step of the registration gives the sort handlers and lists of the right
\* type, and does not touch what the sort has begun.
LEMMA StartupStepsKeepSortInv ==
    SortInv /\ RegistrationInv /\ [StartupStep]_startupVars => SortInv'
PROOF
<1> SUFFICES ASSUME SortInv, RegistrationInv, [StartupStep]_startupVars PROVE SortInv'
    OBVIOUS
<1>1. handlers \subseteq Names /\ dependencyMap \in [Names -> Lists] /\ StepInv
    BY DEF SortInv, SortTypeOK, RegistrationInv
<1>2. CASE RegisterStaticHandlers
  <2>1. outcome = "registering"
      BY <1>1, <1>2 DEF RegisterStaticHandlers, StepInv
  <2>2. /\ handlers' = Static /\ dependencyMap' = dependencyMap /\ outcome' = outcome
        /\ UNCHANGED <<dMap, given, dependencies, q, todo, result>>
      BY <1>2 DEF RegisterStaticHandlers, sortVars
  <2> QED BY <1>1, <2>1, <2>2, RegistrationParametersOK, RegisteringKeepsSortInv
<1>3. CASE RegisterDynamicHandler
  <2>1. outcome = "registering"
      BY <1>1, <1>3 DEF RegisterDynamicHandler, StepInv, AtManifest
  <2>2. Head(offered) \in Names
    <3>1. offered \in Seq(Names) /\ offered # << >>
        BY <1>3 DEF RegisterDynamicHandler, RegistrationInv, RegistrationTypeOK
    <3> QED BY <3>1, HeadTailProperties
  <2>3. handlers' \subseteq Names
      BY <1>1, <1>3, <2>2 DEF RegisterDynamicHandler
  <2>4. dependencyMap' \in [Names -> Lists]
      BY <1>1, <1>3, <2>2 DEF RegisterDynamicHandler
  <2>5. outcome' = outcome /\ UNCHANGED <<dMap, given, dependencies, q, todo, result>>
      BY <1>3 DEF RegisterDynamicHandler, sortVars
  <2> QED BY <2>1, <2>3, <2>4, <2>5, RegisteringKeepsSortInv
<1>4. CASE HandlerInvokeSequence
  <2>1. outcome = "registering"
      BY <1>1, <1>4 DEF HandlerInvokeSequence, StepInv
  <2>2. /\ outcome' = "giving" /\ handlers' = handlers /\ dependencyMap' = dependencyMap
        /\ UNCHANGED <<dMap, given, dependencies, q, todo, result>>
      BY <1>4 DEF HandlerInvokeSequence, registeredVars
  <2> QED BY <1>1, <2>1, <2>2, RegisteringKeepsSortInv
<1>5. CASE EndOfRun
  <2>1. /\ outcome \in {"sorted", "thrown"} /\ outcome' = "ended"
        /\ handlers' \subseteq Names
        /\ UNCHANGED <<dependencyMap, dMap, given, dependencies, q, todo, result>>
      BY <1>1, <1>5 DEF EndOfRun
  <2> QED BY <2>1, EndingKeepsSortInv
<1>6. CASE DestroyHandlers
  <2>1. outcome = "ended"
      BY <1>1, <1>6 DEF DestroyHandlers, StepInv, Over
  <2>2. /\ outcome' = outcome /\ handlers' = {} /\ dependencyMap' = dependencyMap
        /\ UNCHANGED <<dMap, given, dependencies, q, todo, result>>
      BY <1>6 DEF DestroyHandlers, sortVars
  <2> QED BY <2>1, <2>2, EndingKeepsSortInv
<1>7. CASE SortStep
    BY <1>7, SortStepsKeepSortInv
<1>8. CASE UNCHANGED <<registeredVars, sortVars>>
    BY <1>8, OtherStepsKeepSortInv
<1>9. ASSUME SkipManifest \/ ReadManifest \/ Load \/ LaunchHost
      PROVE  UNCHANGED <<registeredVars, sortVars>>
    BY <1>9 DEF SkipManifest, ReadManifest, Load, LaunchHost
<1>10. ASSUME HostEndsAtOnce \/ HostLoads \/ HostConnects
       PROVE  UNCHANGED <<registeredVars, sortVars>>
    BY <1>10 DEF HostEndsAtOnce, HostLoads, HostConnects
<1>11. ASSUME GetHandlersInfo \/ GetHandlersInfoFails \/ RegisterKnown \/ RegistrationFails
       PROVE  UNCHANGED <<registeredVars, sortVars>>
    BY <1>11 DEF GetHandlersInfo, GetHandlersInfoFails, RegisterKnown, RegistrationFails
<1>12. ASSUME PluginRegistered \/ Unload \/ UNCHANGED startupVars
       PROVE  UNCHANGED <<registeredVars, sortVars>>
    BY <1>12 DEF PluginRegistered, Unload, startupVars
<1> QED BY <1>2, <1>3, <1>4, <1>5, <1>6, <1>7, <1>8, <1>9, <1>10, <1>11, <1>12
        DEF StartupStep, EnumeratePlugins

\* A plug-in that is dropped leaves nothing in the map.
LEMMA DroppingKeepsRegistrationInv ==
    /\ RegistrationInv /\ step \in AtManifest \ {"register"} /\ PluginDropped
    /\ UNCHANGED <<registeredVars, sortVars, manifest, offered, pluginsMap, owner>>
    => RegistrationInv'
PROOF
<1> SUFFICES ASSUME RegistrationInv, step \in AtManifest \ {"register"}, PluginDropped,
                    UNCHANGED <<registeredVars, sortVars, manifest, offered, pluginsMap, owner>>
             PROVE  RegistrationInv'
    OBVIOUS
<1> USE DEF RegistrationInv
<1>1. /\ step' = "next" /\ outcome' = outcome /\ manifest' = manifest
      /\ handlers' = handlers /\ owner' = owner /\ pluginsMap' = pluginsMap
      /\ kindOf' = [kindOf EXCEPT ![manifest] = "none"]
      /\ found' = [found EXCEPT ![manifest] = 0]
      /\ offered' = offered
    BY DEF PluginDropped, registeredVars, sortVars
<1>2. manifest \notin pluginsMap
    BY DEF PluginInv
<1>3. \A p \in pluginsMap : kindOf'[p] = kindOf[p] /\ found'[p] = found[p]
    BY <1>1, <1>2 DEF RegistrationTypeOK
<1>4. RegistrationTypeOK'
  <2>1. kindOf' \in [Plugins -> Kinds \cup {"none"}]
      BY <1>1 DEF RegistrationTypeOK
  <2>2. 0 \in 0 .. 5
      OBVIOUS
  <2>3. found' \in [Plugins -> 0 .. 5]
      BY <1>1, <2>2 DEF RegistrationTypeOK
  <2> QED BY <1>1, <2>1, <2>3 DEF RegistrationTypeOK
<1>5. StepInv'
    BY <1>1 DEF StepInv, AtManifest, Over
<1>6. PluginInv'
    BY <1>1, <1>3 DEF PluginInv, AtManifest
<1>7. OwnerInv'
  <2>1. \A h \in handlers : \/ h \in Static /\ owner[h] = 0
                            \/ owner[h] \in pluginsMap
                            \/ owner[h] = manifest /\ step = "register"
      BY DEF OwnerInv, AtManifest, Over
  <2> QED BY <1>1, <2>1 DEF OwnerInv
<1> QED BY <1>4, <1>5, <1>6, <1>7

\* Every step of EnumeratePlugins, and of the agent after it.
LEMMA StartupStepsKeepRegistrationInv ==
    SortInv /\ RegistrationInv /\ [StartupStep]_startupVars => RegistrationInv'
PROOF
<1> SUFFICES ASSUME SortInv, RegistrationInv, [StartupStep]_startupVars
             PROVE  RegistrationInv'
    OBVIOUS
<1> USE DEF RegistrationInv
<1>0. /\ handlers \subseteq Names /\ Manifests \in Nat /\ Plugins = 1 .. Manifests
      /\ \A kind : Len(EntryPoints(kind)) \in 0 .. 5
    BY EntryPointsCount, RegistrationParametersOK DEF SortInv, SortTypeOK, Plugins
<1>1. CASE RegisterStaticHandlers
    BY <1>0, <1>1, RegistrationParametersOK
    DEF RegisterStaticHandlers, RegistrationTypeOK, StepInv, PluginInv, OwnerInv, AtManifest,
        Over, registeredVars, sortVars
<1>2. CASE SkipManifest
    BY <1>0, <1>2, RegistrationParametersOK
    DEF SkipManifest, RegistrationTypeOK, StepInv, PluginInv, OwnerInv, AtManifest, Over,
        registeredVars, sortVars, PluginDropped, Kinds
<1>3. CASE ReadManifest
    BY <1>0, <1>3, RegistrationParametersOK
    DEF ReadManifest, RegistrationTypeOK, StepInv, PluginInv, OwnerInv, AtManifest, Over,
        registeredVars, sortVars, PluginDropped, Kinds
<1>4. CASE Load
  <2>1. CASE PluginDropped
      BY <1>4, <2>1, DroppingKeepsRegistrationInv DEF Load, AtManifest
  <2>2. CASE ~PluginDropped
    <3>1. /\ step = "load" /\ step' = "info" /\ kindOf' = kindOf
          /\ found' = [found EXCEPT ![manifest] = Len(EntryPoints(kindOf[manifest]))]
        BY <1>4, <2>2 DEF Load
    <3> QED BY <1>0, <1>4, <3>1
            DEF Load, RegistrationTypeOK, StepInv, PluginInv, OwnerInv, AtManifest, Over,
                registeredVars, sortVars
  <2> QED BY <2>1, <2>2
<1>5. CASE LaunchHost
  <2>1. CASE PluginDropped
      BY <1>5, <2>1, DroppingKeepsRegistrationInv DEF LaunchHost, AtManifest
  <2>2. CASE ~PluginDropped
    <3>1. step = "launch" /\ step' = "host" /\ kindOf' = kindOf /\ found' = found
        BY <1>5, <2>2 DEF LaunchHost
    <3> QED BY <1>0, <1>5, <3>1
            DEF LaunchHost, RegistrationTypeOK, StepInv, PluginInv, OwnerInv, AtManifest, Over,
                registeredVars, sortVars
  <2> QED BY <2>1, <2>2
<1>6. CASE HostEndsAtOnce
    BY <1>0, <1>6, RegistrationParametersOK
    DEF HostEndsAtOnce, RegistrationTypeOK, StepInv, PluginInv, OwnerInv, AtManifest, Over,
        registeredVars, sortVars, PluginDropped, Kinds
<1>7. CASE HostLoads
  <2>1. PICK n \in 0 .. Len(EntryPoints("outOfProc")) :
          /\ found' = [found EXCEPT ![manifest] = n]
          /\ step' = IF n = Len(EntryPoints("outOfProc")) THEN "hostLoaded" ELSE "hung"
      BY <1>7 DEF HostLoads
  <2>2. /\ step = "host" /\ outcome' = outcome /\ manifest' = manifest
        /\ handlers' = handlers /\ owner' = owner /\ pluginsMap' = pluginsMap
        /\ kindOf' = kindOf /\ offered' = offered
      BY <1>7 DEF HostLoads, registeredVars, sortVars
  <2>3. n \in 0 .. 5 /\ manifest \in Plugins /\ manifest \notin pluginsMap
        /\ kindOf[manifest] = "outOfProc"
    <3>1. manifest # 0 /\ manifest \notin pluginsMap /\ kindOf[manifest] = "outOfProc"
        BY <2>2 DEF PluginInv, AtManifest
    <3>2. manifest \in 0 .. Manifests
        BY DEF RegistrationTypeOK
    <3>3. Len(EntryPoints("outOfProc")) = 5
        BY DEF EntryPoints
    <3>4. n \in 0 .. 5
        BY <3>3
    <3> QED BY <1>0, <3>1, <3>2, <3>4
  <2>4. RegistrationTypeOK'
      BY <2>1, <2>2, <2>3 DEF RegistrationTypeOK
  <2>5. StepInv'
      BY <2>1, <2>2 DEF StepInv, AtManifest, Over
  <2>6. \A p \in pluginsMap : found'[p] = found[p]
      BY <2>1, <2>3 DEF RegistrationTypeOK
  <2>7. found'[manifest] = n
      BY <2>1, <2>3 DEF RegistrationTypeOK
  <2>8. PluginInv'
      BY <2>1, <2>2, <2>3, <2>6, <2>7 DEF PluginInv, AtManifest
  <2>9. OwnerInv'
      BY <2>1, <2>2 DEF OwnerInv, Over
  <2> QED BY <2>4, <2>5, <2>8, <2>9
<1>8. CASE HostConnects
  <2>1. CASE PluginDropped
      BY <1>8, <2>1, DroppingKeepsRegistrationInv DEF HostConnects, AtManifest
  <2>2. CASE ~PluginDropped
    <3>1. step = "hostLoaded" /\ step' = "info" /\ kindOf' = kindOf /\ found' = found
        BY <1>8, <2>2 DEF HostConnects
    <3> QED BY <1>0, <1>8, <3>1
            DEF HostConnects, RegistrationTypeOK, StepInv, PluginInv, OwnerInv, AtManifest, Over,
                registeredVars, sortVars
  <2> QED BY <2>1, <2>2
<1>9. CASE GetHandlersInfo
  <2>1. PICK n \in 0 .. 2 : offered' \in [1 .. n -> Names]
      BY <1>9 DEF GetHandlersInfo
  <2>2. offered' \in Seq(Names) /\ Len(offered') <= 2
      BY <2>1
  <2>3. /\ step = "info" /\ step' = "register" /\ outcome' = outcome /\ manifest' = manifest
        /\ handlers' = handlers /\ owner' = owner /\ pluginsMap' = pluginsMap
        /\ kindOf' = kindOf /\ found' = found
      BY <1>9 DEF GetHandlersInfo, registeredVars, sortVars
  <2> QED BY <2>2, <2>3
          DEF RegistrationTypeOK, StepInv, PluginInv, OwnerInv, AtManifest, Over
<1>10. CASE GetHandlersInfoFails
    BY <1>0, <1>10, RegistrationParametersOK
    DEF GetHandlersInfoFails, RegistrationTypeOK, StepInv, PluginInv, OwnerInv, AtManifest, Over,
        registeredVars, sortVars, PluginDropped, Kinds
<1>11. CASE RegisterKnown
    BY <1>0, <1>11, RegistrationParametersOK
    DEF RegisterKnown, RegistrationTypeOK, StepInv, PluginInv, OwnerInv, AtManifest, Over,
        registeredVars, sortVars, PluginDropped, Kinds
<1>12. CASE RegisterDynamicHandler
    BY <1>0, <1>12, RegistrationParametersOK
    DEF RegisterDynamicHandler, RegistrationTypeOK, StepInv, PluginInv, OwnerInv, AtManifest,
        Over, registeredVars, sortVars
<1>13. CASE RegistrationFails
    BY <1>0, <1>13, RegistrationParametersOK
    DEF RegistrationFails, RegistrationTypeOK, StepInv, PluginInv, OwnerInv, AtManifest, Over,
        registeredVars, sortVars, PluginDropped, Kinds
<1>14. CASE PluginRegistered
    BY <1>0, <1>14, RegistrationParametersOK
    DEF PluginRegistered, RegistrationTypeOK, StepInv, PluginInv, OwnerInv, AtManifest, Over,
        registeredVars, sortVars, PluginDropped, Kinds
<1>15. CASE HandlerInvokeSequence
    BY <1>0, <1>15, RegistrationParametersOK
    DEF HandlerInvokeSequence, RegistrationTypeOK, StepInv, PluginInv, OwnerInv, AtManifest, Over,
        registeredVars, sortVars, PluginDropped, Kinds
<1>16. CASE EndOfRun
    BY <1>0, <1>16, RegistrationParametersOK
    DEF EndOfRun, RegistrationTypeOK, StepInv, PluginInv, OwnerInv, AtManifest, Over,
        registeredVars, sortVars, PluginDropped, Kinds
<1>17. CASE Unload
    BY <1>0, <1>17, RegistrationParametersOK
    DEF Unload, RegistrationTypeOK, StepInv, PluginInv, OwnerInv, AtManifest, Over,
        registeredVars, sortVars, PluginDropped, Kinds
<1>18. CASE DestroyHandlers
    BY <1>0, <1>18, RegistrationParametersOK
    DEF DestroyHandlers, RegistrationTypeOK, StepInv, PluginInv, OwnerInv, AtManifest, Over,
        registeredVars, sortVars, PluginDropped, Kinds
<1>19. CASE SortStep /\ UNCHANGED registrationVars
  <2>1. handlers' = handlers /\ outcome \in {"giving", "sorting"}
    <3>1. VisitDependent => outcome = "sorting"
        BY DEF VisitDependent, SortInv, IdleInv
    <3> QED BY <1>19, <3>1
            DEF SortStep, SetDependenciesMap, StartSort, Dequeue, VisitDependent, Finish,
                registeredVars
  <2>2. step = "sort"
      BY <2>1 DEF StepInv, RegistrationTypeOK, AtManifest, Over
  <2> QED BY <1>19, <2>1, <2>2
          DEF registrationVars, RegistrationTypeOK, StepInv, PluginInv, OwnerInv, AtManifest, Over
<1>20. CASE UNCHANGED startupVars
    BY <1>20
    DEF startupVars, registrationVars, registeredVars, sortVars, RegistrationTypeOK, StepInv,
        PluginInv, OwnerInv
<1> QED BY <1>1, <1>2, <1>3, <1>4, <1>5, <1>6, <1>7, <1>8, <1>9, <1>10, <1>11,
          <1>12, <1>13, <1>14, <1>15, <1>16, <1>17, <1>18, <1>19, <1>20
        DEF StartupStep, EnumeratePlugins

-----------------------------------------------------------------------------
(* The theorems *)

\* The agent starts with no handler and no plug-in.
LEMMA StartupInitial == StartupInit => IInv
PROOF
<1> SUFFICES ASSUME StartupInit PROVE IInv
    OBVIOUS
<1> USE DEF StartupInit, SortInit
<1>1. << >> \in Lists
  <2>1. 0 \in 0 .. MaxDependencies /\ << >> \in [1 .. 0 -> Names]
      BY ParametersOK
  <2> QED BY <2>1 DEF Lists
<1>2. /\ handlers = {} /\ given = {} /\ outcome = "registering"
      /\ q = << >> /\ todo = << >> /\ result = << >>
      /\ ~Started
    BY DEF Started
<1>3. SortTypeOK
  <2>1. 0 \in 0 .. MaxDependencies
      BY ParametersOK
  <2>2. << >> \in Seq(Names)
      BY EmptySeq
  <2> QED BY <1>1, <1>2, <2>1, <2>2 DEF SortTypeOK
<1>4. DependentsInv
  <2>1. ASSUME NEW a \in Names, NEW h \in Names PROVE Occurrences(h, dMap[a]) = 0
    <3> DEFINE list == dMap[a]
    <3>1. list = << >> /\ Len(<< >>) = 0
        OBVIOUS
    <3>2. Len(list) = 0
        BY <3>1
    <3> HIDE DEF list
    <3>3. Occurrences(h, list) = 0
        BY <3>2, NoOccurrences
    <3> QED BY <3>3 DEF list
  <2> QED BY <1>2, <2>1 DEF DependentsInv
<1>5. IdleInv /\ CounterInv /\ BlockedInv /\ SortedInv /\ ThrowsOnlyIfImpossible
    BY <1>2 DEF IdleInv, CounterInv, BlockedInv, SortedInv, ThrowsOnlyIfImpossible
<1>6. OrderInv
    BY <1>2, EmptyLine
<1>7. RegistrationInv
  <2>1. RegistrationTypeOK
    <3>1. << >> \in Seq(Names) /\ Len(<< >>) <= 2
        OBVIOUS
    <3>2. 0 \in 0 .. Manifests
        BY RegistrationParametersOK
    <3> QED BY <3>1, <3>2 DEF RegistrationTypeOK
  <2> QED BY <1>2, <2>1
          DEF RegistrationInv, StepInv, PluginInv, OwnerInv, AtManifest, Over
<1> QED BY <1>3, <1>4, <1>5, <1>6, <1>7 DEF IInv, SortInv

\* The invariant is inductive.
LEMMA StartupInvariant == StartupSpec => []IInv
PROOF
<1>1. IInv /\ [StartupStep]_startupVars => IInv'
    BY StartupStepsKeepSortInv, StartupStepsKeepRegistrationInv DEF IInv
<1> QED BY <1>1, StartupInitial, PTL DEF StartupSpec

(***************************************************************************)
(* Every variable keeps its type, for any number of handlers, of manifests *)
(* and of entries in their lists; in particular DependencySort decrements  *)
(* no counter below zero, whatever the lists hold.                         *)
(***************************************************************************)
THEOREM StartupTypes == StartupSpec => [](SortTypeOK /\ RegistrationTypeOK)
PROOF
<1>1. IInv => SortTypeOK /\ RegistrationTypeOK
    BY DEF IInv, SortInv, RegistrationInv
<1> QED BY <1>1, StartupInvariant, PTL

\* The inductive invariant gives the property.
LEMMA SequenceFollows == IInv => SequenceServesHandlers
PROOF
<1> SUFFICES ASSUME IInv, step \notin Over
             PROVE  /\ SortIsCorrect
                    /\ Sequence # << >> => {Sequence[i] : i \in 1 .. Len(Sequence)} = handlers
                    /\ \A h \in handlers :
                         \/ h \in Static /\ owner[h] = 0
                         \/ LET p == owner[h]
                            IN  /\ found[p] = Len(EntryPoints(kindOf[p]))
                                /\ p \in pluginsMap \/ (p = manifest /\ step = "register")
    BY DEF SequenceServesHandlers, Over
<1>1. SortIsCorrect
    BY OrderMeans DEF IInv, SortInv, SortIsCorrect
<1>2. Sequence # << >> => {Sequence[i] : i \in 1 .. Len(Sequence)} = handlers
    BY DEF IInv, SortInv, SortedInv, Sequence, Ranked
<1>3. ASSUME NEW h \in handlers
      PROVE  \/ h \in Static /\ owner[h] = 0
             \/ LET p == owner[h]
                IN  /\ found[p] = Len(EntryPoints(kindOf[p]))
                    /\ p \in pluginsMap \/ (p = manifest /\ step = "register")
  <2>1. \/ h \in Static /\ owner[h] = 0
        \/ owner[h] \in pluginsMap
        \/ owner[h] = manifest /\ step = "register"
      BY DEF IInv, RegistrationInv, OwnerInv
  <2>2. \A p \in pluginsMap : found[p] = Len(EntryPoints(kindOf[p]))
      BY DEF IInv, RegistrationInv, PluginInv
  <2>3. step = "register" => found[manifest] = Len(EntryPoints(kindOf[manifest]))
      BY DEF IInv, RegistrationInv, PluginInv
  <2> QED BY <2>1, <2>2, <2>3
<1> QED BY <1>1, <1>2, <1>3

(***************************************************************************)
(* For any number of handlers, manifests and entries in their lists, and   *)
(* whatever fails while the plug-ins are loaded: AzureRawHost invokes the  *)
(* handlers in an order of all of them that puts each after those its      *)
(* manifest lists, DependencySort throws only if there is none, and every  *)
(* registered handler is the agent's own or a loaded plug-in's.            *)
(***************************************************************************)
THEOREM SequenceAlwaysServes == StartupSpec => []SequenceServesHandlers
PROOF
BY SequenceFollows, StartupInvariant, PTL

=============================================================================
