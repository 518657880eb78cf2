--------------------------- MODULE LimpetToolProofs ---------------------------
(***************************************************************************)
(* Three properties of the tool, for any slots, hubs, commands, storage    *)
(* root keys and crashes: certificates name the container of their own     *)
(* key, as long as no call fails; no payload is encrypted under a secret   *)
(* that was not written down before; and a logical device that is          *)
(* destroyed without a failing call leaves nothing behind.                 *)
(*                                                                         *)
(* Between the making of a key and the recording of its container, between *)
(* the challenge and its file, and between the calls that destroy a slot,  *)
(* what is true depends on the calls still to make.  So the invariants     *)
(* speak of the stack: its top is what is left of a function, with what    *)
(* holds at that point.                                                    *)
(***************************************************************************)
EXTENDS LimpetTool, TLAPS, FiniteSetTheorems, SequenceTheorems, WellFoundedInduction

-----------------------------------------------------------------------------
(* Stacks *)

IsStack(q) == \E S : q \in Seq(S)

KeyFunctions == {"LimpetReadOrCreateIdentityKeyCert", "LimpetDestroyIdentityCert"}
KeyFunctionCalls == {On(op, a) : op \in KeyFunctions, a \in Algorithms}

\* No call of a stack is one of these, but for what is called for an algorithm.
Allowed(x, ops) == x.op \notin ops \/ x \in KeyFunctionCalls
Free(q, ops) == \E S : q \in Seq(S) /\ \A x \in S : Allowed(x, ops)

\* A set of numbers has a least one.
LEMMA Least ==
  ASSUME NEW T, T \subseteq Nat, T # {}
  PROVE  \E x \in T : \A y \in T : x <= y
<1>1. PICK x \in T : \A y \in T : ~ (<<y, x>> \in OpToRel(<, Nat))
  BY NatLessThanWellFounded, WFMin
<1>2. \A y \in T : ~(y < x)
  BY <1>1 DEF OpToRel
<1>3. QED
  BY <1>2

\* The call at the top is gone.
LEMMA TailOfStack ==
  ASSUME NEW q, IsStack(q), q # << >>
  PROVE  /\ IsStack(Tail(q)) /\ Head(q) = q[1] /\ Len(q) \in Nat \ {0}
         /\ Len(Tail(q)) = Len(q) - 1
         /\ \A i \in 1 .. Len(Tail(q)) : i + 1 \in 1 .. Len(q) /\ Tail(q)[i] = q[i + 1]
<1>1. PICK S : q \in Seq(S)
  BY DEF IsStack
<1>2. /\ Len(q) \in Nat \ {0} /\ Head(q) = q[1] /\ Tail(q) \in Seq(S)
      /\ Len(Tail(q)) = Len(q) - 1
      /\ \A i \in 1 .. Len(q) - 1 : Tail(q)[i] = q[i + 1]
  BY <1>1, HeadTailProperties
<1>3. QED
  BY <1>2 DEF IsStack

\* Calls are pushed.
LEMMA PushedOnStack ==
  ASSUME NEW q, IsStack(q), NEW r, IsStack(r)
  PROVE  /\ IsStack(q \o r) /\ Len(q) \in Nat /\ Len(r) \in Nat
         /\ Len(q \o r) = Len(q) + Len(r)
         /\ \A i \in 1 .. Len(q) : (q \o r)[i] = q[i]
         /\ \A i \in 1 .. Len(r) : (q \o r)[Len(q) + i] = r[i]
         /\ \A i \in 1 .. Len(q) + Len(r) :
              \/ i \in 1 .. Len(q) /\ (q \o r)[i] = q[i]
              \/ \E k \in 1 .. Len(r) : (q \o r)[i] = r[k]
<1>1. PICK S, R : q \in Seq(S) /\ r \in Seq(R)
  BY DEF IsStack
<1> DEFINE U == S \cup R
<1>2. q \in Seq(U) /\ r \in Seq(U)
  BY <1>1
<1> HIDE DEF U
<1>3. /\ q \o r \in Seq(U) /\ Len(q) \in Nat /\ Len(r) \in Nat
      /\ Len(q \o r) = Len(q) + Len(r)
      /\ \A i \in 1 .. Len(q) + Len(r) :
           (q \o r)[i] = IF i <= Len(q) THEN q[i] ELSE r[i - Len(q)]
  BY <1>2, ConcatProperties
<1>4. QED
  BY <1>3 DEF IsStack

\* What is left after the first calls.
LEMMA RestOfStack ==
  ASSUME NEW q, IsStack(q), NEW i \in 1 .. Len(q)
  PROVE  LET r == SubSeq(q, i, Len(q))
         IN  /\ IsStack(r) /\ Len(r) = Len(q) - i + 1
             /\ \A k \in 1 .. Len(r) : i + k - 1 \in 1 .. Len(q) /\ r[k] = q[i + k - 1]
<1>1. PICK S : q \in Seq(S)
  BY DEF IsStack
<1>2. Len(q) \in Nat
  BY <1>1
<1>3. /\ SubSeq(q, i, Len(q)) \in Seq(S) /\ Len(SubSeq(q, i, Len(q))) = Len(q) - i + 1
      /\ \A k \in 1 .. Len(q) - i + 1 : SubSeq(q, i, Len(q))[k] = q[i + k - 1]
  BY <1>1, <1>2, SubSeqProperties
<1>4. QED
  BY <1>2, <1>3 DEF IsStack

\* Where the stack is unwound to: the first of the places, and no call before it
\* is one.
LEMMA FromPlace ==
  ASSUME NEW q, IsStack(q), NEW places
  PROVE  \/ From(q, places) = << >> /\ \A k \in 1 .. Len(q) : q[k].op \notin places
         \/ \E i \in 1 .. Len(q) : /\ From(q, places) = SubSeq(q, i, Len(q))
                                   /\ q[i].op \in places
                                   /\ \A k \in 1 .. i - 1 : q[k].op \notin places
<1> DEFINE I == {i \in 1 .. Len(q) : q[i].op \in places}
           at == SelectInSeq(q, LAMBDA c : c.op \in places)
<1>1. Len(q) \in Nat
  BY DEF IsStack
<1>2. at = IF I # {} THEN Min(I) ELSE 0
  BY DEF SelectInSeq
<1>3. From(q, places) = IF at = 0 THEN << >> ELSE SubSeq(q, at, Len(q))
  BY DEF From
<1> HIDE DEF at
<1>4. CASE I = {}
  BY <1>2, <1>3, <1>4
<1>5. CASE I # {}
  <2>1. \E x \in I : \A y \in I : x <= y
    <3>1. I \subseteq Nat
      OBVIOUS
    <3> HIDE DEF I
    <3> QED
      BY <1>5, <3>1, Least
  <2>2. Min(I) \in I /\ \A y \in I : Min(I) <= y
    BY <2>1 DEF Min
  <2>3. at \in I /\ \A y \in I : at <= y
    BY <1>2, <1>5, <2>2
  <2>4. at # 0 /\ at \in 1 .. Len(q) /\ q[at].op \in places
    BY <1>1, <2>3
  <2>5. \A k \in 1 .. at - 1 : q[k].op \notin places
    BY <1>1, <2>3, <2>4
  <2> QED
    BY <1>3, <2>4, <2>5
<1> QED
  BY <1>4, <1>5

LEMMA FreeEmpty ==
  ASSUME NEW ops
  PROVE  Free(<< >>, ops)
<1>1. PICK S : S = {}
  OBVIOUS
<1>2. << >> \in Seq(S) /\ \A x \in S : Allowed(x, ops)
  BY <1>1 DEF Allowed
<1> QED
  BY <1>2 DEF Free

LEMMA FreeKeyFunction ==
  ASSUME NEW ops, NEW x \in KeyFunctionCalls
  PROVE  Free(<<x>>, ops)
<1>1. PICK S : S = {x}
  OBVIOUS
<1>2. <<x>> \in Seq(S) /\ \A y \in S : Allowed(y, ops)
  BY <1>1 DEF Allowed
<1> QED
  BY <1>2 DEF Free

LEMMA FreeOne ==
  ASSUME NEW ops, NEW a, {a.op} \cap ops = {}
  PROVE  Free(<<a>>, ops)
<1>1. PICK S : S = {a}
  OBVIOUS
<1>2. <<a>> \in Seq(S) /\ \A x \in S : Allowed(x, ops)
  BY <1>1 DEF Allowed
<1> QED
  BY <1>2 DEF Free

LEMMA FreeTwo ==
  ASSUME NEW ops, NEW a, NEW b, {a.op, b.op} \cap ops = {}
  PROVE  Free(<<a, b>>, ops)
<1>1. PICK S : S = {a, b}
  OBVIOUS
<1>2. <<a, b>> \in Seq(S) /\ \A x \in S : Allowed(x, ops)
  BY <1>1 DEF Allowed
<1> QED
  BY <1>2 DEF Free

LEMMA FreeThree ==
  ASSUME NEW ops, NEW a, NEW b, NEW c, {a.op, b.op, c.op} \cap ops = {}
  PROVE  Free(<<a, b, c>>, ops)
<1>1. PICK S : S = {a, b, c}
  OBVIOUS
<1>2. <<a, b, c>> \in Seq(S) /\ \A x \in S : Allowed(x, ops)
  BY <1>1 DEF Allowed
<1> QED
  BY <1>2 DEF Free

LEMMA FreeFour ==
  ASSUME NEW ops, NEW a, NEW b, NEW c, NEW d, {a.op, b.op, c.op, d.op} \cap ops = {}
  PROVE  Free(<<a, b, c, d>>, ops)
<1>1. PICK S : S = {a, b, c, d}
  OBVIOUS
<1>2. <<a, b, c, d>> \in Seq(S) /\ \A x \in S : Allowed(x, ops)
  BY <1>1 DEF Allowed
<1> QED
  BY <1>2 DEF Free

LEMMA FreeFive ==
  ASSUME NEW ops, NEW a, NEW b, NEW c, NEW d, NEW e, {a.op, b.op, c.op, d.op, e.op} \cap ops = {}
  PROVE  Free(<<a, b, c, d, e>>, ops)
<1>1. PICK S : S = {a, b, c, d, e}
  OBVIOUS
<1>2. <<a, b, c, d, e>> \in Seq(S) /\ \A x \in S : Allowed(x, ops)
  BY <1>1 DEF Allowed
<1> QED
  BY <1>2 DEF Free

LEMMA FiveAllowed ==
  ASSUME NEW ops, NEW a, NEW b, NEW c, NEW d, NEW e, Allowed(a, ops), Allowed(b, ops),
         Allowed(c, ops), Allowed(d, ops), Allowed(e, ops)
  PROVE  Free(<<a, b, c, d, e>>, ops)
<1>1. PICK S : S = {a, b, c, d, e}
  OBVIOUS
<1>2. <<a, b, c, d, e>> \in Seq(S) /\ \A x \in S : Allowed(x, ops)
  BY <1>1
<1> QED
  BY <1>2 DEF Free

LEMMA FreeTail ==
  ASSUME NEW q, NEW ops, Free(q, ops), q # << >>
  PROVE  Free(Tail(q), ops) /\ Allowed(Head(q), ops)
<1>1. PICK S : q \in Seq(S) /\ \A x \in S : Allowed(x, ops)
  BY DEF Free
<1>2. Tail(q) \in Seq(S) /\ Head(q) \in S
  BY <1>1
<1> QED
  BY <1>1, <1>2 DEF Free

LEMMA FreePushed ==
  ASSUME NEW q, NEW r, NEW ops, Free(q, ops), Free(r, ops)
  PROVE  Free(q \o r, ops)
<1>1. PICK S, R : /\ q \in Seq(S) /\ \A x \in S : Allowed(x, ops)
                  /\ r \in Seq(R) /\ \A x \in R : Allowed(x, ops)
  BY DEF Free
<1>2. q \in Seq(S \cup R) /\ r \in Seq(S \cup R)
  BY <1>1
<1>3. q \o r \in Seq(S \cup R)
  BY <1>2
<1> QED
  BY <1>1, <1>3 DEF Free

\* What an exception leaves of a stack whose first calls handle none.
LEMMA Dropped ==
  ASSUME NEW q, IsStack(q), NEW places, \A i \in 1 .. Len(q) : q[i].op \notin places,
         NEW r, NEW ops, Free(r, ops)
  PROVE  Free(From(q \o r, places), ops)
<1>1. PICK R : r \in Seq(R) /\ \A x \in R : Allowed(x, ops)
  BY DEF Free
<1>2. PICK S : q \in Seq(S)
  BY DEF IsStack
<1>3. IsStack(q) /\ IsStack(r)
  BY <1>1 DEF IsStack
<1>4. /\ IsStack(q \o r) /\ Len(q) \in Nat /\ Len(r) \in Nat
      /\ Len(q \o r) = Len(q) + Len(r)
      /\ \A i \in 1 .. Len(q) : (q \o r)[i] = q[i]
      /\ \A i \in 1 .. Len(r) : (q \o r)[Len(q) + i] = r[i]
  BY ONLY <1>3, PushedOnStack
<1>5. CASE From(q \o r, places) = << >>
  BY <1>5, FreeEmpty
<1>6. ASSUME NEW i \in 1 .. Len(q \o r), From(q \o r, places) = SubSeq(q \o r, i, Len(q \o r)),
             (q \o r)[i].op \in places
      PROVE  Free(From(q \o r, places), ops)
  <2> DEFINE t == SubSeq(q \o r, i, Len(q \o r))
  <2>1. i > Len(q)
    BY <1>2, <1>4, <1>6
  <2>2. /\ IsStack(t) /\ Len(t) = Len(q \o r) - i + 1
        /\ \A k \in 1 .. Len(t) : t[k] = (q \o r)[i + k - 1]
    BY <1>4, RestOfStack
  <2> HIDE DEF t
  <2>3. \A k \in 1 .. Len(t) : t[k] \in R
    <3> SUFFICES ASSUME NEW k \in 1 .. Len(t)
                 PROVE  t[k] \in R
      OBVIOUS
    <3> DEFINE m == i + k - 1 - Len(q)
    <3>1. m \in 1 .. Len(r) /\ i + k - 1 = Len(q) + m
      BY <1>4, <2>1, <2>2
    <3>2. t[k] = r[m]
      BY <1>4, <2>2, <3>1
    <3> QED
      BY <1>1, <3>1, <3>2
  <2>4. t \in Seq(R)
    <3>1. PICK U : t \in Seq(U)
      BY <2>2 DEF IsStack
    <3>2. Len(t) \in Nat /\ t \in [1 .. Len(t) -> U]
      BY <3>1
    <3>3. t \in [1 .. Len(t) -> R]
      BY <2>3, <3>2
    <3> QED
      BY <3>2, <3>3
  <2> QED
    BY <1>1, <1>6, <2>4 DEF t, Free
<1> QED
  BY <1>4, <1>5, <1>6, FromPlace

LEMMA FreeFrom ==
  ASSUME NEW q, NEW ops, Free(q, ops), NEW places
  PROVE  Free(From(q, places), ops)
<1>1. IsStack(<< >>) /\ \A i \in 1 .. Len(<< >>) : << >>[i].op \notin places
  BY FreeEmpty DEF Free, IsStack
<1>2. PICK S : q \in Seq(S)
  BY DEF Free
<1>3. << >> \o q = q
  BY <1>2
<1> QED
  BY <1>1, <1>3, Dropped

LEMMA StackIsFree ==
  ASSUME NEW q
  PROVE  IsStack(q) <=> Free(q, {})
BY DEF IsStack, Free, Allowed

\* A stack with calls on top.
LEMMA TopOfPushed ==
  ASSUME NEW q, IsStack(q), NEW r, IsStack(r), q # << >>
  PROVE  /\ q \o r # << >> /\ Head(q \o r) = Head(q) /\ Tail(q \o r) = Tail(q) \o r
<1>1. PICK S, R : q \in Seq(S) /\ r \in Seq(R)
  BY DEF IsStack
<1> DEFINE U == S \cup R
<1>2. q \in Seq(U) /\ r \in Seq(U)
  BY <1>1
<1> HIDE DEF U
<1>3. /\ q \o r \in Seq(U) /\ Len(q \o r) = Len(q) + Len(r)
      /\ \A i \in 1 .. Len(q) + Len(r) :
           (q \o r)[i] = IF i <= Len(q) THEN q[i] ELSE r[i - Len(q)]
  BY <1>2, ConcatProperties
<1>4. /\ Tail(q) \in Seq(U) /\ Len(q) \in Nat \ {0} /\ Len(Tail(q)) = Len(q) - 1
      /\ Head(q) = q[1] /\ \A i \in 1 .. Len(q) - 1 : Tail(q)[i] = q[i + 1]
  BY <1>2, HeadTailProperties
<1>5. Len(r) \in Nat
  BY <1>2
<1>6. q \o r # << >>
  BY <1>3, <1>4, <1>5
<1>7. /\ Tail(q \o r) \in Seq(U) /\ Len(Tail(q \o r)) = Len(q \o r) - 1
      /\ Head(q \o r) = (q \o r)[1]
      /\ \A i \in 1 .. Len(q \o r) - 1 : Tail(q \o r)[i] = (q \o r)[i + 1]
  BY <1>3, <1>6, HeadTailProperties
<1>8. /\ Tail(q) \o r \in Seq(U) /\ Len(Tail(q) \o r) = Len(q) - 1 + Len(r)
      /\ \A i \in 1 .. Len(q) - 1 + Len(r) :
           (Tail(q) \o r)[i] = IF i <= Len(q) - 1 THEN Tail(q)[i] ELSE r[i - (Len(q) - 1)]
  BY <1>2, <1>4, ConcatProperties
<1>9. \A i \in 1 .. Len(q) - 1 + Len(r) : Tail(q \o r)[i] = (Tail(q) \o r)[i]
  <2> SUFFICES ASSUME NEW i \in 1 .. Len(q) - 1 + Len(r)
               PROVE  Tail(q \o r)[i] = (Tail(q) \o r)[i]
    OBVIOUS
  <2>1. Tail(q \o r)[i] = (q \o r)[i + 1]
    BY <1>3, <1>4, <1>5, <1>7
  <2> QED
    BY <1>3, <1>4, <1>5, <1>8, <2>1
<1>10. Tail(q \o r) = Tail(q) \o r
  BY <1>3, <1>4, <1>5, <1>7, <1>8, <1>9, SeqEqual
<1> QED
  BY <1>3, <1>4, <1>5, <1>6, <1>7, <1>10

-----------------------------------------------------------------------------
(* The library on the tool's stack *)

\* What the library, its callers and the tool put on a stack of their own.
LibraryOps == SingleCalls \cup Functions \cup Handlers \cup {"token", "EmptyTpmSlot"}

\* What a function of it expands to.
BodyOps == SingleCalls \cup Functions \cup {"finally delete blob", "token"}

StackInv ==
    /\ calls = [p \in Processes |-> calls[p]]
    /\ IsStack(calls["tool"])
    /\ faults \in Nat

\* A step of the library on the tool's stack puts nothing else there.
Rebuilt ==
    /\ calls["tool"] # << >> /\ Top("tool").op \in LibraryOps
    /\ \A ops : ops \cap LibraryOps = {} /\ Free(calls["tool"], ops) => Free(calls'["tool"], ops)

LEMMA LibraryBodies ==
  ASSUME NEW c, c.op \in Functions, NEW ops, ops \cap BodyOps = {}
  PROVE  Free(Body(c), ops)
<1> DEFINE s == c.slot
<1>1. /\ {"set public", "set private", "set name", "set uri", "set blob"} \cap ops = {}
      /\ {"delete public", "delete private", "delete name", "delete uri", "delete blob"} \cap ops = {}
      /\ {"read uri", "read public", "read private", "load", "import hostage"} \cap ops = {}
      /\ {"persist key", "evict", "sign", "define nv", "write nv", "undefine nv"} \cap ops = {}
      /\ {"read nv", "read name", "finally delete blob", "token"} \cap ops = {}
      /\ {"LimpetStoreURI", "LimpetReadURI", "ImportHostageBlobIfPresent",
          "LimpetSignWithIdentityHmacKeyEx"} \cap ops = {}
  BY DEF BodyOps, SingleCalls, Functions
<1>2. /\ \A op, h : Call(op, s, h).op = op
      /\ \A op : Do(op, s).op = op
  BY DEF Call, Do
<1> HIDE DEF s
<1>3. Free(DestoryHostageBlobIfPresent(s), ops)
  BY <1>1, <1>2, FreeOne, FreeEmpty DEF DestoryHostageBlobIfPresent
<1>4. \A h : Free(WriteKey(s, h), ops)
  <2> TAKE h
  <2>1. /\ Call("set public", s, h).op = "set public" /\ Call("set private", s, h).op = "set private"
        /\ Call("set name", s, h).op = "set name" /\ Call("persist key", s, h).op = "persist key"
    BY <1>2
  <2>2. Free(<<Call("persist key", s, h)>>, ops)
    BY <1>1, <2>1, FreeOne
  <2>3. Free(<<Call("set public", s, h), Call("set private", s, h), Call("set name", s, h)>>, ops)
    BY <1>1, <2>1, FreeThree
  <2> QED
    BY <2>2, <2>3 DEF WriteKey
<1>5. \A h : Free(LimpetImportHostageKeyEx(s, h), ops)
  <2> TAKE h
  <2>0. /\ Call("import hostage", s, h).op = "import hostage"
        /\ Call("LimpetStoreURI", s, h).op = "LimpetStoreURI"
    BY <1>2
  <2>1. Free(<<Call("import hostage", s, h)>>, ops) /\ Free(<<Call("LimpetStoreURI", s, h)>>, ops)
    BY <1>1, <2>0, FreeOne
  <2> QED
    BY <1>4, <2>1, FreePushed DEF LimpetImportHostageKeyEx
<1>6. CASE c.op = "LimpetStoreURI"
  <2>0. /\ Call("set uri", s, c.hub).op = "set uri" /\ Do("define nv", s).op = "define nv"
        /\ Call("write nv", s, c.hub).op = "write nv"
    BY <1>2
  <2>1. /\ Free(<<Call("set uri", s, c.hub)>>, ops)
        /\ Free(<<Do("define nv", s), Call("write nv", s, c.hub)>>, ops)
    BY <1>1, <2>0, FreeOne, FreeTwo
  <2> QED
    BY <1>6, <2>1 DEF Body, LimpetStoreURI, s
<1>7. CASE c.op = "LimpetReadURI"
  BY <1>1, <1>2, <1>7, FreeOne, FreeTwo DEF Body, LimpetReadURI, s
<1>8. CASE c.op = "LimpetDestroyURI"
  BY <1>1, <1>2, <1>3, <1>8, FreeOne, FreePushed DEF Body, LimpetDestroyURI, s
<1>9. CASE c.op = "LimpetCreateHmacKey"
  BY <1>4, <1>9 DEF Body, LimpetCreateHmacKey, s
<1>10. CASE c.op = "LimpetEvictHmacKey"
  BY <1>1, <1>2, <1>3, <1>10, FreeOne, FreeThree, FreePushed DEF Body, LimpetEvictHmacKey, s
<1>11. CASE c.op = "LimpetImportHostageKey"
  <2>0. Call("set blob", s, c.hub).op = "set blob"
    BY <1>2
  <2>1. Free(<<Call("set blob", s, c.hub)>>, ops)
    BY <1>1, <2>0, FreeOne
  <2> QED
    BY <1>5, <1>11, <2>1 DEF Body, LimpetImportHostageKey, s
<1>12. CASE c.op = "ImportHostageBlobIfPresent"
  <2>1. /\ Free(<<Do("finally delete blob", s)>>, ops)
        /\ Free(LimpetImportHostageKeyEx(s, store[s].blob), ops)
    BY <1>1, <1>2, <1>5, FreeOne
  <2>2. Body(c) = IF WaitingBlob(s)
                  THEN LimpetImportHostageKeyEx(s, store[s].blob) \o <<Do("finally delete blob", s)>>
                  ELSE << >>
    BY <1>12 DEF Body, ImportHostageBlobIfPresent, s
  <2>3. Free(LimpetImportHostageKeyEx(s, store[s].blob) \o <<Do("finally delete blob", s)>>, ops)
    BY <2>1, FreePushed
  <2>4. CASE WaitingBlob(s)
    BY <2>2, <2>3, <2>4
  <2>5. CASE ~WaitingBlob(s)
    BY <2>2, <2>5, FreeEmpty
  <2> QED
    BY <2>4, <2>5
<1>13. CASE c.op = "LimpetSignWithIdentityHmacKeyEx"
  BY <1>1, <1>2, <1>13, FreeOne, FreeThree DEF Body, LimpetSignWithIdentityHmacKeyEx, s
<1>14. CASE c.op = "LimpetSignWithIdentityHmacKey"
  BY <1>1, <1>2, <1>14, FreeTwo DEF Body, LimpetSignWithIdentityHmacKey, s
<1>15. CASE c.op \in {"LimpetReadUriName", "LimpetReadHmacName"}
  BY <1>1, <1>2, <1>15, FreeOne DEF Body, LimpetReadUriName, LimpetReadHmacName, s
<1>16. CASE c.op = "LimpetGenerateSASToken"
  <2>0. /\ Do("ImportHostageBlobIfPresent", s).op = "ImportHostageBlobIfPresent"
        /\ Do("LimpetReadURI", s).op = "LimpetReadURI"
        /\ Do("LimpetSignWithIdentityHmacKeyEx", s).op = "LimpetSignWithIdentityHmacKeyEx"
        /\ Do("token", s).op = "token"
    BY <1>2
  <2>1. Free(<<Do("ImportHostageBlobIfPresent", s), Do("LimpetReadURI", s),
               Do("LimpetSignWithIdentityHmacKeyEx", s), Do("token", s)>>, ops)
    BY <1>1, <2>0, FreeFour
  <2> QED
    BY <1>16, <2>1 DEF Body, LimpetGenerateSASToken, s
<1> QED
  BY <1>6, <1>7, <1>8, <1>9, <1>10, <1>11, <1>12, <1>13, <1>14, <1>15, <1>16 DEF Functions

\* The stacks but one stay what they are.
LEMMA OneStack ==
  ASSUME StackInv, NEW p \in Processes, NEW q, calls' = [calls EXCEPT ![p] = q]
  PROVE  /\ calls' = [x \in Processes |-> calls'[x]]
         /\ p = "tool" => calls'["tool"] = q
         /\ p # "tool" => calls'["tool"] = calls["tool"]
BY IdentityParametersOK DEF StackInv

\* The call at the top has returned.
LEMMA ReturnedOnStack ==
  ASSUME StackInv, NEW p \in Processes, calls[p] # << >>, NEW ok, Returned(p, ok)
  PROVE  /\ calls' = [x \in Processes |-> calls'[x]]
         /\ p # "tool" => calls'["tool"] = calls["tool"]
         /\ p = "tool" => \A ops : Free(calls["tool"], ops) => Free(calls'["tool"], ops)
<1> DEFINE q == IF ok THEN Tail(calls[p]) ELSE Unwound(Tail(calls[p]))
<1>1. calls' = [calls EXCEPT ![p] = q]
  BY DEF Returned
<1>2. ASSUME p = "tool", NEW ops, Free(calls["tool"], ops)
      PROVE  Free(q, ops)
  <2>1. Free(Tail(calls["tool"]), ops)
    BY <1>2, FreeTail
  <2> QED
    BY <1>2, <2>1, FreeFrom DEF Unwound
<1> HIDE DEF q
<1> QED
  BY <1>1, <1>2, OneStack

\* The call at the top is replaced by others.
LEMMA ReplacedOnStack ==
  ASSUME StackInv, NEW p \in Processes, calls[p] # << >>, NEW r,
         calls' = [calls EXCEPT ![p] = r \o Tail(@)]
  PROVE  /\ calls' = [x \in Processes |-> calls'[x]]
         /\ p # "tool" => calls'["tool"] = calls["tool"]
         /\ p = "tool" => \A ops : Free(calls["tool"], ops) /\ Free(r, ops) => Free(calls'["tool"], ops)
<1> DEFINE q == r \o Tail(calls[p])
<1>1. calls' = [calls EXCEPT ![p] = q]
  OBVIOUS
<1>2. ASSUME p = "tool", NEW ops, Free(calls["tool"], ops), Free(r, ops)
      PROVE  Free(q, ops)
  <2>1. Free(Tail(calls["tool"]), ops)
    BY <1>2, FreeTail
  <2> QED
    BY <1>2, <2>1, FreePushed
<1> HIDE DEF q
<1> QED
  BY <1>1, <1>2, OneStack

Effect ==
    /\ calls' = [p \in Processes |-> calls'[p]]
    /\ calls'["tool"] = calls["tool"] \/ Rebuilt

LEMMA LibraryEffect ==
  ASSUME StackInv, NEW p \in Processes, Library(p)
  PROVE  Effect
<1>1. /\ \A op \in SingleCalls \cup Functions \cup Handlers : op \in LibraryOps
      /\ {"latch", "rethrow", "LimpetEvictHmacKey", "clear nv", "define nv", "write nv", "verify nv",
          "undefine nv", "load", "finally delete blob"} \subseteq LibraryOps
  BY DEF LibraryOps, SingleCalls, Functions, Handlers, LibraryHandlers
<1>2. /\ \A op, s, h : Call(op, s, h).op = op
      /\ \A op, s : Do(op, s).op = op
  BY DEF Call, Do
<1>3. ASSUME calls[p] # << >>, Top(p).op \in LibraryOps, NEW ok, Returned(p, ok)
      PROVE  Effect
  BY <1>3, ReturnedOnStack DEF Effect, Rebuilt
<1>4. ASSUME calls[p] # << >>, Top(p).op \in LibraryOps, NEW r,
             calls' = [calls EXCEPT ![p] = r \o Tail(@)],
             \A ops : ops \cap LibraryOps = {} => Free(r, ops)
      PROVE  Effect
  BY <1>4, ReplacedOnStack DEF Effect, Rebuilt
<1>5. CASE UseRegistry(p)
  <2> DEFINE s == Top(p).slot
             r == TryTpmNvOperations(s) \o <<Do("latch", s)>>
  <2>1. calls[p] # << >> /\ Top(p).op \in LibraryOps
    BY <1>1, <1>5 DEF UseRegistry
  <2>2. ASSUME NEW ops, ops \cap LibraryOps = {}
        PROVE  Free(TryTpmNvOperations(s), ops) /\ Free(<<Do("latch", s)>>, ops)
    <3>1. {"latch", "clear nv", "define nv", "write nv", "verify nv", "undefine nv"} \cap ops = {}
      BY <1>1, <2>2
    <3>2. /\ Do("latch", s).op = "latch" /\ Do("clear nv", s).op = "clear nv"
          /\ Do("define nv", s).op = "define nv" /\ Call("write nv", s, "test").op = "write nv"
          /\ Do("verify nv", s).op = "verify nv" /\ Do("undefine nv", s).op = "undefine nv"
      BY <1>2
    <3> HIDE DEF s
    <3> QED
      BY <3>1, <3>2, FreeOne, FreeFive DEF TryTpmNvOperations
  <2>3. calls' = [calls EXCEPT ![p] = TryTpmNvOperations(s) \o <<Do("latch", s)>> \o calls[p]]
    BY <1>5 DEF UseRegistry
  <2> HIDE DEF s
  <2>4. p = "tool" => \A ops : ops \cap LibraryOps = {} /\ Free(calls["tool"], ops)
                                 => Free(calls'["tool"], ops)
    <3> SUFFICES ASSUME p = "tool", NEW ops, ops \cap LibraryOps = {}, Free(calls["tool"], ops)
                 PROVE  Free(calls'["tool"], ops)
      OBVIOUS
    <3>1. Free(TryTpmNvOperations(s), ops) /\ Free(<<Do("latch", s)>>, ops)
      BY <2>2
    <3>2. Free(TryTpmNvOperations(s) \o <<Do("latch", s)>> \o calls["tool"], ops)
      BY <3>1, FreePushed
    <3> QED
      BY <2>3, <3>2, OneStack
  <2> QED
    BY <2>1, <2>3, <2>4, OneStack DEF Effect, Rebuilt
<1>6. CASE Latch(p)
  BY <1>1, <1>3, <1>6 DEF Latch, At, Top
<1>7. CASE LatchFails(p)
  <2>1. /\ calls[p] # << >> /\ Top(p).op \in LibraryOps
        /\ calls' = [calls EXCEPT ![p] = From(Tail(calls[p]), Handlers \ {"ignore"})]
    BY <1>1, <1>7 DEF LatchFails, At, Top
  <2>2. p = "tool" => \A ops : Free(calls["tool"], ops)
                       => Free(From(Tail(calls["tool"]), Handlers \ {"ignore"}), ops)
    BY <2>1, FreeTail, FreeFrom
  <2> DEFINE q == From(Tail(calls[p]), Handlers \ {"ignore"})
  <2>3. p = "tool" => \A ops : Free(calls["tool"], ops) => Free(q, ops)
    BY ONLY <2>2
  <2>4. calls' = [calls EXCEPT ![p] = q]
    BY ONLY <2>1
  <2> HIDE DEF q
  <2>5. /\ calls' = [x \in Processes |-> calls'[x]]
        /\ p = "tool" => calls'["tool"] = q
        /\ p # "tool" => calls'["tool"] = calls["tool"]
    BY <2>4, OneStack
  <2> QED
    BY ONLY <2>1, <2>3, <2>5 DEF Effect, Rebuilt
<1>8. CASE Enter(p)
  <2>1. /\ calls[p] # << >> /\ Top(p).op \in Functions
        /\ calls' = [calls EXCEPT ![p] = Body(Top(p)) \o Tail(@)]
    BY <1>8 DEF Enter
  <2>2. \A ops : ops \cap LibraryOps = {} => Free(Body(Top(p)), ops)
    <3>1. BodyOps \subseteq LibraryOps
      BY DEF BodyOps, LibraryOps, Handlers, LibraryHandlers
    <3> QED
      BY <2>1, <3>1, LibraryBodies
  <2> QED
    BY <1>1, <1>4, <2>1, <2>2
<1>9. CASE Single(p)
  BY <1>1, <1>3, <1>9 DEF Single
<1>10. CASE LoadFails(p)
  <2> DEFINE s == Top(p).slot
  <2>1. /\ calls[p] # << >> /\ Top(p).op \in LibraryOps
        /\ calls' = [calls EXCEPT ![p] = <<Do("LimpetEvictHmacKey", s), Do("rethrow", s)>> \o Tail(@)]
    BY <1>1, <1>10 DEF LoadFails, At, Top
  <2> HIDE DEF s
  <2>2. ASSUME NEW ops, ops \cap LibraryOps = {}
        PROVE  Free(<<Do("LimpetEvictHmacKey", s), Do("rethrow", s)>>, ops)
    <3>1. {"LimpetEvictHmacKey", "rethrow"} \cap ops = {}
      BY <1>1, <2>2
    <3> QED
      BY <1>2, <3>1, FreeTwo
  <2> QED
    BY <1>4, <2>1, <2>2
<1>11. CASE SingleFails(p)
  BY <1>1, <1>3, <1>11 DEF SingleFails
<1>12. CASE FinallyDeleteBlob(p)
  BY <1>1, <1>3, <1>12 DEF FinallyDeleteBlob, At, Top
<1>13. CASE Rethrow(p)
  BY <1>1, <1>3, <1>13 DEF Rethrow, At, Top
<1>14. CASE LooksFurther(p)
  <2> DEFINE r == <<Call("read certificate", Top(p).slot, NextPlace(Top(p)))>>
  <2>1. /\ calls[p] # << >> /\ Top(p).op \in LibraryOps
        /\ calls' = [calls EXCEPT ![p] = r \o Tail(@)]
    BY <1>1, <1>14 DEF LooksFurther
  <2>2. ASSUME NEW ops, ops \cap LibraryOps = {}
        PROVE  Free(r, ops)
    <3>1. {"read certificate"} \cap ops = {}
      BY <2>2 DEF LibraryOps, SingleCalls
    <3>2. Call("read certificate", Top(p).slot, NextPlace(Top(p))).op = "read certificate"
      BY <1>2
    <3> QED
      BY <3>1, <3>2, FreeOne
  <2> HIDE DEF r
  <2> QED
    BY <1>4, <2>1, <2>2
<1> QED
  BY <1>5, <1>6, <1>7, <1>8, <1>9, <1>10, <1>11, <1>12, <1>13, <1>14 DEF Library

LEMMA EffectKeepsStacks ==
  ASSUME StackInv, Effect, faults' = faults \/ faults' = faults + 1
  PROVE  StackInv'
<1>1. IsStack(calls'["tool"])
  BY StackIsFree DEF StackInv, Effect, Rebuilt
<1> QED
  BY <1>1 DEF StackInv, Effect

\* The device's own steps.
LEMMA DeviceEffect ==
  ASSUME StackInv, Next
  PROVE  Effect /\ (faults' = faults \/ faults' = faults + 1) /\ StackInv'
<1>1. /\ {"agent", "app", "provisioner", "tool"} = Processes
      /\ {"token", "ignore", "EmptyTpmSlot"} \subseteq LibraryOps
  BY IdentityParametersOK DEF LibraryOps, Handlers
<1>2. ASSUME NEW p \in Processes \ {"tool"}, NEW q, calls' = [calls EXCEPT ![p] = q]
      PROVE  Effect
  BY <1>2, OneStack DEF Effect
<1>3. ASSUME NEW p \in Processes \ {"tool"}, NEW ok, Returned(p, ok)
      PROVE  Effect
  BY <1>2, <1>3 DEF Returned
<1>4. UNCHANGED calls => Effect
  BY DEF Effect, StackInv
<1>5. CASE Agent
  <2>1. faults' = faults \/ faults' = faults + 1
    BY <1>5 DEF Agent, GetConnectionString, GotConnectionString, NoConnectionString, GivesUp,
         Registered, DpsRegisterDevice, CheckedDevice, ProvDeviceLLRegisterDevice,
         RegistrationFails, CreateModules, CreateEachModule, CreateModule, CheckedModule, GetModule, Expand, Fault
  <2>2. \/ UNCHANGED calls
        \/ \E q : calls' = [calls EXCEPT !["agent"] = q]
    <3>1. CASE GetConnectionString \/ NoConnectionString
      BY <3>1 DEF GetConnectionString, NoConnectionString
    <3>2. CASE GotConnectionString \/ GivesUp \/ Registered
      BY <3>2 DEF GotConnectionString, GivesUp, Registered, Returned
    <3>3. CASE DpsRegisterDevice \/ CreateModules \/ CreateEachModule \/ CreateModule
      BY <3>3 DEF DpsRegisterDevice, CreateModules, CreateEachModule, CreateModule, Expand
    <3>4. CASE CheckedDevice \/ CheckedModule
      BY <3>4 DEF CheckedDevice, CheckedModule
    <3>5. CASE ProvDeviceLLRegisterDevice \/ RegistrationFails
      BY <3>5 DEF ProvDeviceLLRegisterDevice, RegistrationFails, Returned
    <3>6. CASE GetModule
      BY <3>6 DEF GetModule, Returned
    <3> QED
      BY <1>5, <3>1, <3>2, <3>3, <3>4, <3>5, <3>6 DEF Agent
  <2> QED
    BY <1>1, <1>2, <1>4, <2>1, <2>2, EffectKeepsStacks
<1>6. CASE RenewSASToken
  BY <1>4, <1>6, EffectKeepsStacks DEF RenewSASToken, library
<1>7. CASE AppGetConnectionString \/ Provision \/ Restart
  <2>1. faults' = faults
    BY <1>7 DEF AppGetConnectionString, Provision, Restart
  <2>2. \E p \in {"agent", "app", "provisioner"} : \E q : calls' = [calls EXCEPT ![p] = q]
    BY <1>7 DEF AppGetConnectionString, Provision, Restart
  <2> QED
    BY <1>1, <1>2, <2>1, <2>2, EffectKeepsStacks
<1>8. CASE Imported
  BY <1>1, <1>3, <1>8, EffectKeepsStacks DEF Imported
<1>9. ASSUME NEW p \in Processes, Shared(p)
      PROVE  Effect /\ (faults' = faults \/ faults' = faults + 1)
  <2>1. CASE InLibrary(p)
    <3>1. Library(p)
      BY <2>1 DEF InLibrary
    <3>2. faults' = faults \/ faults' = faults + 1
      BY <3>1 DEF Library, UseRegistry, Latch, LatchFails, Enter, Single, LoadFails, LooksFurther, SingleFails,
           FinallyDeleteBlob, Rethrow, Fault
    <3> QED
      BY <3>1, <3>2, LibraryEffect
  <2>2. CASE Token(p) \/ Ignore(p)
    <3>1. /\ calls[p] # << >> /\ Top(p).op \in LibraryOps /\ Returned(p, TRUE)
          /\ faults' = faults
      BY <1>1, <2>2 DEF Token, Ignore, At, Top
    <3> QED
      BY <3>1, ReturnedOnStack DEF Effect, Rebuilt
  <2>3. CASE EmptyTpmSlot(p)
    <3> DEFINE s == Top(p).slot
               r == <<Do("LimpetDestroyURI", s), Do("ignore", s), Do("LimpetEvictHmacKey", s),
                      Do("ignore", s)>>
    <3>1. /\ calls[p] # << >> /\ Top(p).op \in LibraryOps /\ faults' = faults
          /\ calls' = [calls EXCEPT ![p] = r \o Tail(@)]
      BY <1>1, <2>3 DEF EmptyTpmSlot, Expand, At, Top
    <3>2. ASSUME NEW ops, ops \cap LibraryOps = {}
          PROVE  Free(r, ops)
      <4>1. {"LimpetDestroyURI", "ignore", "LimpetEvictHmacKey"} \cap ops = {}
        BY <3>2 DEF LibraryOps, Functions, Handlers
      <4>2. /\ Do("LimpetDestroyURI", s).op = "LimpetDestroyURI" /\ Do("ignore", s).op = "ignore"
            /\ Do("LimpetEvictHmacKey", s).op = "LimpetEvictHmacKey"
        BY DEF Do, Call
      <4> HIDE DEF s
      <4> QED
        BY <4>1, <4>2, FreeFour
    <3> HIDE DEF r
    <3> QED
      BY <3>1, <3>2, ReplacedOnStack DEF Effect, Rebuilt
  <2> QED
    BY <1>9, <2>1, <2>2, <2>3 DEF Shared
<1> QED
  BY <1>5, <1>6, <1>7, <1>8, <1>9, EffectKeepsStacks DEF Next

-----------------------------------------------------------------------------
(* The tool's commands *)

FileOps == {"read file", "empty file", "fill file", "write if requested", "payload key",
            "LimpetGetTpmKey2BPub", "add plain certificate", "LimpetForceClearTpm",
            "decrypt if requested", "decrypt", "hostage", "got secret"}
AuthorityOps == {"LimpetIssueCertificate", "LimpetGetTpmKey2BPubFromCert",
                 "LimpetChallengeIdentityCert", "LimpetActivateIdentityCert",
                 "LimpetCreateHostageKeyEx"}
CommandOps == FileOps \cup AuthorityOps \cup (LibraryOps \ {"latch"})
              \cup {"LimpetImportIdentityCert", "LimpetSignWithIdentityCert"}

Encrypting == {"encrypt", "encrypt if requested"}

\* What the records of a stack have in common.
LEMMA Ops ==
  /\ \A op, s, h : Call(op, s, h).op = op
  /\ \A op, s : Do(op, s).op = op
  /\ \A op, a : On(op, a).op = op
  /\ \A op, f : File(op, f).op = op
BY DEF Call, Do, On, File

\* A function on 1 .. n, as ListLogicalDevices is given, is a sequence.
LEMMA FunctionIsSequence ==
  ASSUME NEW n \in Nat, NEW D, NEW f \in [1 .. n -> D]
  PROVE  f \in Seq(D)
OBVIOUS

LEMMA CommandsOnStack ==
  ASSUME NEW c, c.name \in CommandNames, NEW ops, ops \cap CommandOps = {},
         c.name \in {"epl", "cai"} => ops \cap Encrypting = {},
         c.name = "dld" => "destroyed" \notin ops,
         c.name \in {"read", "delete"} => c.alg \in Algorithms
  PROVE  Free(Commands(c) \o <<On("output", None)>>, ops)
<1>1. /\ {"read file", "empty file", "fill file", "write if requested", "payload key",
          "LimpetGetTpmKey2BPub", "add plain certificate", "LimpetForceClearTpm"} \cap ops = {}
      /\ {"decrypt if requested", "decrypt", "hostage", "got secret"} \cap ops = {}
      /\ {"LimpetIssueCertificate", "LimpetGetTpmKey2BPubFromCert", "LimpetChallengeIdentityCert",
          "LimpetActivateIdentityCert", "LimpetCreateHostageKeyEx"} \cap ops = {}
      /\ {"LimpetImportIdentityCert", "LimpetSignWithIdentityCert"} \cap ops = {}
      /\ {"LimpetReadUriName", "LimpetReadHmacName", "LimpetStoreURI", "LimpetReadURI",
          "LimpetDestroyURI", "LimpetCreateHmacKey", "LimpetSignWithIdentityHmacKey",
          "LimpetGenerateSASToken", "LimpetEvictHmacKey"} \cap ops = {}
      /\ {"ignore", "output"} \cap ops = {}
  BY DEF CommandOps, FileOps, AuthorityOps, LibraryOps, Functions, Handlers
<1>2. ASSUME NEW op, op \notin ops
      PROVE  /\ \A a : Free(<<On(op, a)>>, ops)
             /\ \A f : Free(<<File(op, f)>>, ops)
             /\ \A s : Free(<<Do(op, s)>>, ops)
             /\ \A s, h : Free(<<Call(op, s, h)>>, ops)
  <2>1. \A x : x.op = op => Free(<<x>>, ops)
    BY <1>2, FreeOne
  <2> QED
    BY <2>1, Ops
<1>3. \A f : /\ Free(ReadFromDisk(f), ops) /\ Free(WriteIfRequested(f), ops)
             /\ Free(WriteToDisk(f), ops)
  <2> TAKE f
  <2>1. Free(<<File("empty file", f), File("fill file", f)>>, ops)
    <3>1. File("empty file", f).op = "empty file" /\ File("fill file", f).op = "fill file"
      BY Ops
    <3> QED
      BY <1>1, <3>1, FreeTwo
  <2> QED
    BY <1>1, <1>2, <2>1 DEF ReadFromDisk, WriteIfRequested, WriteToDisk
<1>4. ASSUME NEW op, op \notin ops
      PROVE  Free(LimpetSymmetricPayloadProtection(op), ops)
  BY <1>4, FreeTwo DEF LimpetSymmetricPayloadProtection
<1>5. \A f : Free(GetPlatformKey2BPub(f), ops)
  BY <1>1, <1>2, <1>3, FreePushed DEF GetPlatformKey2BPub
<1>6. Free(ListLogicalDevices, ops)
  <2> DEFINE n == 2 * Cardinality(Slots)
             D == {ListLogicalDevices[i] : i \in 1 .. n}
  <2>1. Cardinality(Slots) \in Nat
    BY IdentityParametersOK, FS_CardinalityType
  <2>2. \A i \in 1 .. n : ListLogicalDevices[i].op \in {"LimpetReadUriName", "LimpetReadHmacName"}
    BY Ops DEF ListLogicalDevices
  <2>3. ListLogicalDevices = [i \in 1 .. n |-> ListLogicalDevices[i]]
    BY DEF ListLogicalDevices
  <2>4. \A x \in D : x.op \notin ops
    BY <1>1, <2>2
  <2>5. ListLogicalDevices \in Seq(D)
    <3>1. ListLogicalDevices \in [1 .. n -> D]
      BY <2>3
    <3>2. n \in Nat
      BY <2>1
    <3> QED
      BY ONLY <3>1, <3>2, FunctionIsSequence
  <2> QED
    BY <2>4, <2>5 DEF Free, Allowed
<1>7. CASE c.name = "epl"
  <2>1. "encrypt" \notin ops
    BY <1>7 DEF Encrypting
  <2> QED
    BY <1>1, <1>2, <1>4, <1>7, <2>1, FreePushed DEF Commands, EncryptPayload
<1>8. CASE c.name = "dpl"
  BY <1>1, <1>2, <1>4, <1>8, FreePushed DEF Commands, DecryptPayload
<1>9. CASE c.name = "sic"
  BY <1>1, <1>2, <1>3, <1>9, FreePushed DEF Commands, SignWithCert
<1>10. CASE c.name = "iic"
  BY <1>1, <1>2, <1>3, <1>10, FreePushed DEF Commands, ImportAuthCert
<1>11. CASE c.name = "aic"
  BY <1>1, <1>2, <1>3, <1>11, FreePushed DEF Commands, AuthIssueCert
<1>12. CASE c.name = "cai"
  <2>1. "encrypt if requested" \notin ops
    BY <1>12 DEF Encrypting
  <2>2. Free(<<On("LimpetGetTpmKey2BPubFromCert", None),
               On("LimpetChallengeIdentityCert", None)>>, ops)
    <3>1. /\ On("LimpetGetTpmKey2BPubFromCert", None).op = "LimpetGetTpmKey2BPubFromCert"
          /\ On("LimpetChallengeIdentityCert", None).op = "LimpetChallengeIdentityCert"
      BY Ops
    <3> QED
      BY <1>1, <3>1, FreeTwo
  <2>3. Free(ChallengeAsymId, ops)
    BY <1>2, <1>3, <2>1, <2>2, FreePushed DEF ChallengeAsymId
  <2> QED
    BY <1>1, <1>2, <1>12, <2>3, FreePushed DEF Commands
<1>13. CASE c.name = "csi"
  <2>1. Free(CreateBoundSymId(c.slot, c.hub), ops)
    BY <1>1, <1>2, <1>3, FreePushed DEF CreateBoundSymId
  <2> QED
    BY <1>1, <1>2, <1>13, <2>1, FreePushed DEF Commands
<1>14. CASE c.name = "ics"
  BY <1>1, <1>2, <1>3, <1>14, FreePushed DEF Commands, ImportCertificate
<1>15. CASE c.name = "fct"
  BY <1>1, <1>2, <1>15, FreePushed DEF Commands, ForceClearTpm
<1>16. CASE c.name = "lld"
  BY <1>1, <1>2, <1>6, <1>16, FreePushed DEF Commands
<1>17. CASE c.name \in {"srk", "erk"}
  BY <1>1, <1>2, <1>5, <1>17, FreePushed DEF Commands
<1>18. CASE c.name = "pcs"
  <2>1. /\ Call("LimpetStoreURI", c.slot, c.hub).op = "LimpetStoreURI"
        /\ Call("LimpetCreateHmacKey", c.slot, c.hub).op = "LimpetCreateHmacKey"
    BY Ops
  <2>2. Free(ProvConnectionStr(c.slot, c.hub), ops)
    BY <1>1, <2>1, FreeTwo DEF ProvConnectionStr
  <2> QED
    BY <1>1, <1>2, <1>18, <2>2, FreePushed DEF Commands
<1>19. CASE c.name \in {"sur", "rur", "dur", "chk"}
  BY <1>1, <1>2, <1>19, FreePushed DEF Commands, StoreDeviceUri, ReadDeviceUri, DestroyDeviceUri,
     CreateHmacKey
<1>20. CASE c.name \in {"shk", "ast", "ehk"}
  BY <1>1, <1>2, <1>20, FreePushed DEF Commands, SignWithHmacKey, GenerateAzureToken, EvictHmacKey
<1>21. CASE c.name \in {"read", "delete"}
  <2>1. \A op \in KeyFunctions : On(op, c.alg) \in KeyFunctionCalls
    BY <1>21 DEF KeyFunctionCalls
  <2>2. \A op \in KeyFunctions : Free(<<On(op, c.alg)>>, ops)
    BY <2>1, FreeKeyFunction
  <2>3. /\ Free(<<On("LimpetReadOrCreateIdentityKeyCert", c.alg)>>, ops)
        /\ Free(<<On("LimpetDestroyIdentityCert", c.alg)>>, ops)
    BY <2>2 DEF KeyFunctions
  <2> QED
    BY <1>1, <1>2, <1>3, <1>21, <2>3, FreePushed DEF Commands, ReadCert, DeleteCert
<1>22. CASE c.name = "activate"
  <2>1. Free(<<On("LimpetActivateIdentityCert", c.alg), On("decrypt if requested", c.alg)>>, ops)
    <3>1. /\ On("LimpetActivateIdentityCert", c.alg).op = "LimpetActivateIdentityCert"
          /\ On("decrypt if requested", c.alg).op = "decrypt if requested"
      BY Ops
    <3> QED
      BY <1>1, <3>1, FreeTwo
  <2>2. Free(ActivateId(c.alg), ops)
    BY <1>3, <2>1, FreePushed DEF ActivateId
  <2> QED
    BY <1>1, <1>2, <1>22, <2>2, FreePushed DEF Commands
<1>23. CASE c.name = "dld"
  <2> DEFINE s == c.slot
  <2>1. /\ Do("LimpetDestroyURI", s).op = "LimpetDestroyURI" /\ Do("ignore", s).op = "ignore"
        /\ Do("LimpetEvictHmacKey", s).op = "LimpetEvictHmacKey"
        /\ Do("destroyed", s).op = "destroyed" /\ "destroyed" \notin ops
    BY <1>23, Ops
  <2>2. /\ On("LimpetDestroyIdentityCert", "RSA") \in KeyFunctionCalls
        /\ On("LimpetDestroyIdentityCert", "ECDSA") \in KeyFunctionCalls
    BY ToolParametersOK DEF KeyFunctionCalls, KeyFunctions
  <2> HIDE DEF s
  <2>3. Free(DestroyLogicalDev(s), ops)
    <3>1. Free(<<Do("LimpetDestroyURI", s), Do("ignore", s), Do("LimpetEvictHmacKey", s),
                 Do("ignore", s)>>, ops)
      BY <1>1, <2>1, FreeFour
    <3>2. /\ Allowed(On("LimpetDestroyIdentityCert", "RSA"), ops)
          /\ Allowed(On("LimpetDestroyIdentityCert", "ECDSA"), ops)
          /\ Allowed(Do("ignore", s), ops) /\ Allowed(Do("destroyed", s), ops)
      BY <1>1, <2>1, <2>2 DEF Allowed
    <3>3. Free(<<On("LimpetDestroyIdentityCert", "RSA"), Do("ignore", s),
                 On("LimpetDestroyIdentityCert", "ECDSA"), Do("ignore", s), Do("destroyed", s)>>, ops)
      BY <3>2, FiveAllowed
    <3>5. DestroyLogicalDev(s)
            = <<Do("LimpetDestroyURI", s), Do("ignore", s), Do("LimpetEvictHmacKey", s),
                Do("ignore", s)>>
              \o <<On("LimpetDestroyIdentityCert", "RSA"), Do("ignore", s),
                   On("LimpetDestroyIdentityCert", "ECDSA"), Do("ignore", s), Do("destroyed", s)>>
      BY DEF DestroyLogicalDev
    <3> QED
      BY <3>1, <3>3, <3>5, FreePushed
  <2>4. Commands(c) = DestroyLogicalDev(s)
    BY <1>23 DEF Commands, s
  <2> QED
    BY <1>1, <1>2, <2>3, <2>4, FreePushed
<1>24. CASE c.name = "isi"
  <2>1. Free(<<Do("hostage", c.slot), Do("got secret", c.slot)>>, ops)
    <3>1. /\ Do("hostage", c.slot).op = "hostage" /\ Do("got secret", c.slot).op = "got secret"
      BY Ops
    <3> QED
      BY <1>1, <3>1, FreeTwo
  <2>2. Free(ImportHostage(c.slot), ops)
    BY <1>3, <2>1, FreePushed DEF ImportHostage
  <2> QED
    BY <1>1, <1>2, <1>24, <2>2, FreePushed DEF Commands
<1> QED
  BY <1>7, <1>8, <1>9, <1>10, <1>11, <1>12, <1>13, <1>14, <1>15, <1>16, <1>17, <1>18, <1>19, <1>20,
     <1>21, <1>22, <1>23, <1>24 DEF CommandNames

\* Kinds of calls that no other call leads to.
Closed(ops) ==
    /\ ops \cap (FileOps \cup (LibraryOps \ {"latch"})) = {}
    /\ "encrypt" \in ops => "encrypt if requested" \in ops

\* The tool's own steps within a command.
ToolStep ==
    \/ ReadFile \/ ReadPayloadKey \/ ReadPublicKey \/ EmptyFile \/ FillFile \/ IfRequested
    \/ EncryptHalf \/ DecryptHalf \/ AddPlainCertificate \/ HandHostageOver \/ GotSecret
    \/ LimpetForceClearTpm \/ Reboot \/ Destroyed \/ Output \/ ToolEnds \/ FileCallFails

StepEffect ==
    /\ calls' = [p \in Processes |-> calls'[p]]
    /\ \A ops : Closed(ops) /\ Free(calls["tool"], ops) => Free(calls'["tool"], ops)

LEMMA StepEffectKeepsStacks ==
  ASSUME StackInv, StepEffect, faults' = faults \/ faults' = faults + 1
  PROVE  StackInv'
<1>1. Closed({})
  BY DEF Closed
<1>2. IsStack(calls'["tool"])
  BY <1>1, StackIsFree DEF StackInv, StepEffect
<1> QED
  BY <1>2 DEF StackInv, StepEffect

LEMMA ToolEffect ==
  ASSUME StackInv, ToolStep
  PROVE  StepEffect /\ (faults' = faults \/ faults' = faults + 1) /\ StackInv'
<1>1. "tool" \in Processes
  BY IdentityParametersOK
<1>2. ASSUME calls["tool"] # << >>, NEW ok, Returned("tool", ok)
      PROVE  StepEffect
  BY <1>1, <1>2, ReturnedOnStack DEF StepEffect
<1>3. ASSUME calls["tool"] # << >>, NEW r,
             calls' = [calls EXCEPT !["tool"] = r \o Tail(@)],
             \A ops : Closed(ops) /\ Free(calls["tool"], ops) => Free(r, ops)
      PROVE  StepEffect
  BY <1>1, <1>3, ReplacedOnStack DEF StepEffect
<1>4. CASE ReadFile \/ ReadPayloadKey \/ ReadPublicKey \/ EmptyFile \/ FillFile
           \/ EncryptHalf \/ DecryptHalf \/ GotSecret \/ Destroyed
  <2>1. /\ calls["tool"] # << >> /\ Returned("tool", TRUE) /\ faults' = faults
    BY <1>4 DEF ReadFile, ReadPayloadKey, ReadPublicKey, EmptyFile, FillFile, EncryptHalf,
         DecryptHalf, GotSecret, Destroyed, At, unlessFiles
  <2> QED
    BY <1>2, <2>1, StepEffectKeepsStacks
<1>5. CASE AddPlainCertificate \/ LimpetForceClearTpm \/ Output
  <2>1. /\ calls["tool"] # << >> /\ Returned("tool", TRUE) /\ faults' = faults
    BY <1>5 DEF AddPlainCertificate, LimpetForceClearTpm, Output, Forgets, Cleared, At
  <2> QED
    BY <1>2, <2>1, StepEffectKeepsStacks
<1>6. CASE FileCallFails
  <2>1. /\ calls["tool"] # << >> /\ Returned("tool", FALSE)
        /\ faults' = faults \/ faults' = faults + 1
    BY <1>6 DEF FileCallFails, Fault
  <2> QED
    BY <1>2, <2>1, StepEffectKeepsStacks
<1>7. CASE Reboot
  <2>1. UNCHANGED calls /\ faults' = faults
    BY <1>7 DEF Reboot, Cleared
  <2> QED
    BY <2>1, StepEffectKeepsStacks DEF StepEffect, StackInv
<1>8. CASE ToolEnds
  <2>1. calls' = [calls EXCEPT !["tool"] = << >>] /\ faults' = faults
    BY <1>8 DEF ToolEnds, Forgets
  <2>2. StepEffect
    BY <1>1, <2>1, OneStack, FreeEmpty DEF StepEffect
  <2> QED
    BY <2>1, <2>2, StepEffectKeepsStacks
<1>9. CASE HandHostageOver
  <2>1. PICK r : /\ calls["tool"] # << >> /\ faults' = faults
                 /\ calls' = [calls EXCEPT !["tool"] = r \o Tail(@)]
                 /\ \E x : r = <<x>> /\ x.op = "LimpetImportHostageKey"
    <3> DEFINE h == IF seen["tool"].import.srk = srk THEN seen["tool"].import.hub ELSE "stale"
    <3>1. /\ calls["tool"] # << >> /\ faults' = faults
          /\ calls' = [calls EXCEPT !["tool"] =
                          <<Call("LimpetImportHostageKey", Top("tool").slot, h)>> \o Tail(@)]
      BY <1>9 DEF HandHostageOver, At, unlessFiles
    <3>2. Call("LimpetImportHostageKey", Top("tool").slot, h).op = "LimpetImportHostageKey"
      BY Ops
    <3> HIDE DEF h
    <3> QED
      BY <3>1, <3>2
  <2>2. \A ops : Closed(ops) => Free(r, ops)
    <3> SUFFICES ASSUME NEW ops, Closed(ops)
                 PROVE  Free(r, ops)
      OBVIOUS
    <3>1. "LimpetImportHostageKey" \notin ops
      <4>1. "LimpetImportHostageKey" \in LibraryOps /\ "LimpetImportHostageKey" # "latch"
        BY DEF LibraryOps, Functions
      <4> QED
        BY <4>1 DEF Closed
    <3> QED
      BY <2>1, <3>1, FreeOne
  <2> QED
    BY <1>3, <2>1, <2>2, StepEffectKeepsStacks
<1>10. CASE IfRequested
  <2>1. calls["tool"] # << >> /\ faults' = faults
    BY <1>10 DEF IfRequested, unlessFiles
  <2>2. PICK r : /\ calls' = [calls EXCEPT !["tool"] = r \o Tail(@)]
                 /\ \/ r = << >>
                    \/ r = WriteToDisk(Top("tool").file)
                    \/ r = LimpetSymmetricPayloadProtection("decrypt")
                    \/ /\ Top("tool").op = "encrypt if requested"
                       /\ r = LimpetSymmetricPayloadProtection("encrypt")
    <3> DEFINE body == CASE At("tool", "write if requested")   -> WriteToDisk(Top("tool").file)
                         [] At("tool", "encrypt if requested") ->
                                LimpetSymmetricPayloadProtection("encrypt")
                         [] At("tool", "decrypt if requested") ->
                                LimpetSymmetricPayloadProtection("decrypt")
                         [] OTHER -> << >>
    <3>1. PICK requested \in BOOLEAN :
             calls' = [calls EXCEPT !["tool"] =
                          (IF requested THEN body ELSE << >>) \o Tail(@)]
      BY <1>10 DEF IfRequested
    <3>2. \/ body = << >>
          \/ body = WriteToDisk(Top("tool").file)
          \/ body = LimpetSymmetricPayloadProtection("decrypt")
          \/ /\ Top("tool").op = "encrypt if requested"
             /\ body = LimpetSymmetricPayloadProtection("encrypt")
      BY DEF At, Top
    <3> HIDE DEF body
    <3> QED
      BY <3>1, <3>2
  <2>3. ASSUME NEW ops, Closed(ops), Free(calls["tool"], ops)
        PROVE  Free(r, ops)
    <3>1. {"empty file", "fill file", "decrypt"} \cap ops = {}
      BY <2>3 DEF Closed, FileOps
    <3>2. Top("tool").op \notin ops \/ Top("tool").op \in KeyFunctions
      <4>1. \A x \in KeyFunctionCalls : x.op \in KeyFunctions
        BY Ops DEF KeyFunctionCalls
      <4> QED
        BY <2>1, <2>3, <4>1, FreeTail DEF Top, Allowed
    <3>3. \A f : Free(WriteToDisk(f), ops)
      <4> TAKE f
      <4>1. File("empty file", f).op = "empty file" /\ File("fill file", f).op = "fill file"
        BY Ops
      <4> QED
        BY <3>1, <4>1, FreeTwo DEF WriteToDisk
    <3>4. ASSUME NEW op, op \notin ops
          PROVE  Free(LimpetSymmetricPayloadProtection(op), ops)
      BY <3>4, FreeTwo DEF LimpetSymmetricPayloadProtection
    <3> QED
      BY <2>2, <2>3, <3>1, <3>2, <3>3, <3>4, FreeEmpty DEF Closed, KeyFunctions
  <2> QED
    BY <1>3, <2>1, <2>2, <2>3, StepEffectKeepsStacks
<1> QED
  BY <1>4, <1>5, <1>6, <1>7, <1>8, <1>9, <1>10 DEF ToolStep

\* What the functions on keys and certificates call.
Inner == {"open key", "create key", "add certificate", "set property", "get property",
          "delete certificates", "delete key", "find by key", "find by hash", "acquire key"}

LEMMA IdentityEffect ==
  ASSUME StackInv, IdentityCall("tool")
  PROVE  /\ StackInv' /\ (faults' = faults \/ faults' = faults + 1)
         /\ \A ops : Closed(ops) /\ ops \cap Inner = {} /\ Free(calls["tool"], ops)
                    => Free(calls'["tool"], ops)
<1>1. "tool" \in Processes
  BY IdentityParametersOK
<1> DEFINE Fine == /\ calls' = [p \in Processes |-> calls'[p]]
                   /\ \A ops : Closed(ops) /\ ops \cap Inner = {} /\ Free(calls["tool"], ops)
                               => Free(calls'["tool"], ops)
<1>2. ASSUME calls["tool"] # << >>, NEW ok, Returned("tool", ok)
      PROVE  Fine
  BY <1>1, <1>2, ReturnedOnStack
<1>3. ASSUME calls["tool"] # << >>, NEW r,
             calls' = [calls EXCEPT !["tool"] = r \o Tail(@)],
             \A ops : ops \cap Inner = {} => Free(r, ops)
      PROVE  Fine
  BY <1>1, <1>3, ReplacedOnStack
<1>4. ASSUME Fine, faults' = faults \/ faults' = faults + 1
      PROVE  StackInv'
  <2>1. Closed({}) /\ {} \cap Inner = {}
    BY DEF Closed
  <2>2. IsStack(calls'["tool"])
    BY <1>4, <2>1, StackIsFree DEF StackInv
  <2> QED
    BY <1>4, <2>2 DEF StackInv
<1>5. ASSUME NEW a, NEW ops, ops \cap Inner = {}
      PROVE  /\ Free(LimpetReadOrCreateIdentityKeyCert(a), ops) /\ Free(CreateIdentityKey(a), ops)
             /\ Free(LimpetDestroyIdentityCert(a), ops) /\ Free(LimpetImportIdentityCert, ops)
             /\ Free(LimpetSignWithIdentityCert, ops)
  <2>1. {"open key", "create key", "add certificate", "set property", "get property",
         "delete certificates", "delete key", "find by key", "find by hash", "acquire key"}
           \cap ops = {}
    BY <1>5 DEF Inner
  <2>2. Free(LimpetReadOrCreateIdentityKeyCert(a), ops)
    <3>1. On("open key", a).op = "open key" /\ On("get property", a).op = "get property"
      BY Ops
    <3> QED
      BY <2>1, <3>1, FreeTwo DEF LimpetReadOrCreateIdentityKeyCert
  <2>3. Free(CreateIdentityKey(a), ops)
    <3>1. /\ On("create key", a).op = "create key" /\ On("add certificate", a).op = "add certificate"
          /\ On("set property", a).op = "set property"
      BY Ops
    <3> QED
      BY <2>1, <3>1, FreeThree DEF CreateIdentityKey
  <2>4. Free(LimpetDestroyIdentityCert(a), ops)
    <3>1. /\ On("get property", a).op = "get property"
          /\ On("delete certificates", a).op = "delete certificates"
          /\ On("delete key", a).op = "delete key"
      BY Ops
    <3> QED
      BY <2>1, <3>1, FreeThree DEF LimpetDestroyIdentityCert
  <2>5. Free(LimpetImportIdentityCert, ops)
    <3>1. /\ On("find by key", None).op = "find by key" /\ On("acquire key", None).op = "acquire key"
          /\ On("add certificate", None).op = "add certificate"
          /\ On("set property", None).op = "set property"
      BY Ops
    <3> QED
      BY <2>1, <3>1, FreeFour DEF LimpetImportIdentityCert
  <2>6. Free(LimpetSignWithIdentityCert, ops)
    <3>1. /\ On("find by hash", None).op = "find by hash" /\ On("acquire key", None).op = "acquire key"
      BY Ops
    <3> QED
      BY <2>1, <3>1, FreeTwo DEF LimpetSignWithIdentityCert
  <2> QED
    BY <2>2, <2>3, <2>4, <2>5, <2>6
<1>6. CASE EnterIdentity("tool")
  <2>1. PICK r : /\ calls["tool"] # << >> /\ faults' = faults
                 /\ calls' = [calls EXCEPT !["tool"] = r \o Tail(@)]
                 /\ \/ r = LimpetReadOrCreateIdentityKeyCert(Top("tool").alg)
                    \/ r = LimpetDestroyIdentityCert(Top("tool").alg)
                    \/ r = LimpetImportIdentityCert
                    \/ r = LimpetSignWithIdentityCert
    BY <1>6 DEF EnterIdentity, IdentityFunctions
  <2>2. \A ops : ops \cap Inner = {} => Free(r, ops)
    BY <1>5, <2>1
  <2>3. Fine
    BY <1>3, <2>1, <2>2
  <2> QED
    BY <1>4, <2>1, <2>3
<1>7. CASE OpenKey("tool")
  <2>1. calls["tool"] # << >> /\ (faults' = faults \/ faults' = faults + 1)
    BY <1>7 DEF OpenKey, At, Fault
  <2>2. \/ Returned("tool", TRUE)
        \/ calls' = [calls EXCEPT !["tool"] = CreateIdentityKey(Top("tool").alg) \o Tail(@)]
    BY <1>7 DEF OpenKey
  <2>3. \A ops : ops \cap Inner = {} => Free(CreateIdentityKey(Top("tool").alg), ops)
    BY <1>5
  <2>4. Fine
    BY <1>2, <1>3, <2>1, <2>2, <2>3
  <2> QED
    BY <1>4, <2>1, <2>4
<1>8. ASSUME calls["tool"] # << >>, NEW ok, Returned("tool", ok),
             faults' = faults \/ faults' = faults + 1
      PROVE  StackInv' /\ Fine
  BY <1>2, <1>4, <1>8
<1>9. CASE CreateKey("tool") \/ AddCertificate("tool") \/ SetCertificateProperty("tool")
           \/ GetCertificateProperty("tool") \/ DeleteKey("tool") \/ FindCertificate("tool")
           \/ AcquireKey("tool")
  <2>1. calls["tool"] # << >> /\ Returned("tool", TRUE) /\ faults' = faults
    BY <1>9 DEF CreateKey, AddCertificate, SetCertificateProperty, GetCertificateProperty, DeleteKey,
         FindCertificate, AcquireKey, At
  <2> QED
    BY <1>8, <2>1
<1>10. CASE LimpetIssueCertificate("tool") \/ LimpetGetTpmKey2BPubFromCert("tool")
            \/ LimpetChallengeIdentityCert("tool") \/ LimpetActivateIdentityCert("tool")
            \/ LimpetCreateHostageKeyEx("tool")
  <2>1. calls["tool"] # << >> /\ Returned("tool", TRUE) /\ faults' = faults
    BY <1>10 DEF LimpetIssueCertificate, LimpetGetTpmKey2BPubFromCert, LimpetChallengeIdentityCert,
         LimpetActivateIdentityCert, LimpetCreateHostageKeyEx, At
  <2> QED
    BY <1>8, <2>1
<1>11. CASE DeleteCertificates("tool")
  <2>1. calls["tool"] # << >> /\ faults' = faults /\ (UNCHANGED calls \/ Returned("tool", TRUE))
    BY <1>11 DEF DeleteCertificates, At
  <2>2. Fine
    BY <1>2, <2>1 DEF StackInv
  <2> QED
    BY <1>4, <2>1, <2>2
<1>12. CASE KeyCallFails("tool")
  <2>1. /\ calls["tool"] # << >> /\ Returned("tool", FALSE)
        /\ faults' = faults \/ faults' = faults + 1
    BY <1>12 DEF KeyCallFails, Fault
  <2> QED
    BY <1>8, <2>1
<1> QED
  BY <1>6, <1>7, <1>9, <1>10, <1>11, <1>12 DEF IdentityCall, Fault

-----------------------------------------------------------------------------
(* The identity keys *)

Mine == seen["tool"]

\* The container that the command found or made is the certificate's key's.
Bound ==
    /\ Mine.container \in Containers /\ Mine.container[1] = srk
    /\ ksp[Mine.container].key = Mine.cert.key /\ Mine.cert.key # NoKey

\* It is the one of a certificate of the store for the same key, or none.
Found ==
    Mine.container # None =>
        \E e \in certStore : e.container = Mine.container /\ e.cert.key = Mine.cert.key

\* The calls that functions on keys have still to make, and what is true then.
KeyWork(P) ==
    \/ \E a \in Algorithms :
          \/ P = <<On("open key", a), On("get property", a)>>
          \/ /\ P = <<On("create key", a), On("add certificate", a), On("set property", a),
                      On("get property", a)>>
             /\ ksp[<<srk, a>>].key = NoKey
          \/ /\ P = <<On("add certificate", a), On("set property", a), On("get property", a)>>
             /\ Bound
          \/ P = <<On("set property", a), On("get property", a)>> /\ Bound
          \/ P = <<On("get property", a)>>
          \/ P = <<On("get property", a), On("delete certificates", a), On("delete key", a)>>
          \/ /\ P = <<On("delete certificates", a), On("delete key", a)>>
             /\ ksp[<<srk, a>>].key = Mine.cert.key
          \/ /\ P = <<On("delete key", a)>>
             /\ \A e \in certStore : e.container # None => e.container # <<srk, a>>
    \/ P = <<On("find by key", None), On("acquire key", None), On("add certificate", None),
             On("set property", None)>>
    \/ /\ P = <<On("acquire key", None), On("add certificate", None), On("set property", None)>>
       /\ Found
    \/ P = <<On("add certificate", None), On("set property", None)>> /\ Bound
    \/ P = <<On("set property", None)>> /\ Bound
    \/ P = <<On("find by hash", None), On("acquire key", None)>>
    \/ P = <<On("acquire key", None)>>

SeenFields == {"cert", "container", "rek", "srk", "activation", "import", "secret"}

KeyFacts ==
    /\ srk \in 0 .. MaxClears /\ keys \in Nat
    /\ ksp = [c \in Containers |-> [key |-> ksp[c].key, cert |-> ksp[c].cert]]
    /\ seen = [p \in Processes |-> seen[p]]
    /\ seen["tool"] = [f \in SeenFields |-> seen["tool"][f]]
    /\ \A e \in certStore : e.container # None =>
          /\ e.container \in Containers /\ e.container[1] <= srk
          /\ e.container[1] = srk => /\ ksp[e.container].key = e.cert.key
                                     /\ e.cert.key # NoKey
    /\ \A c \in Containers : /\ ksp[c].key # NoKey => c[1] = srk
                             /\ ksp[c].cert # None => ksp[c].cert.key = ksp[c].key

KeyStack ==
    \/ Free(calls["tool"], Inner)
    \/ \E P, R : KeyWork(P) /\ Free(R, Inner) /\ calls["tool"] = P \o R

KeyInv ==
    /\ StackInv
    /\ faults = 0 => KeyFacts /\ Free(calls["tool"], KeyFunctions) /\ KeyStack

\* A stack of calls that are no places where failures are seen.
Calls(P) ==
    /\ IsStack(P) /\ P # << >> /\ Head(P).op \in Inner
    /\ IsStack(Tail(P)) /\ \A i \in 1 .. Len(Tail(P)) : Tail(P)[i].op \notin Handlers

LEMMA InnerCalls ==
  \A op \in Inner : \A a : On(op, a).op \in Inner /\ On(op, a).op \notin Handlers
<1>1. \A op \in Inner : op \notin Handlers
  BY DEF Inner, Handlers, LibraryHandlers
<1> QED
  BY <1>1, Ops

LEMMA CallsOne ==
  ASSUME NEW x, x.op \in Inner
  PROVE  Calls(<<x>>) /\ Head(<<x>>) = x /\ Tail(<<x>>) = << >>
<1>1. PICK S : S = {x}
  OBVIOUS
<1>2. <<x>> \in Seq(S) /\ << >> \in Seq(S) /\ Tail(<<x>>) = << >> /\ Head(<<x>>) = x
  BY <1>1
<1> QED
  BY <1>2 DEF Calls, IsStack

LEMMA CallsTwo ==
  ASSUME NEW x, x.op \in Inner, NEW y, y.op \notin Handlers
  PROVE  Calls(<<x, y>>) /\ Head(<<x, y>>) = x /\ Tail(<<x, y>>) = <<y>>
<1>1. PICK S : S = {x, y}
  OBVIOUS
<1>2. <<x, y>> \in Seq(S) /\ <<y>> \in Seq(S) /\ Tail(<<x, y>>) = <<y>> /\ Head(<<x, y>>) = x
  BY <1>1
<1> QED
  BY <1>2 DEF Calls, IsStack

LEMMA CallsThree ==
  ASSUME NEW x, x.op \in Inner, NEW y, y.op \notin Handlers, NEW z, z.op \notin Handlers
  PROVE  Calls(<<x, y, z>>) /\ Head(<<x, y, z>>) = x /\ Tail(<<x, y, z>>) = <<y, z>>
<1>1. PICK S : S = {x, y, z}
  OBVIOUS
<1>2. /\ <<x, y, z>> \in Seq(S) /\ <<y, z>> \in Seq(S) /\ Tail(<<x, y, z>>) = <<y, z>>
      /\ Head(<<x, y, z>>) = x
  BY <1>1
<1> QED
  BY <1>2 DEF Calls, IsStack

LEMMA CallsFour ==
  ASSUME NEW x, x.op \in Inner, NEW y, y.op \notin Handlers, NEW z, z.op \notin Handlers,
         NEW w, w.op \notin Handlers
  PROVE  /\ Calls(<<x, y, z, w>>) /\ Head(<<x, y, z, w>>) = x
         /\ Tail(<<x, y, z, w>>) = <<y, z, w>>
<1>1. PICK S : S = {x, y, z, w}
  OBVIOUS
<1>2. /\ <<x, y, z, w>> \in Seq(S) /\ <<y, z, w>> \in Seq(S)
      /\ Tail(<<x, y, z, w>>) = <<y, z, w>> /\ Head(<<x, y, z, w>>) = x
  BY <1>1
<1> QED
  BY <1>2 DEF Calls, IsStack

LEMMA ThreeAndOne ==
  ASSUME NEW x, NEW y, NEW z, NEW w
  PROVE  <<x, y, z>> \o <<w>> = <<x, y, z, w>>
<1>0. PICK S : S = {x, y, z, w}
  OBVIOUS
<1> DEFINE q == <<x, y, z>>
           r == <<w>>
           t == <<x, y, z, w>>
<1>1. /\ q \in Seq(S) /\ r \in Seq(S) /\ t \in Seq(S) /\ Len(q) = 3 /\ Len(r) = 1 /\ Len(t) = 4
      /\ t[1] = q[1] /\ t[2] = q[2] /\ t[3] = q[3] /\ t[4] = r[1]
  BY <1>0
<1> HIDE DEF q, r, t
<1>2. /\ q \o r \in Seq(S) /\ Len(q \o r) = Len(q) + Len(r)
      /\ \A i \in 1 .. Len(q) + Len(r) : (q \o r)[i] = IF i <= Len(q) THEN q[i] ELSE r[i - Len(q)]
  BY <1>1, ConcatProperties
<1>3. \A i \in 1 .. 4 : (q \o r)[i] = t[i]
  BY <1>1, <1>2
<1>5. Len(q \o r) = Len(t)
  BY <1>1, <1>2
<1>6. \A i \in 1 .. Len(q \o r) : (q \o r)[i] = t[i]
  BY <1>1, <1>2, <1>3, <1>5
<1>7. q \o r \in Seq(S) /\ t \in Seq(S)
  BY <1>1, <1>2
<1>4. q \o r = t
  BY <1>5, <1>6, <1>7, SeqEqual
<1> QED
  BY <1>4 DEF q, r, t

\* Pushing twice is pushing both.
LEMMA PushedTwice ==
  ASSUME NEW p, IsStack(p), NEW q, IsStack(q), NEW r, IsStack(r)
  PROVE  p \o (q \o r) = (p \o q) \o r
<1>1. PICK A, B, C : p \in Seq(A) /\ q \in Seq(B) /\ r \in Seq(C)
  BY DEF IsStack
<1> DEFINE U == A \cup B \cup C
<1>2. p \in Seq(U) /\ q \in Seq(U) /\ r \in Seq(U)
  BY <1>1
<1> HIDE DEF U
<1> QED
  BY <1>2, ConcatAssociative

LEMMA FreeIsStack ==
  ASSUME NEW q, NEW ops, Free(q, ops)
  PROVE  IsStack(q)
BY DEF Free, IsStack

\* A call of the work returns.
LEMMA WorkReturns ==
  ASSUME StackInv, NEW P, Calls(P), NEW R, Free(R, Inner), calls["tool"] = P \o R
  PROVE  /\ calls["tool"] # << >> /\ Top("tool") = Head(P) /\ Tail(calls["tool"]) = Tail(P) \o R
         /\ Returned("tool", TRUE) => calls'["tool"] = Tail(P) \o R
         /\ Returned("tool", FALSE) => Free(calls'["tool"], Inner)
<1>1. "tool" \in Processes
  BY IdentityParametersOK
<1>2. IsStack(R)
  BY FreeIsStack
<1>3. /\ calls["tool"] # << >> /\ Head(calls["tool"]) = Head(P)
      /\ Tail(calls["tool"]) = Tail(P) \o R
  BY <1>2, TopOfPushed DEF Calls
<1>4. ASSUME Returned("tool", TRUE)
      PROVE  calls'["tool"] = Tail(P) \o R
  BY <1>1, <1>3, <1>4 DEF Returned, StackInv
<1>5. ASSUME Returned("tool", FALSE)
      PROVE  Free(calls'["tool"], Inner)
  <2>1. calls'["tool"] = From(Tail(P) \o R, Handlers)
    BY <1>1, <1>3, <1>5 DEF Returned, StackInv, Unwound
  <2>2. IsStack(Tail(P)) /\ \A i \in 1 .. Len(Tail(P)) : Tail(P)[i].op \notin Handlers
    BY DEF Calls
  <2> QED
    BY <2>1, <2>2, Dropped
<1> QED
  BY <1>3, <1>4, <1>5 DEF Top

\* The call at the top of the work, those after it, and what is true then.
WorkShape(x, Q) ==
    \/ \E a \in Algorithms :
          \/ x = On("open key", a) /\ Q = <<On("get property", a)>>
          \/ /\ x = On("create key", a)
             /\ Q = <<On("add certificate", a), On("set property", a), On("get property", a)>>
             /\ ksp[<<srk, a>>].key = NoKey
          \/ /\ x = On("add certificate", a) /\ Q = <<On("set property", a), On("get property", a)>>
             /\ Bound
          \/ x = On("set property", a) /\ Q = <<On("get property", a)>> /\ Bound
          \/ x = On("get property", a) /\ Q = << >>
          \/ /\ x = On("get property", a)
             /\ Q = <<On("delete certificates", a), On("delete key", a)>>
          \/ /\ x = On("delete certificates", a) /\ Q = <<On("delete key", a)>>
             /\ ksp[<<srk, a>>].key = Mine.cert.key
          \/ /\ x = On("delete key", a) /\ Q = << >>
             /\ \A e \in certStore : e.container # None => e.container # <<srk, a>>
    \/ /\ x = On("find by key", None)
       /\ Q = <<On("acquire key", None), On("add certificate", None), On("set property", None)>>
    \/ /\ x = On("acquire key", None)
       /\ Q = <<On("add certificate", None), On("set property", None)>>
       /\ Found
    \/ x = On("add certificate", None) /\ Q = <<On("set property", None)>> /\ Bound
    \/ x = On("set property", None) /\ Q = << >> /\ Bound
    \/ x = On("find by hash", None) /\ Q = <<On("acquire key", None)>>
    \/ x = On("acquire key", None) /\ Q = << >>

LEMMA WorkIsCalls ==
  ASSUME NEW P, KeyWork(P)
  PROVE  Calls(P) /\ WorkShape(Head(P), Tail(P))
<1>a. \A op \in Inner : \A a : On(op, a).op \in Inner /\ On(op, a).op \notin Handlers
  BY InnerCalls
<1>b. /\ "open key" \in Inner /\ "create key" \in Inner /\ "add certificate" \in Inner
      /\ "set property" \in Inner /\ "get property" \in Inner /\ "find by key" \in Inner
      /\ "acquire key" \in Inner /\ "find by hash" \in Inner
      /\ "delete certificates" \in Inner /\ "delete key" \in Inner
  BY DEF Inner
<1>1. ASSUME NEW a \in Algorithms, P = <<On("open key", a), On("get property", a)>>
      PROVE  Calls(P) /\ WorkShape(Head(P), Tail(P))
  <2>1. /\ Calls(P) /\ Head(P) = On("open key", a)
        /\ Tail(P) = <<On("get property", a)>>
    BY <1>a, <1>b, <1>1, CallsTwo
  <2> QED
    BY <1>1, <2>1 DEF WorkShape
<1>2. ASSUME NEW a \in Algorithms,
             P = <<On("create key", a), On("add certificate", a), On("set property", a),
                   On("get property", a)>>,
             ksp[<<srk, a>>].key = NoKey
      PROVE  Calls(P) /\ WorkShape(Head(P), Tail(P))
  <2> DEFINE x == On("create key", a)
             y == On("add certificate", a)
             z == On("set property", a)
             w == On("get property", a)
  <2>0. x.op \in Inner /\ y.op \notin Handlers /\ z.op \notin Handlers /\ w.op \notin Handlers
    BY <1>a, <1>b
  <2>1. /\ Calls(P) /\ Head(P) = On("create key", a)
        /\ Tail(P) = <<On("add certificate", a), On("set property", a), On("get property", a)>>
    <3>1. P = <<x, y, z, w>>
      BY <1>2
    <3> HIDE DEF x, y, z, w
    <3>2. Calls(P) /\ Head(P) = x /\ Tail(P) = <<y, z, w>>
      BY <2>0, <3>1, CallsFour
    <3> QED
      BY <3>2 DEF x, y, z, w
  <2> QED
    BY <1>2, <2>1 DEF WorkShape
<1>3. ASSUME NEW a \in Algorithms, Bound,
             P = <<On("add certificate", a), On("set property", a), On("get property", a)>>
      PROVE  Calls(P) /\ WorkShape(Head(P), Tail(P))
  <2>1. /\ Calls(P) /\ Head(P) = On("add certificate", a)
        /\ Tail(P) = <<On("set property", a), On("get property", a)>>
    BY <1>a, <1>b, <1>3, CallsThree
  <2> QED
    BY <1>3, <2>1 DEF WorkShape
<1>4. ASSUME NEW a \in Algorithms, P = <<On("set property", a), On("get property", a)>>, Bound
      PROVE  Calls(P) /\ WorkShape(Head(P), Tail(P))
  <2>1. /\ Calls(P) /\ Head(P) = On("set property", a)
        /\ Tail(P) = <<On("get property", a)>>
    BY <1>a, <1>b, <1>4, CallsTwo
  <2> QED
    BY <1>4, <2>1 DEF WorkShape
<1>5. ASSUME NEW a \in Algorithms, P = <<On("get property", a)>>
      PROVE  Calls(P) /\ WorkShape(Head(P), Tail(P))
  <2>1. /\ Calls(P) /\ Head(P) = On("get property", a)
        /\ Tail(P) = << >>
    BY <1>a, <1>b, <1>5, CallsOne
  <2> QED
    BY <1>5, <2>1 DEF WorkShape
<1>6. ASSUME NEW a \in Algorithms,
             P = <<On("get property", a), On("delete certificates", a), On("delete key", a)>>
      PROVE  Calls(P) /\ WorkShape(Head(P), Tail(P))
  <2>1. /\ Calls(P) /\ Head(P) = On("get property", a)
        /\ Tail(P) = <<On("delete certificates", a), On("delete key", a)>>
    BY <1>a, <1>b, <1>6, CallsThree
  <2> QED
    BY <1>6, <2>1 DEF WorkShape
<1>7. ASSUME NEW a \in Algorithms, P = <<On("delete certificates", a), On("delete key", a)>>,
             ksp[<<srk, a>>].key = Mine.cert.key
      PROVE  Calls(P) /\ WorkShape(Head(P), Tail(P))
  <2>1. /\ Calls(P) /\ Head(P) = On("delete certificates", a)
        /\ Tail(P) = <<On("delete key", a)>>
    BY <1>a, <1>b, <1>7, CallsTwo
  <2> QED
    BY <1>7, <2>1 DEF WorkShape
<1>8. ASSUME NEW a \in Algorithms, P = <<On("delete key", a)>>,
             \A e \in certStore : e.container # None => e.container # <<srk, a>>
      PROVE  Calls(P) /\ WorkShape(Head(P), Tail(P))
  <2>1. /\ Calls(P) /\ Head(P) = On("delete key", a)
        /\ Tail(P) = << >>
    BY <1>a, <1>b, <1>8, CallsOne
  <2> QED
    BY <1>8, <2>1 DEF WorkShape
<1>9. ASSUME P = <<On("find by key", None), On("acquire key", None), On("add certificate", None),
                   On("set property", None)>>
      PROVE  Calls(P) /\ WorkShape(Head(P), Tail(P))
  <2> DEFINE x == On("find by key", None)
             y == On("acquire key", None)
             z == On("add certificate", None)
             w == On("set property", None)
  <2>0. x.op \in Inner /\ y.op \notin Handlers /\ z.op \notin Handlers /\ w.op \notin Handlers
    BY <1>a, <1>b
  <2>1. /\ Calls(P) /\ Head(P) = On("find by key", None)
        /\ Tail(P) = <<On("acquire key", None), On("add certificate", None), On("set property", None)>>
    <3>1. P = <<x, y, z, w>>
      BY <1>9
    <3> HIDE DEF x, y, z, w
    <3>2. Calls(P) /\ Head(P) = x /\ Tail(P) = <<y, z, w>>
      BY <2>0, <3>1, CallsFour
    <3> QED
      BY <3>2 DEF x, y, z, w
  <2> QED
    BY <1>9, <2>1 DEF WorkShape
<1>10. ASSUME Found, P = <<On("acquire key", None), On("add certificate", None),
                           On("set property", None)>>
       PROVE  Calls(P) /\ WorkShape(Head(P), Tail(P))
  <2>1. /\ Calls(P) /\ Head(P) = On("acquire key", None)
        /\ Tail(P) = <<On("add certificate", None), On("set property", None)>>
    BY <1>a, <1>b, <1>10, CallsThree
  <2> QED
    BY <1>10, <2>1 DEF WorkShape
<1>11. ASSUME P = <<On("add certificate", None), On("set property", None)>>, Bound
       PROVE  Calls(P) /\ WorkShape(Head(P), Tail(P))
  <2>1. /\ Calls(P) /\ Head(P) = On("add certificate", None)
        /\ Tail(P) = <<On("set property", None)>>
    BY <1>a, <1>b, <1>11, CallsTwo
  <2> QED
    BY <1>11, <2>1 DEF WorkShape
<1>12. ASSUME P = <<On("set property", None)>>, Bound
       PROVE  Calls(P) /\ WorkShape(Head(P), Tail(P))
  <2>1. /\ Calls(P) /\ Head(P) = On("set property", None)
        /\ Tail(P) = << >>
    BY <1>a, <1>b, <1>12, CallsOne
  <2> QED
    BY <1>12, <2>1 DEF WorkShape
<1>13. ASSUME P = <<On("find by hash", None), On("acquire key", None)>>
       PROVE  Calls(P) /\ WorkShape(Head(P), Tail(P))
  <2>1. /\ Calls(P) /\ Head(P) = On("find by hash", None)
        /\ Tail(P) = <<On("acquire key", None)>>
    BY <1>a, <1>b, <1>13, CallsTwo
  <2> QED
    BY <1>13, <2>1 DEF WorkShape
<1>14. ASSUME P = <<On("acquire key", None)>>
       PROVE  Calls(P) /\ WorkShape(Head(P), Tail(P))
  <2>1. /\ Calls(P) /\ Head(P) = On("acquire key", None)
        /\ Tail(P) = << >>
    BY <1>a, <1>b, <1>14, CallsOne
  <2> QED
    BY <1>14, <2>1 DEF WorkShape
<1> QED
  BY <1>1, <1>2, <1>3, <1>4, <1>5, <1>6, <1>7, <1>8, <1>9, <1>10, <1>11, <1>12, <1>13, <1>14
  DEF KeyWork

\* The records of the stack say what they are for.
LEMMA Algs == \A op, a : On(op, a).op = op /\ On(op, a).alg = a
BY DEF On

\* What the call at the top tells about those after it.
Shown(x, Q) ==
    /\ x.op = "open key" => x.alg \in Algorithms /\ Q = <<On("get property", x.alg)>>
    /\ x.op = "create key" =>
          /\ x.alg \in Algorithms /\ ksp[<<srk, x.alg>>].key = NoKey
          /\ Q = <<On("add certificate", x.alg), On("set property", x.alg),
                   On("get property", x.alg)>>
    /\ x.op = "add certificate" =>
          /\ Bound
          /\ \/ \E a \in Algorithms : Q = <<On("set property", a), On("get property", a)>>
             \/ Q = <<On("set property", None)>>
    /\ x.op = "set property" =>
          Bound /\ (Q = << >> \/ \E a \in Algorithms : Q = <<On("get property", a)>>)
    /\ x.op = "get property" =>
          /\ x.alg \in Algorithms
          /\ \/ Q = << >>
             \/ Q = <<On("delete certificates", x.alg), On("delete key", x.alg)>>
    /\ x.op = "delete certificates" =>
          /\ x.alg \in Algorithms /\ Q = <<On("delete key", x.alg)>>
          /\ x = On("delete certificates", x.alg)
          /\ ksp[<<srk, x.alg>>].key = Mine.cert.key
    /\ x.op = "delete key" =>
          /\ x.alg \in Algorithms /\ Q = << >>
          /\ \A e \in certStore : e.container # None => e.container # <<srk, x.alg>>
    /\ x.op = "find by key" =>
          Q = <<On("acquire key", None), On("add certificate", None), On("set property", None)>>
    /\ x.op = "find by hash" => Q = <<On("acquire key", None)>>
    /\ x.op = "acquire key" =>
          \/ Q = <<On("add certificate", None), On("set property", None)>> /\ Found
          \/ Q = << >>

LEMMA ShapeOf ==
  ASSUME NEW x, NEW Q, WorkShape(x, Q)
  PROVE  Shown(x, Q)
<1>1. ASSUME NEW a \in Algorithms, x = On("open key", a),
             Q = <<On("get property", a)>>
      PROVE  Shown(x, Q)
  <2>1. x.op = "open key" /\ x.alg = a
    BY <1>1, Algs
  <2> QED
    BY <1>1, <2>1 DEF Shown
<1>2. ASSUME NEW a \in Algorithms, x = On("create key", a),
             Q = <<On("add certificate", a), On("set property", a), On("get property", a)>>,
             ksp[<<srk, a>>].key = NoKey
      PROVE  Shown(x, Q)
  <2>1. x.op = "create key" /\ x.alg = a
    BY <1>2, Algs
  <2> QED
    BY <1>2, <2>1 DEF Shown
<1>3. ASSUME NEW a \in Algorithms, x = On("add certificate", a),
             Q = <<On("set property", a), On("get property", a)>>,
             Bound
      PROVE  Shown(x, Q)
  <2>1. x.op = "add certificate" /\ x.alg = a
    BY <1>3, Algs
  <2> QED
    BY <1>3, <2>1 DEF Shown
<1>4. ASSUME NEW a \in Algorithms, x = On("set property", a),
             Q = <<On("get property", a)>>,
             Bound
      PROVE  Shown(x, Q)
  <2>1. x.op = "set property" /\ x.alg = a
    BY <1>4, Algs
  <2> QED
    BY <1>4, <2>1 DEF Shown
<1>5. ASSUME NEW a \in Algorithms, x = On("get property", a),
             Q = << >>
      PROVE  Shown(x, Q)
  <2>1. x.op = "get property" /\ x.alg = a
    BY <1>5, Algs
  <2> QED
    BY <1>5, <2>1 DEF Shown
<1>6. ASSUME NEW a \in Algorithms, x = On("get property", a),
             Q = <<On("delete certificates", a), On("delete key", a)>>
      PROVE  Shown(x, Q)
  <2>1. x.op = "get property" /\ x.alg = a
    BY <1>6, Algs
  <2> QED
    BY <1>6, <2>1 DEF Shown
<1>7. ASSUME NEW a \in Algorithms, x = On("delete certificates", a),
             Q = <<On("delete key", a)>>,
             ksp[<<srk, a>>].key = Mine.cert.key
      PROVE  Shown(x, Q)
  <2>1. x.op = "delete certificates" /\ x.alg = a
    BY <1>7, Algs
  <2> QED
    BY <1>7, <2>1 DEF Shown
<1>8. ASSUME NEW a \in Algorithms, x = On("delete key", a),
             Q = << >>,
             \A e \in certStore : e.container # None => e.container # <<srk, a>>
      PROVE  Shown(x, Q)
  <2>1. x.op = "delete key" /\ x.alg = a
    BY <1>8, Algs
  <2> QED
    BY <1>8, <2>1 DEF Shown
<1>9. CASE /\ x = On("find by key", None)
           /\ Q = <<On("acquire key", None), On("add certificate", None), On("set property", None)>>
  <2>1. x.op = "find by key" /\ x.alg = None
    BY <1>9, Algs
  <2> QED
    BY <1>9, <2>1 DEF Shown
<1>10. CASE /\ x = On("acquire key", None)
           /\ Q = <<On("add certificate", None), On("set property", None)>>
           /\ Found
  <2>1. x.op = "acquire key" /\ x.alg = None
    BY <1>10, Algs
  <2> QED
    BY <1>10, <2>1 DEF Shown
<1>11. CASE /\ x = On("add certificate", None)
           /\ Q = <<On("set property", None)>>
           /\ Bound
  <2>1. x.op = "add certificate" /\ x.alg = None
    BY <1>11, Algs
  <2> QED
    BY <1>11, <2>1 DEF Shown
<1>12. CASE /\ x = On("set property", None)
           /\ Q = << >>
           /\ Bound
  <2>1. x.op = "set property" /\ x.alg = None
    BY <1>12, Algs
  <2> QED
    BY <1>12, <2>1 DEF Shown
<1>13. CASE /\ x = On("find by hash", None)
           /\ Q = <<On("acquire key", None)>>
  <2>1. x.op = "find by hash" /\ x.alg = None
    BY <1>13, Algs
  <2> QED
    BY <1>13, <2>1 DEF Shown
<1>14. CASE /\ x = On("acquire key", None)
           /\ Q = << >>
  <2>1. x.op = "acquire key" /\ x.alg = None
    BY <1>14, Algs
  <2> QED
    BY <1>14, <2>1 DEF Shown
<1> QED
  BY <1>1, <1>2, <1>3, <1>4, <1>5, <1>6, <1>7, <1>8, <1>9, <1>10, <1>11, <1>12, <1>13, <1>14 DEF WorkShape

LEMMA HeadAndCall ==
  ASSUME NEW q, IsStack(q), q # << >>, NEW y, Tail(q) = <<y>>
  PROVE  q = <<Head(q), y>>
<1>1. PICK S : q \in Seq(S)
  BY DEF IsStack
<1>2. /\ Len(Tail(q)) = Len(q) - 1 /\ Head(q) = q[1] /\ Len(q) \in Nat
      /\ \A i \in 1 .. Len(q) - 1 : Tail(q)[i] = q[i + 1]
  BY <1>1, HeadTailProperties
<1>3. Len(<<y>>) = 1 /\ <<y>>[1] = y
  OBVIOUS
<1>4. Len(q) = 2 /\ q[2] = y
  <2>1. Len(q) = 2
    <3>1. Len(Tail(q)) = 1
      BY <1>3
    <3> QED
      BY ONLY <1>2, <3>1
  <2>2. Tail(q)[1] = q[1 + 1]
    BY <1>2, <2>1
  <2>3. Tail(q)[1] = y
    BY <1>3
  <2>4. q[1 + 1] = q[2]
    OBVIOUS
  <2> QED
    BY <2>1, <2>2, <2>3, <2>4
<1> DEFINE t == <<Head(q), y>>
<1>5. t \in Seq({Head(q), y}) /\ Len(t) = 2 /\ t[1] = Head(q) /\ t[2] = y
  OBVIOUS
<1> HIDE DEF t
<1>6. \A i \in 1 .. 2 : q[i] = t[i]
  BY <1>2, <1>4, <1>5
<1>7. q = t
  BY <1>1, <1>4, <1>5, <1>6, SeqEqual
<1> QED
  BY <1>7 DEF t

LEMMA InWork ==
  ASSUME StackInv, KeyStack, calls["tool"] # << >>, Top("tool").op \in Inner
  PROVE  \E P, R : /\ Calls(P) /\ Free(R, Inner) /\ calls["tool"] = P \o R
                   /\ KeyWork(P) /\ Shown(Top("tool"), Tail(P))
<1>1. ~ Free(calls["tool"], Inner)
  <2>1. \A x \in KeyFunctionCalls : x.op \notin Inner
    <3>1. \A op \in KeyFunctions : op \notin Inner
      BY DEF KeyFunctions, Inner
    <3> QED
      BY <3>1, Ops DEF KeyFunctionCalls
  <2> QED
    BY <2>1, FreeTail DEF Top, Allowed
<1>2. PICK P, R : KeyWork(P) /\ Free(R, Inner) /\ calls["tool"] = P \o R
  BY <1>1 DEF KeyStack
<1> QED
  BY <1>2, WorkIsCalls, WorkReturns, ShapeOf

LEMMA NoWork ==
  ASSUME StackInv, KeyStack, calls["tool"] = << >> \/ Top("tool").op \notin Inner
  PROVE  Free(calls["tool"], Inner)
<1>1. ASSUME NEW P, NEW R, KeyWork(P), Free(R, Inner), calls["tool"] = P \o R
      PROVE  FALSE
  <2>1. Calls(P)
    BY <1>1, WorkIsCalls
  <2>2. calls["tool"] # << >> /\ Top("tool") = Head(P)
    BY <1>1, <2>1, WorkReturns
  <2> QED
    BY <2>1, <2>2 DEF Calls
<1> QED
  BY <1>1 DEF KeyStack

\* What the device's key functions do, step by step.
LEMMA WorkStep ==
  ASSUME StackInv, KeyFacts, Free(calls["tool"], KeyFunctions), KeyStack,
         faults' = faults, IdentityCall("tool")
  PROVE  KeyFacts' /\ KeyStack'
<1> USE Algs
<1>1. "tool" \in Processes
  BY IdentityParametersOK
<1>2. calls["tool"] # << >>
  BY DEF IdentityCall, EnterIdentity, OpenKey, CreateKey, AddCertificate, SetCertificateProperty,
     GetCertificateProperty, DeleteCertificates, DeleteKey, FindCertificate, AcquireKey,
     LimpetIssueCertificate, LimpetGetTpmKey2BPubFromCert, LimpetChallengeIdentityCert,
     LimpetActivateIdentityCert, LimpetCreateHostageKeyEx, KeyCallFails, At
<1>3. ASSUME NEW Q, NEW R, Free(R, Inner), KeyWork(Q)', calls'["tool"] = Q \o R
      PROVE  KeyStack'
  BY <1>3 DEF KeyStack
<1>4. ASSUME NEW R, Free(R, Inner), calls'["tool"] = << >> \o R
      PROVE  KeyStack'
  <2>1. PICK S : R \in Seq(S)
    BY <1>4 DEF Free
  <2>2. << >> \o R = R
    BY <2>1, ConcatEmptySeq
  <2> QED
    BY <1>4, <2>2 DEF KeyStack
<1>5. ASSUME UNCHANGED <<srk, keys, ksp, certStore, seen>>
      PROVE  KeyFacts' /\ (Bound <=> Bound') /\ (Found <=> Found')
  BY <1>5 DEF KeyFacts, Bound, Found, Mine
<1>6. CASE EnterIdentity("tool")
  <2> DEFINE x == Top("tool")
             R == Tail(calls["tool"])
  <2>1. UNCHANGED <<srk, keys, ksp, certStore, seen>> /\ x.op \in IdentityFunctions
    BY <1>6 DEF EnterIdentity, identity
  <2>2. Free(calls["tool"], Inner) /\ Free(R, Inner) /\ Allowed(x, KeyFunctions)
    <3>1. \A op \in IdentityFunctions : op \notin Inner
      BY DEF IdentityFunctions, Inner
    <3> QED
      BY <1>2, <2>1, <3>1, NoWork, FreeTail DEF Top
  <2>3. x.op \in KeyFunctions => x.alg \in Algorithms
    BY <2>2 DEF Allowed, KeyFunctionCalls
  <2>4. \E Q : calls'["tool"] = Q \o R /\ KeyWork(Q)'
    <3>1. calls'["tool"] = (CASE x.op = "LimpetReadOrCreateIdentityKeyCert" ->
                                      LimpetReadOrCreateIdentityKeyCert(x.alg)
                              [] x.op = "LimpetDestroyIdentityCert"  -> LimpetDestroyIdentityCert(x.alg)
                              [] x.op = "LimpetImportIdentityCert"   -> LimpetImportIdentityCert
                              [] x.op = "LimpetSignWithIdentityCert" -> LimpetSignWithIdentityCert) \o R
      BY <1>1, <1>6 DEF EnterIdentity, StackInv
    <3>2. CASE x.op = "LimpetReadOrCreateIdentityKeyCert"
      <4>1. calls'["tool"] = LimpetReadOrCreateIdentityKeyCert(x.alg) \o R /\ x.alg \in Algorithms
        BY <2>3, <3>1, <3>2 DEF KeyFunctions
      <4> QED
        BY <4>1 DEF LimpetReadOrCreateIdentityKeyCert, KeyWork
    <3>3. CASE x.op = "LimpetDestroyIdentityCert"
      <4>1. calls'["tool"] = LimpetDestroyIdentityCert(x.alg) \o R /\ x.alg \in Algorithms
        BY <2>3, <3>1, <3>3 DEF KeyFunctions
      <4> QED
        BY <4>1 DEF LimpetDestroyIdentityCert, KeyWork
    <3>4. CASE x.op = "LimpetImportIdentityCert"
      <4>1. calls'["tool"] = LimpetImportIdentityCert \o R
        BY <3>1, <3>4
      <4> QED
        BY <4>1 DEF LimpetImportIdentityCert, KeyWork
    <3>5. CASE x.op = "LimpetSignWithIdentityCert"
      <4>1. calls'["tool"] = LimpetSignWithIdentityCert \o R
        BY <3>1, <3>5
      <4> QED
        BY <4>1 DEF LimpetSignWithIdentityCert, KeyWork
    <3> QED
      BY <2>1, <3>2, <3>3, <3>4, <3>5 DEF IdentityFunctions
  <2> HIDE DEF R
  <2> QED
    BY <1>3, <1>5, <2>1, <2>2, <2>4
<1>7. CASE OpenKey("tool")
  <2>1. Top("tool").op = "open key" /\ UNCHANGED <<srk, keys, ksp, certStore, seen>>
    BY <1>7 DEF OpenKey, At, Top, identity
  <2>2. PICK P, R : /\ Calls(P) /\ Free(R, Inner) /\ calls["tool"] = P \o R
                    /\ Shown(Top("tool"), Tail(P))
    BY <1>2, <2>1, InWork DEF Inner
  <2>7. PICK a : a = Top("tool").alg
    OBVIOUS
  <2> DEFINE Q == Tail(P)
  <2>3. a \in Algorithms /\ Q = <<On("get property", a)>>
    BY <2>1, <2>2, <2>7 DEF Shown
  <2>4. /\ Tail(calls["tool"]) = Q \o R
        /\ Returned("tool", TRUE) => calls'["tool"] = Q \o R
    BY <2>2, WorkReturns
  <2> HIDE DEF Q
  <2>5. CASE Returned("tool", TRUE)
    <3>1. KeyWork(Q)'
      BY <2>3 DEF KeyWork
    <3> QED
      BY <1>3, <1>5, <2>1, <2>2, <2>4, <2>5, <3>1
  <2>6. CASE ~Returned("tool", TRUE)
    <3>1. /\ ksp[<<srk, a>>].key = NoKey
          /\ calls'["tool"] = CreateIdentityKey(a) \o Tail(calls["tool"])
      <4>1. ~Fault
        BY DEF Fault, StackInv
      <4>2. /\ ksp[<<srk, a>>].key = NoKey
            /\ calls' = [calls EXCEPT !["tool"] = CreateIdentityKey(a) \o Tail(@)]
        BY <1>7, <2>6, <2>7, <4>1 DEF OpenKey, LimpetReadDeviceId
      <4> QED
        BY <1>1, <4>2 DEF StackInv
    <3> DEFINE x == On("create key", a)
               y == On("add certificate", a)
               z == On("set property", a)
               w == On("get property", a)
    <3>2. CreateIdentityKey(a) = <<x, y, z>> /\ Q = <<w>>
      BY <2>3 DEF CreateIdentityKey
    <3>3. KeyWork(<<x, y, z, w>>)'
      <4>1. ksp'[<<srk', a>>].key = NoKey /\ a \in Algorithms
        BY <2>1, <2>3, <3>1
      <4> QED
        BY <4>1 DEF KeyWork
    <3> HIDE DEF x, y, z, w
    <3>4. calls'["tool"] = <<x, y, z, w>> \o R
      <4>1. PICK S : S = {x, y, z, w}
        OBVIOUS
      <4>2. <<x, y, z>> \in Seq(S) /\ <<w>> \in Seq(S)
        BY <4>1
      <4>3. IsStack(<<x, y, z>>) /\ IsStack(<<w>>) /\ IsStack(R)
        BY <2>2, <4>2, FreeIsStack DEF IsStack
      <4>4. <<x, y, z>> \o (<<w>> \o R) = (<<x, y, z>> \o <<w>>) \o R
        BY <4>3, PushedTwice
      <4>5. calls'["tool"] = <<x, y, z>> \o (<<w>> \o R)
        BY <2>4, <3>1, <3>2
      <4>6. <<x, y, z>> \o <<w>> = <<x, y, z, w>>
        BY ThreeAndOne
      <4> QED
        BY <4>4, <4>5, <4>6
    <3> DEFINE W == <<x, y, z, w>>
    <3>5. KeyWork(W)' /\ calls'["tool"] = W \o R /\ Free(R, Inner)
      BY <2>2, <3>3, <3>4
    <3> HIDE DEF W
    <3>6. KeyStack'
      BY <1>3, <3>5
    <3> QED
      BY <1>5, <2>1, <3>6
  <2> QED
    BY <2>5, <2>6
<1>8. CASE CreateKey("tool")
  <2>1. /\ Top("tool").op = "create key" /\ Returned("tool", TRUE)
        /\ srk' = srk /\ certStore' = certStore
    BY <1>8 DEF CreateKey, At, Top
  <2>2. PICK P, R : /\ Calls(P) /\ Free(R, Inner) /\ calls["tool"] = P \o R
                    /\ Shown(Top("tool"), Tail(P))
    BY <1>2, <2>1, InWork DEF Inner
  <2> DEFINE a == Top("tool").alg
             Q == Tail(P)
  <2>3. /\ a \in Algorithms
        /\ Q = <<On("add certificate", a), On("set property", a), On("get property", a)>>
    BY <2>1, <2>2 DEF Shown
  <2>12. ksp[<<srk, a>>].key = NoKey
    BY <2>1, <2>2 DEF Shown
  <2>4. calls'["tool"] = Q \o R
    BY <2>1, <2>2, WorkReturns
  <2> HIDE DEF Q
  <2> DEFINE c == <<srk, a>>
             k == keys + 1
  <2>5. /\ keys' = k /\ ksp' = [ksp EXCEPT ![c] = [key |-> k, cert |-> None]]
        /\ seen' = [seen EXCEPT !["tool"].cert = [key |-> k, uri |-> None],
                                !["tool"].container = c]
    BY <1>8 DEF CreateKey, LimpetReadDeviceId
  <2> HIDE DEF a
  <2>6. c \in Containers /\ c[1] = srk /\ k \in Nat /\ k # NoKey
    <3>1. a \in Algorithms
      BY <2>3
    <3> QED
      BY <3>1 DEF KeyFacts, Containers, NoKey
  <2>13. ksp[c].key = NoKey
    BY <2>12
  <2> HIDE DEF c, k
  <2>7. /\ ksp'[c].key = k /\ ksp'[c].cert = None
        /\ \A d \in Containers : d # c => ksp'[d] = ksp[d]
        /\ ksp' = [d \in Containers |-> [key |-> ksp'[d].key, cert |-> ksp'[d].cert]]
    BY <2>5, <2>6 DEF KeyFacts
  <2>8. /\ seen' = [p \in Processes |-> seen'[p]]
        /\ seen'["tool"] = [f \in SeenFields |-> seen'["tool"][f]]
        /\ Mine'.cert.key = k /\ Mine'.container = c
    BY <1>1, <2>5 DEF KeyFacts, Mine, SeenFields
  <2>9. Bound'
    BY <2>1, <2>6, <2>7, <2>8 DEF Bound
  <2>10. KeyFacts'
    <3>1. \A e \in certStore : e.container # None => e.container # c
      BY <2>6, <2>13 DEF KeyFacts
    <3> QED
      BY <2>1, <2>5, <2>6, <2>7, <2>8, <3>1 DEF KeyFacts
  <2>11. KeyWork(Q)'
    BY <2>3, <2>9 DEF KeyWork
  <2> QED
    BY <1>3, <2>2, <2>4, <2>10, <2>11
<1>9. CASE AddCertificate("tool")
  <2>1. /\ Top("tool").op = "add certificate" /\ Returned("tool", TRUE)
        /\ UNCHANGED <<srk, keys, ksp, seen>>
        /\ certStore' = certStore \cup {[cert |-> Mine.cert, container |-> Mine.container]}
    BY <1>9 DEF AddCertificate, At, Top, Mine
  <2>2. PICK P, R : /\ Calls(P) /\ Free(R, Inner) /\ calls["tool"] = P \o R
                    /\ Shown(Top("tool"), Tail(P))
    BY <1>2, <2>1, InWork DEF Inner
  <2> DEFINE Q == Tail(P)
  <2>3. /\ Bound
        /\ \/ \E a \in Algorithms : Q = <<On("set property", a), On("get property", a)>>
           \/ Q = <<On("set property", None)>>
    BY <2>1, <2>2 DEF Shown
  <2>4. calls'["tool"] = Q \o R
    BY <2>1, <2>2, WorkReturns
  <2> HIDE DEF Q
  <2>5. Bound'
    BY <2>1, <2>3 DEF Bound, Mine
  <2>6. KeyFacts'
    <3> DEFINE new == [cert |-> Mine.cert, container |-> Mine.container]
    <3>1. new.container \in Containers /\ new.container[1] = srk
          /\ ksp[new.container].key = new.cert.key /\ new.cert.key # NoKey
      BY <2>3 DEF Bound
    <3>2. certStore' = certStore \cup {new}
      BY <2>1
    <3> HIDE DEF new
    <3>3. srk <= srk
      BY DEF KeyFacts
    <3> QED
      BY <2>1, <3>1, <3>2, <3>3 DEF KeyFacts
  <2>7. KeyWork(Q)'
    BY <2>3, <2>5 DEF KeyWork
  <2> QED
    BY <1>3, <2>2, <2>4, <2>6, <2>7
<1>10. CASE SetCertificateProperty("tool")
  <2>1. /\ Top("tool").op = "set property" /\ Returned("tool", TRUE)
        /\ UNCHANGED <<srk, keys, certStore, seen>>
        /\ ksp' = [ksp EXCEPT ![Mine.container].cert = Mine.cert]
    BY <1>10 DEF SetCertificateProperty, At, Top, Mine
  <2>2. PICK P, R : /\ Calls(P) /\ Free(R, Inner) /\ calls["tool"] = P \o R
                    /\ Shown(Top("tool"), Tail(P))
    BY <1>2, <2>1, InWork DEF Inner
  <2> DEFINE Q == Tail(P)
  <2>3. /\ Bound
        /\ \/ \E a \in Algorithms : Q = <<On("get property", a)>>
           \/ Q = << >>
    BY <2>1, <2>2 DEF Shown
  <2>4. calls'["tool"] = Q \o R
    BY <2>1, <2>2, WorkReturns
  <2> HIDE DEF Q
  <2>5. KeyFacts'
    <3> DEFINE c == Mine.container
               t == Mine.cert
    <3>1. c \in Containers /\ c[1] = srk /\ ksp[c].key = t.key /\ t.key # NoKey
      BY <2>3 DEF Bound
    <3>2. /\ ksp' = [ksp EXCEPT ![c].cert = t]
          /\ UNCHANGED <<srk, keys, certStore, seen>>
      BY <2>1
    <3> HIDE DEF c, t
    <3>3. /\ \A d \in Containers : ksp'[d].key = ksp[d].key
          /\ \A d \in Containers : d # c => ksp'[d].cert = ksp[d].cert
          /\ ksp'[c].cert = t
          /\ ksp' = [d \in Containers |-> [key |-> ksp'[d].key, cert |-> ksp'[d].cert]]
      BY <3>1, <3>2 DEF KeyFacts
    <3>4. \A e \in certStore : e.container # None =>
            /\ e.container \in Containers /\ e.container[1] <= srk
            /\ e.container[1] = srk => /\ ksp'[e.container].key = e.cert.key
                                       /\ e.cert.key # NoKey
      BY <3>3 DEF KeyFacts
    <3>5. \A d \in Containers : /\ ksp'[d].key # NoKey => d[1] = srk
                                /\ ksp'[d].cert # None => ksp'[d].cert.key = ksp'[d].key
      BY <3>1, <3>3 DEF KeyFacts
    <3> QED
      BY <3>2, <3>3, <3>4, <3>5 DEF KeyFacts
  <2>6. CASE Q = << >>
    BY <1>4, <2>2, <2>4, <2>5, <2>6
  <2>7. CASE \E a \in Algorithms : Q = <<On("get property", a)>>
    <3>1. KeyWork(Q)'
      BY <2>7 DEF KeyWork
    <3> QED
      BY <1>3, <2>2, <2>4, <2>5, <3>1
  <2> QED
    BY <2>3, <2>6, <2>7
<1>11. CASE GetCertificateProperty("tool")
  <2>1. /\ Top("tool").op = "get property" /\ Returned("tool", TRUE)
        /\ UNCHANGED <<srk, keys, ksp, certStore>>
        /\ LET c == <<srk, Top("tool").alg>>
           IN  ksp[c].cert # None /\ seen' = [seen EXCEPT !["tool"].cert = ksp[c].cert]
    BY <1>11 DEF GetCertificateProperty, At, Top, LimpetReadDeviceId
  <2>2. PICK P, R : /\ Calls(P) /\ Free(R, Inner) /\ calls["tool"] = P \o R
                    /\ Shown(Top("tool"), Tail(P))
    BY <1>2, <2>1, InWork DEF Inner
  <2> DEFINE a == Top("tool").alg
             Q == Tail(P)
  <2>3. /\ a \in Algorithms
        /\ Q = << >> \/ Q = <<On("delete certificates", a), On("delete key", a)>>
    BY <2>1, <2>2 DEF Shown
  <2>12. a \in Algorithms
    BY <2>3
  <2>4. calls'["tool"] = Q \o R
    BY <2>1, <2>2, WorkReturns
  <2> HIDE DEF Q
  <2> DEFINE c == <<srk, a>>
             t == ksp[c].cert
  <2>5. c \in Containers /\ t # None /\ t.key = ksp[c].key
    <3>1. c \in Containers
      BY <2>12 DEF KeyFacts, Containers
    <3>2. t # None
      BY <2>1
    <3> QED
      BY <3>1, <3>2 DEF KeyFacts
  <2>6. seen' = [seen EXCEPT !["tool"].cert = t]
    BY <2>1
  <2>7. ksp'[<<srk', a>>].key = t.key
    BY <2>1, <2>5
  <2> HIDE DEF c, t, a
  <2>8. /\ seen' = [p \in Processes |-> seen'[p]]
        /\ seen'["tool"] = [f \in SeenFields |-> seen'["tool"][f]]
        /\ Mine'.cert = t
    BY <1>1, <2>6 DEF KeyFacts, Mine, SeenFields
  <2>9. KeyFacts'
    BY <2>1, <2>8 DEF KeyFacts
  <2>10. CASE Q = << >>
    BY <1>4, <2>2, <2>4, <2>9, <2>10
  <2>11. CASE Q = <<On("delete certificates", a), On("delete key", a)>>
    <3>1. KeyWork(Q)'
      <4>1. ksp'[<<srk', a>>].key = Mine'.cert.key
        BY <2>7, <2>8
      <4> QED
        BY <2>11, <2>12, <4>1 DEF KeyWork
    <3> QED
      BY <1>3, <2>2, <2>4, <2>9, <3>1
  <2> QED
    BY <2>3, <2>10, <2>11
<1>12. CASE DeleteCertificates("tool")
  <2>1. /\ Top("tool").op = "delete certificates"
        /\ UNCHANGED <<srk, keys, ksp, seen>>
        /\ certStore' \subseteq certStore
        /\ \/ UNCHANGED calls
           \/ /\ Returned("tool", TRUE)
              /\ \A e \in certStore' : e.cert.key # Mine.cert.key
    BY <1>12 DEF DeleteCertificates, At, Top, Mine
  <2>2. PICK P, R : /\ Calls(P) /\ Free(R, Inner) /\ calls["tool"] = P \o R /\ KeyWork(P)
                    /\ Shown(Top("tool"), Tail(P))
    BY <1>2, <2>1, InWork DEF Inner
  <2> DEFINE a == Top("tool").alg
             Q == Tail(P)
  <2>3. /\ a \in Algorithms /\ Q = <<On("delete key", a)>>
        /\ Top("tool") = On("delete certificates", a)
    BY <2>1, <2>2 DEF Shown
  <2>4. a \in Algorithms /\ ksp[<<srk, a>>].key = Mine.cert.key
    BY <2>1, <2>2 DEF Shown
  <2>5. Returned("tool", TRUE) => calls'["tool"] = Q \o R
    BY <2>2, WorkReturns
  <2> HIDE DEF a, Q
  <2>6. KeyFacts'
    BY <2>1 DEF KeyFacts
  <2>7. CASE UNCHANGED calls
    <3>1. KeyWork(P)'
      <4>1. P = <<On("delete certificates", a), On("delete key", a)>>
        <5>1. Head(P) = On("delete certificates", a)
          BY <2>2, <2>3, WorkReturns
        <5>2. IsStack(P) /\ P # << >>
          BY <2>2 DEF Calls
        <5> QED
          BY <2>3, <5>1, <5>2, HeadAndCall DEF Q
      <4>2. a \in Algorithms /\ ksp'[<<srk', a>>].key = Mine'.cert.key
        BY <2>1, <2>4 DEF Mine
      <4> QED
        BY <4>1, <4>2 DEF KeyWork
    <3> QED
      BY <1>3, <2>2, <2>6, <2>7, <3>1
  <2>8. CASE /\ Returned("tool", TRUE)
             /\ \A e \in certStore' : e.cert.key # Mine.cert.key
    <3> DEFINE c == <<srk, a>>
    <3>1. c \in Containers /\ c[1] = srk /\ ksp[c].key = Mine.cert.key
      BY <2>4 DEF KeyFacts, Containers
    <3> HIDE DEF c
    <3>2. \A e \in certStore' : e.container # None => e.container # c
      <4> SUFFICES ASSUME NEW e \in certStore', e.container # None, e.container = c
                   PROVE  FALSE
        OBVIOUS
      <4>1. e \in certStore /\ e.cert.key # Mine.cert.key
        BY <2>1, <2>8
      <4>2. ksp[c].key = e.cert.key
        BY <3>1, <4>1 DEF KeyFacts
      <4> QED
        BY <3>1, <4>1, <4>2
    <3>3. \A e \in certStore' : e.container # None => e.container # <<srk', a>>
      BY <2>1, <3>2 DEF c
    <3>4. KeyWork(Q)'
      BY <2>3, <3>3 DEF KeyWork
    <3> QED
      BY <1>3, <2>2, <2>5, <2>6, <2>8, <3>4
  <2> QED
    BY <2>1, <2>7, <2>8
<1>13. CASE DeleteKey("tool")
  <2>1. /\ Top("tool").op = "delete key" /\ Returned("tool", TRUE)
        /\ UNCHANGED <<srk, keys, certStore, seen>>
        /\ ksp' = [ksp EXCEPT ![<<srk, Top("tool").alg>>] = EmptyContainer]
    BY <1>13 DEF DeleteKey, At, Top, LimpetReadDeviceId
  <2>2. PICK P, R : /\ Calls(P) /\ Free(R, Inner) /\ calls["tool"] = P \o R
                    /\ Shown(Top("tool"), Tail(P))
    BY <1>2, <2>1, InWork DEF Inner
  <2> DEFINE a == Top("tool").alg
             Q == Tail(P)
  <2>3. a \in Algorithms /\ \A e \in certStore : e.container # None => e.container # <<srk, a>>
    BY <2>1, <2>2 DEF Shown
  <2>6. Q = << >>
    BY <2>1, <2>2 DEF Shown
  <2>7. calls'["tool"] = Q \o R
    BY <2>1, <2>2, WorkReturns
  <2>8. ksp' = [ksp EXCEPT ![<<srk, a>>] = EmptyContainer]
    BY <2>1
  <2> HIDE DEF a, Q
  <2>4. calls'["tool"] = << >> \o R
    BY <2>6, <2>7
  <2>5. KeyFacts'
    <3> DEFINE c == <<srk, a>>
    <3>1. c \in Containers /\ \A e \in certStore : e.container # None => e.container # c
      BY <2>3 DEF KeyFacts, Containers
    <3>2. ksp' = [ksp EXCEPT ![c] = EmptyContainer]
      BY <2>8
    <3>4. UNCHANGED <<srk, keys, certStore, seen>>
      BY <2>1
    <3> HIDE DEF c
    <3>3. /\ \A d \in Containers : d # c => ksp'[d] = ksp[d]
          /\ ksp'[c].key = NoKey /\ ksp'[c].cert = None
          /\ ksp' = [d \in Containers |-> [key |-> ksp'[d].key, cert |-> ksp'[d].cert]]
      BY <3>1, <3>2 DEF KeyFacts, EmptyContainer
    <3> QED
      BY <3>1, <3>3, <3>4 DEF KeyFacts
  <2> QED
    BY <1>4, <2>2, <2>4, <2>5
<1>14. CASE FindCertificate("tool")
  <2>1. /\ Top("tool").op \in {"find by key", "find by hash"} /\ Returned("tool", TRUE)
        /\ UNCHANGED <<srk, keys, ksp, certStore>>
    BY <1>14 DEF FindCertificate, Top
  <2>2. PICK e \in certStore : /\ Matches("tool", e)
                               /\ seen' = [seen EXCEPT !["tool"].container = e.container]
    BY <1>14 DEF FindCertificate
  <2>3. PICK P, R : /\ Calls(P) /\ Free(R, Inner) /\ calls["tool"] = P \o R
                    /\ Shown(Top("tool"), Tail(P))
    BY <1>2, <2>1, InWork DEF Inner
  <2> DEFINE Q == Tail(P)
  <2>4. \/ /\ Top("tool").op = "find by key"
           /\ Q = <<On("acquire key", None), On("add certificate", None), On("set property", None)>>
        \/ Q = <<On("acquire key", None)>>
    BY <2>1, <2>3 DEF Shown
  <2>5. calls'["tool"] = Q \o R
    BY <2>1, <2>3, WorkReturns
  <2> HIDE DEF Q
  <2>6. /\ seen' = [p \in Processes |-> seen'[p]]
        /\ seen'["tool"] = [f \in SeenFields |-> seen'["tool"][f]]
        /\ Mine'.container = e.container /\ Mine'.cert = Mine.cert
    BY <1>1, <2>2 DEF KeyFacts, Mine, SeenFields
  <2>7. KeyFacts'
    BY <2>1, <2>6 DEF KeyFacts
  <2>8. KeyWork(Q)'
    <3>1. CASE Q = <<On("acquire key", None)>>
      BY <3>1 DEF KeyWork
    <3>2. CASE /\ Top("tool").op = "find by key"
               /\ Q = <<On("acquire key", None), On("add certificate", None), On("set property", None)>>
      <4>1. e.cert.key = Mine.cert.key
        BY <1>2, <2>2, <3>2 DEF Matches, At, Top, Mine
      <4>2. Found'
        BY <2>1, <2>6, <4>1 DEF Found
      <4> QED
        BY <3>2, <4>2 DEF KeyWork
    <3> QED
      BY <2>4, <3>1, <3>2
  <2> QED
    BY <1>3, <2>3, <2>5, <2>7, <2>8
<1>15. CASE AcquireKey("tool")
  <2>1. /\ Top("tool").op = "acquire key" /\ Returned("tool", TRUE)
        /\ UNCHANGED <<srk, keys, ksp, certStore, seen>>
        /\ Mine.container # None /\ ksp[Mine.container].key # NoKey
    BY <1>15 DEF AcquireKey, At, Top, identity, CanAcquire, Mine
  <2>2. PICK P, R : /\ Calls(P) /\ Free(R, Inner) /\ calls["tool"] = P \o R
                    /\ Shown(Top("tool"), Tail(P))
    BY <1>2, <2>1, InWork DEF Inner
  <2>3. \/ Tail(P) = <<On("add certificate", None), On("set property", None)>> /\ Found
        \/ Tail(P) = << >>
    BY <2>1, <2>2 DEF Shown
  <2>4. calls'["tool"] = Tail(P) \o R
    BY <2>1, <2>2, WorkReturns
  <2>5. CASE Tail(P) = << >>
    BY <1>4, <1>5, <2>1, <2>2, <2>4, <2>5
  <2>6. CASE Tail(P) = <<On("add certificate", None), On("set property", None)>> /\ Found
    <3>1. PICK e \in certStore : e.container = Mine.container /\ e.cert.key = Mine.cert.key
      BY <2>1, <2>6 DEF Found
    <3>2. Bound
      <4>1. e.container \in Containers
        BY <2>1, <3>1 DEF KeyFacts
      <4>2. e.container[1] = srk
        BY <2>1, <3>1, <4>1 DEF KeyFacts
      <4>3. ksp[e.container].key = e.cert.key /\ e.cert.key # NoKey
        BY <2>1, <3>1, <4>2 DEF KeyFacts
      <4> QED
        BY ONLY <3>1, <4>1, <4>2, <4>3 DEF Bound
    <3>3. KeyWork(<<On("add certificate", None), On("set property", None)>>)'
      BY <1>5, <2>1, <3>2 DEF KeyWork
    <3> QED
      BY <1>3, <1>5, <2>1, <2>2, <2>4, <2>6, <3>3
  <2> QED
    BY <2>3, <2>5, <2>6
<1>16. CASE KeyCallFails("tool")
  <2>1. UNCHANGED <<srk, keys, ksp, certStore, seen>> /\ Returned("tool", FALSE)
    BY <1>16 DEF KeyCallFails, identity
  <2>2. Free(calls'["tool"], Inner)
    <3>1. CASE Top("tool").op \in Inner
      <4>1. PICK P, R : Calls(P) /\ Free(R, Inner) /\ calls["tool"] = P \o R
        BY <1>2, <3>1, InWork
      <4> QED
        BY <2>1, <4>1, WorkReturns
    <3>2. CASE Top("tool").op \notin Inner
      BY <1>1, <1>2, <2>1, <3>2, NoWork, ReturnedOnStack
    <3> QED
      BY <3>1, <3>2
  <2> QED
    BY <1>5, <2>1, <2>2 DEF KeyStack
<1>17. CASE \/ LimpetIssueCertificate("tool") \/ LimpetGetTpmKey2BPubFromCert("tool")
            \/ LimpetChallengeIdentityCert("tool") \/ LimpetActivateIdentityCert("tool")
            \/ LimpetCreateHostageKeyEx("tool")
  <2>1. /\ Top("tool").op \in AuthorityOps /\ Returned("tool", TRUE)
        /\ UNCHANGED <<srk, keys, ksp, certStore>>
    BY <1>17 DEF LimpetIssueCertificate, LimpetGetTpmKey2BPubFromCert, LimpetChallengeIdentityCert,
       LimpetActivateIdentityCert, LimpetCreateHostageKeyEx, At, Top, AuthorityOps
  <2>2. Top("tool").op \notin Inner
    BY <2>1 DEF AuthorityOps, Inner
  <2>3. Free(calls'["tool"], Inner)
    BY <1>1, <1>2, <2>1, <2>2, NoWork, ReturnedOnStack
  <2>4. /\ seen' = [p \in Processes |-> seen'[p]]
        /\ seen'["tool"] = [f \in SeenFields |-> seen'["tool"][f]]
    <3>1. \/ \E x : seen' = [seen EXCEPT !["tool"].cert = x]
          \/ \E x : seen' = [seen EXCEPT !["tool"].activation = x]
          \/ \E x : seen' = [seen EXCEPT !["tool"].secret = x]
          \/ \E x, y : seen' = [seen EXCEPT !["tool"].activation.secret = x, !["tool"].secret = y]
          \/ \E x, y : seen' = [seen EXCEPT !["tool"].import = x, !["tool"].secret = y]
      <4>1. CASE LimpetIssueCertificate("tool")
        BY <4>1 DEF LimpetIssueCertificate
      <4>2. CASE LimpetGetTpmKey2BPubFromCert("tool")
        BY <4>2 DEF LimpetGetTpmKey2BPubFromCert
      <4>3. CASE LimpetChallengeIdentityCert("tool")
        BY <4>3 DEF LimpetChallengeIdentityCert
      <4>4. CASE LimpetActivateIdentityCert("tool")
        BY <4>4 DEF LimpetActivateIdentityCert
      <4>5. CASE LimpetCreateHostageKeyEx("tool")
        BY <4>5 DEF LimpetCreateHostageKeyEx
      <4> QED
        BY ONLY <1>17, <4>1, <4>2, <4>3, <4>4, <4>5
    <3> QED
      BY <1>1, <3>1 DEF KeyFacts, SeenFields
  <2>5. KeyFacts'
    BY <2>1, <2>4 DEF KeyFacts
  <2> QED
    BY <2>3, <2>5 DEF KeyStack
<1> QED
  BY <1>6, <1>7, <1>8, <1>9, <1>10, <1>11, <1>12, <1>13, <1>14, <1>15, <1>16, <1>17 DEF IdentityCall

\* The device's own steps, and the tool's steps within a command.
LEMMA KeysUntouched ==
  ASSUME KeyFacts, KeyStack,
         UNCHANGED <<srk, keys, ksp, certStore, seen>>,
         calls'["tool"] = calls["tool"] \/ Free(calls'["tool"], Inner)
  PROVE  KeyFacts' /\ KeyStack'
<1>1. KeyFacts'
  BY DEF KeyFacts
<1>2. CASE calls'["tool"] = calls["tool"]
  <2>1. UNCHANGED <<Mine, Bound, Found>>
    BY DEF Mine, Bound, Found
  <2>2. \A P : KeyWork(P) => KeyWork(P)'
    <3>1. UNCHANGED <<srk, ksp, certStore>>
      OBVIOUS
    <3> SUFFICES ASSUME NEW P, KeyWork(P)
                 PROVE  KeyWork(P)'
      OBVIOUS
    <3>2. KeyWork(P)
      OBVIOUS
    <3> QED
      BY ONLY <2>1, <3>1, <3>2 DEF KeyWork
  <2> QED
    BY <1>1, <1>2, <2>2 DEF KeyStack
<1>3. CASE Free(calls'["tool"], Inner)
  BY <1>1, <1>3 DEF KeyStack
<1> QED
  BY <1>1, <1>2, <1>3

LEMMA ClosedInner ==
  /\ Inner \cap LibraryOps = {} /\ KeyFunctions \cap LibraryOps = {}
  /\ Closed(Inner) /\ Closed(KeyFunctions) /\ KeyFunctions \cap Inner = {}
<1>1. Inner \cap SingleCalls = {} /\ KeyFunctions \cap SingleCalls = {}
  BY DEF Inner, KeyFunctions, SingleCalls
<1>2. Inner \cap Functions = {} /\ KeyFunctions \cap Functions = {}
  BY DEF Inner, KeyFunctions, Functions
<1>3. Inner \cap Handlers = {} /\ KeyFunctions \cap Handlers = {}
  BY DEF Inner, KeyFunctions, Handlers, LibraryHandlers
<1>4. Inner \cap {"token", "EmptyTpmSlot"} = {} /\ KeyFunctions \cap {"token", "EmptyTpmSlot"} = {}
  BY DEF Inner, KeyFunctions
<1>5. Inner \cap FileOps = {} /\ KeyFunctions \cap FileOps = {}
  BY DEF Inner, KeyFunctions, FileOps
<1>6. Inner \cap LibraryOps = {} /\ KeyFunctions \cap LibraryOps = {}
  BY <1>1, <1>2, <1>3, <1>4 DEF LibraryOps
<1>7. "encrypt" \notin Inner /\ "encrypt" \notin KeyFunctions
  BY DEF Inner, KeyFunctions
<1>8. Closed(Inner) /\ Closed(KeyFunctions)
  BY <1>5, <1>6, <1>7 DEF Closed
<1>9. KeyFunctions \cap Inner = {}
  BY DEF Inner, KeyFunctions
<1> QED
  BY <1>6, <1>8, <1>9

\* The tool's steps within a command, and the firmware's.
LEMMA StepKeepsKeys ==
  ASSUME StackInv, KeyFacts, KeyStack, ToolStep
  PROVE  KeyFacts' /\ KeyStack'
<1>1. "tool" \in Processes
  BY IdentityParametersOK
<1>2. ASSUME Free(calls["tool"], Inner)
      PROVE  Free(calls'["tool"], Inner)
  BY <1>2, ToolEffect, ClosedInner DEF StepEffect
<1>3. ToolEnds \/ Free(calls["tool"], Inner)
  <2>1. CASE Reboot
    BY <2>1, NoWork DEF Reboot
  <2>2. CASE IfRequested
    <3>1. calls["tool"] # << >> /\ Top("tool").op \in {"write if requested", "encrypt if requested",
                                                       "decrypt if requested"}
      BY <2>2 DEF IfRequested, At, Top
    <3>2. Top("tool").op \notin Inner
      BY <3>1 DEF Inner
    <3> QED
      BY <3>1, <3>2, NoWork
  <2>3. CASE ~(Reboot \/ IfRequested \/ ToolEnds)
    <3>1. Top("tool").op \in FileCalls \cup {"hostage", "got secret", "destroyed", "output"}
      BY <2>3 DEF ToolStep, ReadFile, ReadPayloadKey, ReadPublicKey, EmptyFile, FillFile, EncryptHalf,
         DecryptHalf, AddPlainCertificate, HandHostageOver, GotSecret, LimpetForceClearTpm, Destroyed,
         Output, FileCallFails, FileCalls, At, Top
    <3>2. Top("tool").op \notin Inner
      BY <3>1 DEF Inner, FileCalls
    <3> QED
      BY <3>1, <3>2, NoWork
  <2> QED
    BY <2>1, <2>2, <2>3
<1>4. CASE ToolEnds
  <2>1. calls'["tool"] = << >> /\ UNCHANGED <<srk, keys, ksp, certStore>>
        /\ seen' = [seen EXCEPT !["tool"] = NothingSeen]
    BY <1>1, <1>4 DEF ToolEnds, Forgets, StackInv
  <2>2. KeyFacts'
    BY <1>1, <2>1 DEF KeyFacts, NothingSeen, SeenFields
  <2> QED
    BY <2>1, <2>2, FreeEmpty DEF KeyStack
<1>5. ASSUME Free(calls["tool"], Inner)
      PROVE  KeyFacts'
  <2>1. CASE ReadFile \/ ReadPayloadKey \/ ReadPublicKey \/ GotSecret
    <3>1. /\ UNCHANGED <<srk, keys, ksp, certStore>>
          /\ \E f, x : seen' = [seen EXCEPT !["tool"][f] = x]
      BY <2>1 DEF ReadFile, ReadPayloadKey, ReadPublicKey, GotSecret, unlessFiles
    <3> QED
      BY <1>1, <3>1 DEF KeyFacts
  <2>2. CASE EmptyFile \/ FillFile \/ IfRequested \/ EncryptHalf \/ DecryptHalf \/ HandHostageOver
             \/ Destroyed \/ FileCallFails
    <3>1. UNCHANGED <<srk, keys, ksp, certStore, seen>>
      BY <2>2 DEF EmptyFile, FillFile, IfRequested, EncryptHalf, DecryptHalf, HandHostageOver,
         Destroyed, FileCallFails, unlessFiles, toolVars, identity
    <3> QED
      BY <3>1 DEF KeyFacts
  <2>3. CASE AddPlainCertificate
    <3>1. /\ UNCHANGED <<srk, keys, ksp, seen>>
          /\ certStore' = certStore \cup {[cert |-> Mine.cert, container |-> None]}
      BY <2>3 DEF AddPlainCertificate, Mine
    <3>2. \A e \in certStore' : e.container # None => e \in certStore
      BY <3>1
    <3> QED
      BY <3>1, <3>2 DEF KeyFacts
  <2>4. CASE Reboot \/ LimpetForceClearTpm
    <3>1. CASE UNCHANGED <<srk, keys, ksp, certStore, seen>>
      BY <3>1 DEF KeyFacts
    <3>2. CASE Cleared
      <4>1. /\ srk < MaxClears /\ srk' = srk + 1 /\ UNCHANGED <<keys, certStore, seen>>
            /\ ksp' = [c \in Containers |-> EmptyContainer]
        BY <3>2 DEF Cleared
      <4>2. srk' \in 0 .. MaxClears /\ \A n : n \in Int /\ n <= srk => n <= srk' /\ n # srk'
        BY <4>1, ToolParametersOK DEF KeyFacts
      <4>3. \A e \in certStore : e.container # None =>
               e.container \in Containers /\ e.container[1] <= srk' /\ e.container[1] # srk'
        <5> SUFFICES ASSUME NEW e \in certStore, e.container # None
                     PROVE  e.container \in Containers /\ e.container[1] <= srk'
                            /\ e.container[1] # srk'
          OBVIOUS
        <5>1. e.container \in Containers /\ e.container[1] <= srk
          BY DEF KeyFacts
        <5>2. e.container[1] \in Int
          BY <5>1, ToolParametersOK DEF Containers
        <5> QED
          BY <4>2, <5>1, <5>2
      <4>4. \A c \in Containers : ksp'[c].key = NoKey /\ ksp'[c].cert = None
        BY <4>1 DEF EmptyContainer
      <4>5. ksp' = [c \in Containers |-> [key |-> ksp'[c].key, cert |-> ksp'[c].cert]]
        BY <4>1 DEF EmptyContainer
      <4> QED
        BY <4>1, <4>2, <4>3, <4>4, <4>5 DEF KeyFacts
    <3> QED
      BY <2>4, <3>1, <3>2 DEF Reboot, LimpetForceClearTpm, identity
  <2>5. CASE Output \/ ToolEnds
    <3>1. /\ UNCHANGED <<srk, keys, ksp, certStore>>
          /\ seen' = [seen EXCEPT !["tool"] = NothingSeen]
      BY <2>5 DEF Output, ToolEnds, Forgets
    <3> QED
      BY <1>1, <3>1 DEF KeyFacts, NothingSeen, SeenFields
  <2> QED
    BY <2>1, <2>2, <2>3, <2>4, <2>5 DEF ToolStep
<1> QED
  BY <1>2, <1>3, <1>4, <1>5 DEF KeyStack

\* The configuration never changes.
LEMMA ScenarioStays ==
  ASSUME [AllNext]_allVars
  PROVE  scenario' = scenario
<1>1. ASSUME NEW p, Library(p)
      PROVE  scenario' = scenario
  BY <1>1 DEF Library, UseRegistry, Latch, LatchFails, Enter, Single, LoadFails, LooksFurther, SingleFails,
     FinallyDeleteBlob, Rethrow
<1>2. ASSUME NEW p, Shared(p)
      PROVE  scenario' = scenario
  BY <1>1, <1>2 DEF Shared, InLibrary, Token, Ignore, EmptyTpmSlot, Expand
<1>3. CASE Agent
  BY <1>3 DEF Agent, GetConnectionString, GotConnectionString, NoConnectionString, GivesUp,
     Registered, DpsRegisterDevice, CheckedDevice, ProvDeviceLLRegisterDevice, RegistrationFails,
     CreateModules, CreateEachModule, CreateModule, CheckedModule, GetModule, Expand
<1>4. CASE RenewSASToken \/ AppGetConnectionString \/ Provision \/ Imported \/ Restart
  BY <1>4 DEF RenewSASToken, AppGetConnectionString, Provision, Imported, Restart, library
<1>5. CASE Next
  BY <1>2, <1>3, <1>4, <1>5 DEF Next
<1>6. CASE IdentityCall("tool")
  BY <1>6 DEF IdentityCall, EnterIdentity, OpenKey, CreateKey, AddCertificate,
     SetCertificateProperty, GetCertificateProperty, DeleteCertificates, DeleteKey, FindCertificate,
     AcquireKey, LimpetIssueCertificate, LimpetGetTpmKey2BPubFromCert, LimpetChallengeIdentityCert,
     LimpetActivateIdentityCert, LimpetCreateHostageKeyEx, KeyCallFails
<1>7. CASE ToolStep
  BY <1>7 DEF ToolStep, ReadFile, ReadPayloadKey, ReadPublicKey, EmptyFile, FillFile, IfRequested,
     EncryptHalf, DecryptHalf, AddPlainCertificate, HandHostageOver, GotSecret, LimpetForceClearTpm,
     Reboot, Cleared, Destroyed, Output, ToolEnds, Forgets, FileCallFails, unlessFiles
<1>8. CASE Wmain
  BY <1>8 DEF Wmain
<1>9. CASE UNCHANGED allVars
  BY <1>9 DEF allVars, vars, library
<1> QED
  BY <1>5, <1>6, <1>7, <1>8, <1>9 DEF AllNext, Tool, ToolStep

\* A step of the device, a run of the tool that starts, or a step of one.
LEMMA Steps ==
  ASSUME AllNext
  PROVE  \/ Next /\ UNCHANGED toolVars
         \/ Wmain
         \/ ToolStep
         \/ IdentityCall("tool") /\ UNCHANGED <<driver, files, payload, pendingClear>>
BY DEF AllNext, Tool, ToolStep

LEMMA StacksInit ==
  ASSUME AllInit
  PROVE  /\ StackInv /\ faults = 0 /\ calls["tool"] = << >> /\ scenario \in Scenarios
         /\ \A ops : Free(calls["tool"], ops)
<1>1. /\ calls = [p \in Processes |-> << >>] /\ faults = 0 /\ scenario \in Scenarios
  BY DEF AllInit, Init
<1>2. "tool" \in Processes
  BY IdentityParametersOK
<1>3. calls["tool"] = << >>
  BY <1>1, <1>2
<1> QED
  BY <1>1, <1>3, FreeEmpty, StackIsFree DEF StackInv

\* The tool starts with the calls of one of its commands.
LEMMA WmainEffect ==
  ASSUME StackInv, scenario \in Scenarios, Wmain
  PROVE  /\ StackInv' /\ faults' = faults /\ UNCHANGED toolVars
         /\ \E c : /\ c.name \in CommandNames /\ calls["tool"] = << >>
                   /\ calls'["tool"] = Commands(c) \o <<On("output", None)>>
                   /\ \A ops : \/ ops \cap CommandOps # {}
                               \/ c.name \in {"epl", "cai"} /\ ops \cap Encrypting # {}
                               \/ c.name = "dld" /\ "destroyed" \in ops
                               \/ Free(calls'["tool"], ops)
<1>1. PICK c \in scenario.commands :
         calls' = [calls EXCEPT !["tool"] = Commands(c) \o <<On("output", None)>>]
  BY DEF Wmain
<1>2. /\ c.name \in CommandNames
      /\ c.name \in {"read", "delete", "activate"} => c.alg \in Algorithms
  BY <1>1, ToolParametersOK
<1>3. calls["tool"] = << >> /\ faults' = faults /\ UNCHANGED toolVars
  BY DEF Wmain
<1>4. "tool" \in Processes
  BY IdentityParametersOK
<1> DEFINE q == Commands(c) \o <<On("output", None)>>
<1>5. ASSUME NEW ops, ops \cap CommandOps = {}, c.name \in {"epl", "cai"} => ops \cap Encrypting = {},
             c.name = "dld" => "destroyed" \notin ops
      PROVE  Free(q, ops)
  BY <1>2, <1>5, CommandsOnStack
<1>6. IsStack(q)
  BY <1>5, StackIsFree
<1> HIDE DEF q
<1>7. calls' = [calls EXCEPT !["tool"] = q]
  BY <1>1 DEF q
<1>8. calls'["tool"] = q /\ calls' = [p \in Processes |-> calls'[p]]
  BY <1>4, <1>7, OneStack
<1>9. StackInv'
  BY <1>3, <1>6, <1>8 DEF StackInv
<1> QED
  BY <1>2, <1>3, <1>5, <1>8, <1>9 DEF q

\* The stacks are stacks all along.
LEMMA StacksKept ==
  ASSUME StackInv, scenario \in Scenarios, [AllNext]_allVars
  PROVE  /\ StackInv' /\ scenario' \in Scenarios
         /\ faults' = faults \/ faults' = faults + 1
<1>1. scenario' \in Scenarios
  BY ScenarioStays
<1>2. CASE UNCHANGED allVars
  BY <1>1, <1>2 DEF allVars, vars, library, StackInv
<1>3. CASE AllNext
  BY <1>1, <1>3, Steps, DeviceEffect, WmainEffect, ToolEffect, IdentityEffect
<1> QED
  BY <1>2, <1>3

LEMMA KeyInvStep ==
  ASSUME KeyInv, scenario \in Scenarios, [AllNext]_allVars
  PROVE  KeyInv'
<1>1. /\ StackInv /\ StackInv' /\ faults \in Nat /\ (faults' = faults \/ faults' = faults + 1)
  BY StacksKept DEF KeyInv, StackInv
<1> SUFFICES ASSUME faults' = 0
             PROVE  KeyFacts' /\ Free(calls'["tool"], KeyFunctions) /\ KeyStack'
  BY <1>1 DEF KeyInv
<1>2. /\ faults = 0 /\ faults' = faults
      /\ KeyFacts /\ Free(calls["tool"], KeyFunctions) /\ KeyStack
  BY <1>1 DEF KeyInv
<1>3. CASE UNCHANGED allVars
  <2>1. UNCHANGED <<srk, keys, ksp, certStore, seen, calls>>
    BY <1>3 DEF allVars, vars, library, toolVars, identity
  <2> QED
    BY <1>2, <2>1, KeysUntouched
<1>4. CASE Next /\ UNCHANGED toolVars
  <2>1. /\ UNCHANGED <<srk, keys, ksp, certStore, seen>>
        /\ calls'["tool"] = calls["tool"] \/ Rebuilt
    BY <1>1, <1>4, DeviceEffect DEF Effect, toolVars, identity
  <2>2. CASE calls'["tool"] = calls["tool"]
    BY <1>2, <2>1, <2>2, KeysUntouched
  <2>3. CASE Rebuilt
    <3>1. Free(calls["tool"], Inner)
      <4>1. Top("tool").op \notin Inner
        BY <2>3, ClosedInner DEF Rebuilt
      <4> QED
        BY <1>1, <1>2, <4>1, NoWork
    <3>2. Free(calls'["tool"], Inner) /\ Free(calls'["tool"], KeyFunctions)
      BY <1>2, <2>3, <3>1, ClosedInner DEF Rebuilt
    <3> QED
      BY <1>2, <2>1, <3>2, KeysUntouched
  <2> QED
    BY <2>1, <2>2, <2>3
<1>5. CASE Wmain
  <2>1. /\ Inner \cap CommandOps = {} /\ Inner \cap Encrypting = {} /\ "destroyed" \notin Inner
        /\ KeyFunctions \cap CommandOps = {} /\ KeyFunctions \cap Encrypting = {}
        /\ "destroyed" \notin KeyFunctions
    <3>1. /\ Inner \cap FileOps = {} /\ Inner \cap LibraryOps = {}
          /\ KeyFunctions \cap FileOps = {} /\ KeyFunctions \cap LibraryOps = {}
      BY ClosedInner DEF Closed
    <3>2. Inner \cap AuthorityOps = {} /\ KeyFunctions \cap AuthorityOps = {}
      BY DEF Inner, KeyFunctions, AuthorityOps
    <3>3. /\ Inner \cap {"LimpetImportIdentityCert", "LimpetSignWithIdentityCert"} = {}
          /\ KeyFunctions \cap {"LimpetImportIdentityCert", "LimpetSignWithIdentityCert"} = {}
      BY DEF Inner, KeyFunctions
    <3>4. Inner \cap CommandOps = {} /\ KeyFunctions \cap CommandOps = {}
      BY <3>1, <3>2, <3>3 DEF CommandOps
    <3>5. Inner \cap Encrypting = {} /\ KeyFunctions \cap Encrypting = {}
      BY DEF Inner, KeyFunctions, Encrypting
    <3>6. "destroyed" \notin Inner /\ "destroyed" \notin KeyFunctions
      BY DEF Inner, KeyFunctions
    <3> QED
      BY <3>4, <3>5, <3>6
  <2>2. UNCHANGED toolVars
    BY <1>1, <1>5, WmainEffect
  <2>3. Free(calls'["tool"], Inner) /\ Free(calls'["tool"], KeyFunctions)
    BY <1>1, <1>5, <2>1, WmainEffect
  <2>4. UNCHANGED <<srk, keys, ksp, certStore, seen>>
    BY <2>2 DEF toolVars, identity
  <2> QED
    BY <1>2, <2>3, <2>4, KeysUntouched
<1>6. CASE ToolStep
  <2>1. Free(calls'["tool"], KeyFunctions)
    BY <1>1, <1>2, <1>6, ToolEffect, ClosedInner DEF StepEffect
  <2> QED
    BY <1>1, <1>2, <1>6, <2>1, StepKeepsKeys
<1>7. CASE IdentityCall("tool")
  <2>1. Free(calls'["tool"], KeyFunctions)
    BY <1>1, <1>2, <1>7, IdentityEffect, ClosedInner
  <2> QED
    BY <1>1, <1>2, <1>7, <2>1, WorkStep
<1> QED
  BY <1>3, <1>4, <1>5, <1>6, <1>7, Steps

LEMMA KeyInvInit ==
  ASSUME AllInit
  PROVE  KeyInv
<1>1. /\ srk = 0 /\ seen = [p \in Processes |-> NothingSeen]
      /\ \/ keys = 0 /\ ksp = [c \in Containers |-> EmptyContainer] /\ certStore = {}
         \/ /\ keys = 1
            /\ \E a \in Algorithms :
                  /\ ksp = [[c \in Containers |-> EmptyContainer] EXCEPT
                               ![<<0, a>>] = [key |-> 1, cert |-> IssuedCertificate]]
                  /\ certStore = {[cert |-> IssuedCertificate, container |-> <<0, a>>]}
  BY DEF AllInit, ToolInit, IdentityInit
<1>2. "tool" \in Processes
  BY IdentityParametersOK
<1>3. /\ srk \in 0 .. MaxClears /\ seen = [p \in Processes |-> seen[p]]
      /\ seen["tool"] = [f \in SeenFields |-> seen["tool"][f]]
  BY <1>1, <1>2, ToolParametersOK DEF NothingSeen, SeenFields
<1>4. CASE keys = 0 /\ ksp = [c \in Containers |-> EmptyContainer] /\ certStore = {}
  <2>1. KeyFacts
    BY <1>3, <1>4 DEF KeyFacts, EmptyContainer
  <2> QED
    BY <2>1, StacksInit DEF KeyInv, KeyStack
<1>5. ASSUME NEW a \in Algorithms, keys = 1,
             ksp = [[c \in Containers |-> EmptyContainer] EXCEPT
                      ![<<0, a>>] = [key |-> 1, cert |-> IssuedCertificate]],
             certStore = {[cert |-> IssuedCertificate, container |-> <<0, a>>]}
      PROVE  KeyInv
  <2> DEFINE c0 == <<0, a>>
             e0 == [cert |-> IssuedCertificate, container |-> c0]
  <2>1. c0 \in Containers /\ c0[1] = 0
    BY ToolParametersOK DEF Containers
  <2>2. /\ e0.container = c0 /\ e0.cert = IssuedCertificate /\ IssuedCertificate.key = 1
        /\ certStore = {e0}
    BY <1>5 DEF IssuedCertificate
  <2> HIDE DEF c0, e0
  <2>3. ksp = [[c \in Containers |-> EmptyContainer] EXCEPT
                 ![c0] = [key |-> 1, cert |-> IssuedCertificate]]
    BY <1>5 DEF c0
  <2>4. /\ ksp = [c \in Containers |-> [key |-> ksp[c].key, cert |-> ksp[c].cert]]
        /\ ksp[c0].key = 1 /\ ksp[c0].cert = IssuedCertificate
        /\ \A c \in Containers : c # c0 => ksp[c].key = NoKey /\ ksp[c].cert = None
    BY <2>1, <2>3 DEF EmptyContainer
  <2>5. \A c \in Containers : /\ ksp[c].key # NoKey => c[1] = srk
                              /\ ksp[c].cert # None => ksp[c].cert.key = ksp[c].key
    <3> SUFFICES ASSUME NEW c \in Containers
                 PROVE  /\ ksp[c].key # NoKey => c[1] = srk
                        /\ ksp[c].cert # None => ksp[c].cert.key = ksp[c].key
      OBVIOUS
    <3>1. CASE c = c0
      BY <1>1, <2>1, <2>2, <2>4, <3>1
    <3>2. CASE c # c0
      BY <2>4, <3>2
    <3> QED
      BY <3>1, <3>2
  <2>6. \A e \in certStore : e.container # None =>
           /\ e.container \in Containers /\ e.container[1] <= srk
           /\ e.container[1] = srk => ksp[e.container].key = e.cert.key /\ e.cert.key # NoKey
    BY <1>1, <2>1, <2>2, <2>4 DEF NoKey
  <2>7. KeyFacts
    BY <1>3, <1>5, <2>4, <2>5, <2>6 DEF KeyFacts
  <2> QED
    BY <2>7, StacksInit DEF KeyInv, KeyStack
<1> QED
  BY <1>1, <1>4, <1>5

\* A certificate of the store that names a container of this TPM's names the
\* one of its own key, and a key carries a certificate for itself, across
\* crashes, clears and every order of commands, while no call fails.
\* (LimpetReadOrCreateIdentityKeyCert, CryptAcquireCertificatePrivateKey.)
THEOREM CertificatesKeepTheirKey == AllSpec => []CertificatesNameTheirKey
<1>1. AllInit => KeyInv /\ scenario \in Scenarios
  BY KeyInvInit, StacksInit
<1>2. KeyInv /\ scenario \in Scenarios /\ [AllNext]_allVars => (KeyInv /\ scenario \in Scenarios)'
  BY KeyInvStep, StacksKept DEF KeyInv
<1>3. KeyInv => CertificatesNameTheirKey
  BY DEF KeyInv, KeyFacts, CertificatesNameTheirKey
<1> QED
  BY <1>1, <1>2, <1>3, PTL DEF AllSpec

-----------------------------------------------------------------------------
(* The secrets *)

\* The secret that the command has can be found by who is to decrypt with it.
Saved ==
    \/ Mine.secret = OwnKey
    \/ Mine.secret = files["secret"]
    \/ files["activation"] # None /\ Mine.secret = files["activation"].secret

Challenge(k, s) == [key |-> k, secret |-> s]
Challenged == \E k : Mine.activation = Challenge(k, Mine.secret)

\* What is left of the challenge command after each of its calls.
Closing     == <<On("encrypt if requested", None)>>
Filling     == <<File("fill file", "activation")>> \o Closing
Emptying    == <<File("empty file", "activation")>> \o Filling
Challenging == <<On("LimpetChallengeIdentityCert", None)>> \o Emptying
Naming      == <<On("LimpetGetTpmKey2BPubFromCert", None)>> \o Challenging
Reading     == <<File("read file", "cert")>> \o Naming

Half(n) == [op |-> "encrypt", half |-> n]

\* The next call, what follows up to the encryption, and what is true then.
SecretWork(x, Q) ==
    \/ x.op = "payload key" /\ Q = <<Half(1)>> \o <<Half(2)>>
    \/ x.op = "encrypt" /\ Q \in {<< >>, <<Half(2)>>} /\ Saved
    \/ x.op = "read file" /\ Q \in {Reading, Naming}
    \/ x.op = "LimpetGetTpmKey2BPubFromCert" /\ Q = Challenging
    \/ /\ x.op = "LimpetChallengeIdentityCert" /\ Q = Emptying
       /\ \E k, s : Mine.activation = Challenge(k, s)
    \/ x.op = "empty file" /\ Q = Filling /\ Challenged
    \/ x.op = "fill file" /\ x.file = "activation" /\ Q = Closing /\ Challenged
    \/ x.op = "encrypt if requested" /\ Q = << >> /\ Saved

SecretCalls == {"payload key", "encrypt", "read file", "LimpetGetTpmKey2BPubFromCert",
                "LimpetChallengeIdentityCert", "empty file", "fill file", "encrypt if requested"}

SecretStack ==
    \/ Free(calls["tool"], Encrypting)
    \/ \E x, Q, R : /\ SecretWork(x, Q) /\ Free(R, Encrypting)
                    /\ calls["tool"] = <<x>> \o (Q \o R)

SecretFields ==
    /\ seen = [p \in Processes |-> seen[p]]
    /\ seen["tool"] = [f \in SeenFields |-> seen["tool"][f]]
    /\ files = [f \in ToolFiles |-> files[f]]
    /\ payload = [half \in 1 .. 2 |-> payload[half]]

SecretInv == StackInv /\ SecretFields /\ SecretStack

\* A stack of calls that are no places where failures are seen.
Quiet(q) == IsStack(q) /\ \A i \in 1 .. Len(q) : q[i].op \notin Handlers

LEMMA OneCall ==
  ASSUME NEW x
  PROVE  /\ IsStack(<<x>>) /\ <<x>> # << >> /\ Head(<<x>>) = x /\ Tail(<<x>>) = << >>
         /\ Len(<<x>>) = 1 /\ <<x>>[1] = x
<1>1. PICK S : S = {x}
  OBVIOUS
<1>2. <<x>> \in Seq(S) /\ Tail(<<x>>) = << >> /\ Head(<<x>>) = x
  BY <1>1
<1> QED
  BY <1>2 DEF IsStack

LEMMA NoCall ==
  /\ IsStack(<< >>) /\ Quiet(<< >>) /\ \A ops : Free(<< >>, ops)
  /\ \A q : IsStack(q) => << >> \o q = q /\ q \o << >> = q
<1>1. << >> \in Seq({}) /\ Len(<< >>) = 0
  OBVIOUS
<1>2. IsStack(<< >>) /\ Quiet(<< >>)
  BY <1>1 DEF IsStack, Quiet
<1>3. ASSUME NEW q, IsStack(q)
      PROVE  << >> \o q = q /\ q \o << >> = q
  <2>1. PICK S : q \in Seq(S)
    BY <1>3 DEF IsStack
  <2> QED
    BY <2>1
<1> QED
  BY <1>2, <1>3, FreeEmpty

LEMMA QuietPushed ==
  ASSUME NEW p, Quiet(p), NEW q, Quiet(q)
  PROVE  Quiet(p \o q)
<1>1. IsStack(p) /\ IsStack(q)
  BY DEF Quiet
<1>2. /\ IsStack(p \o q) /\ Len(p) \in Nat /\ Len(q) \in Nat /\ Len(p \o q) = Len(p) + Len(q)
      /\ \A i \in 1 .. Len(p) : (p \o q)[i] = p[i]
      /\ \A i \in 1 .. Len(q) : (p \o q)[Len(p) + i] = q[i]
  <2>1. IsStack(p \o q) /\ Len(p) \in Nat /\ Len(q) \in Nat
    BY ONLY <1>1, PushedOnStack, Zenon
  <2>2. Len(p \o q) = Len(p) + Len(q)
    BY ONLY <1>1, PushedOnStack, Zenon
  <2>3. \A i \in 1 .. Len(p) : (p \o q)[i] = p[i]
    BY ONLY <1>1, PushedOnStack, Zenon
  <2>4. ASSUME NEW i \in 1 .. Len(q) PROVE (p \o q)[Len(p) + i] = q[i]
    BY ONLY <1>1, <2>4, PushedOnStack
  <2> QED
    BY ONLY <2>1, <2>2, <2>3, <2>4
<1>3. ASSUME NEW i \in 1 .. Len(p) + Len(q)
      PROVE  (p \o q)[i].op \notin Handlers
  <2>1. CASE i \in 1 .. Len(p)
    BY <1>2, <2>1 DEF Quiet
  <2>2. CASE i \notin 1 .. Len(p)
    <3>1. i - Len(p) \in 1 .. Len(q) /\ Len(p) + (i - Len(p)) = i
      BY <1>2, <2>2
    <3>2. (p \o q)[i] = q[i - Len(p)]
      BY <1>2, <3>1
    <3> QED
      BY <3>1, <3>2 DEF Quiet
  <2> QED
    BY <2>1, <2>2
<1> QED
  BY <1>2, <1>3 DEF Quiet

LEMMA QuietMore ==
  ASSUME NEW x, x.op \notin Handlers, NEW q, Quiet(q)
  PROVE  Quiet(<<x>> \o q)
<1>1. Quiet(<<x>>)
  BY OneCall DEF Quiet
<1> QED
  BY <1>1, QuietPushed

\* A call of the work returns.
LEMMA CallReturns ==
  ASSUME StackInv, NEW x, NEW Q, Quiet(Q), NEW R, NEW ops, Free(R, ops),
         calls["tool"] = <<x>> \o (Q \o R)
  PROVE  /\ calls["tool"] # << >> /\ Top("tool") = x /\ Tail(calls["tool"]) = Q \o R
         /\ Returned("tool", TRUE) => calls'["tool"] = Q \o R
         /\ Returned("tool", FALSE) => Free(calls'["tool"], ops)
<1>1. "tool" \in Processes
  BY IdentityParametersOK
<1>2. IsStack(Q) /\ IsStack(R) /\ IsStack(Q \o R)
  BY FreeIsStack, PushedOnStack DEF Quiet
<1>3. calls["tool"] # << >> /\ Head(calls["tool"]) = x /\ Tail(calls["tool"]) = Q \o R
  BY <1>2, OneCall, NoCall, TopOfPushed
<1>4. ASSUME Returned("tool", TRUE)
      PROVE  calls'["tool"] = Q \o R
  BY <1>1, <1>3, <1>4 DEF Returned, StackInv
<1>5. ASSUME Returned("tool", FALSE)
      PROVE  Free(calls'["tool"], ops)
  <2>1. calls'["tool"] = From(Q \o R, Handlers)
    BY <1>1, <1>3, <1>5 DEF Returned, StackInv, Unwound
  <2> QED
    BY <2>1, Dropped DEF Quiet
<1> QED
  BY <1>3, <1>4, <1>5 DEF Top

LEMMA Onward ==
  ASSUME NEW y, NEW Q, IsStack(Q), NEW R, Free(R, Encrypting),
         calls'["tool"] = (<<y>> \o Q) \o R, SecretWork(y, Q)'
  PROVE  SecretStack'
<1>1. calls'["tool"] = <<y>> \o (Q \o R)
  BY OneCall, FreeIsStack, PushedTwice
<1> QED
  BY <1>1 DEF SecretStack

\* No call that is left to the work sees a failure.
LEMMA WorkIsQuiet ==
  /\ \A n : Quiet(<<Half(n)>>) /\ Quiet(<<Half(1)>> \o <<Half(n)>>)
  /\ Quiet(Closing) /\ Quiet(Filling) /\ Quiet(Emptying) /\ Quiet(Challenging) /\ Quiet(Naming)
  /\ Quiet(Reading)
<1>1. \A op \in SecretCalls : op \notin Handlers
  BY DEF SecretCalls, Handlers, LibraryHandlers
<1>2. \A x : x.op \in SecretCalls => Quiet(<<x>>)
  <2> SUFFICES ASSUME NEW x, x.op \in SecretCalls
               PROVE  Quiet(<<x>>)
    OBVIOUS
  <2>1. Quiet(<<x>> \o << >>) /\ <<x>> \o << >> = <<x>>
    BY <1>1, QuietMore, NoCall, OneCall
  <2> QED
    BY <2>1
<1>a. /\ \A op \in SecretCalls : On(op, None).op \in SecretCalls
      /\ \A op \in SecretCalls : \A f : File(op, f).op \in SecretCalls
  BY Ops
<1>b. {"encrypt if requested", "fill file", "empty file", "LimpetChallengeIdentityCert",
       "LimpetGetTpmKey2BPubFromCert", "read file", "encrypt"} \subseteq SecretCalls
  BY DEF SecretCalls
<1>c. \A n : Half(n).op = "encrypt"
  BY DEF Half
<1>3. /\ On("encrypt if requested", None).op \in SecretCalls
      /\ File("fill file", "activation").op \in SecretCalls
      /\ File("empty file", "activation").op \in SecretCalls
      /\ On("LimpetChallengeIdentityCert", None).op \in SecretCalls
      /\ On("LimpetGetTpmKey2BPubFromCert", None).op \in SecretCalls
      /\ File("read file", "cert").op \in SecretCalls
      /\ \A n : Half(n).op \in SecretCalls
  BY <1>a, <1>b, <1>c
<1>4. \A n : Quiet(<<Half(n)>>) /\ Quiet(<<Half(1)>> \o <<Half(n)>>)
  BY <1>1, <1>2, <1>3, QuietMore
<1>5. Quiet(Closing)
  BY <1>2, <1>3 DEF Closing
<1>6. Quiet(Filling)
  BY <1>1, <1>3, <1>5, QuietMore DEF Filling
<1>7. Quiet(Emptying)
  BY <1>1, <1>3, <1>6, QuietMore DEF Emptying
<1>8. Quiet(Challenging)
  BY <1>1, <1>3, <1>7, QuietMore DEF Challenging
<1>9. Quiet(Naming)
  BY <1>1, <1>3, <1>8, QuietMore DEF Naming
<1>10. Quiet(Reading)
  BY <1>1, <1>3, <1>9, QuietMore DEF Reading
<1> QED
  BY <1>4, <1>5, <1>6, <1>7, <1>8, <1>9, <1>10

\* What the command has seen and its files have the same fields all along.
LEMMA FieldsKept ==
  ASSUME SecretFields, [AllNext]_allVars
  PROVE  SecretFields'
<1>1. "tool" \in Processes
  BY IdentityParametersOK
<1>2. ASSUME UNCHANGED <<seen, files, payload>>
      PROVE  SecretFields'
  BY <1>2 DEF SecretFields
<1>3. ASSUME UNCHANGED <<files, payload>>, \E f, x : seen' = [seen EXCEPT !["tool"][f] = x]
      PROVE  SecretFields'
  BY <1>1, <1>3 DEF SecretFields
<1>4. CASE UNCHANGED allVars \/ (Next /\ UNCHANGED toolVars) \/ Wmain
  BY <1>2, <1>4 DEF Wmain, allVars, toolVars, identity
<1>5. CASE ReadFile \/ ReadPayloadKey \/ ReadPublicKey \/ GotSecret
  BY <1>3, <1>5 DEF ReadFile, ReadPayloadKey, ReadPublicKey, GotSecret, unlessFiles
<1>6. CASE EmptyFile \/ FillFile
  <2>1. UNCHANGED <<seen, payload>> /\ \E f, x : files' = [files EXCEPT ![f] = x]
    BY <1>6 DEF EmptyFile, FillFile, unlessFiles
  <2> QED
    BY <2>1 DEF SecretFields
<1>7. CASE EncryptHalf \/ DecryptHalf
  <2>1. UNCHANGED <<seen, files>> /\ \E h, x : payload' = [payload EXCEPT ![h] = x]
    BY <1>7 DEF EncryptHalf, DecryptHalf, unlessFiles
  <2> QED
    BY <2>1 DEF SecretFields
<1>8. CASE IfRequested \/ AddPlainCertificate \/ HandHostageOver \/ Destroyed \/ FileCallFails
           \/ LimpetForceClearTpm \/ Reboot
  BY <1>2, <1>8 DEF IfRequested, AddPlainCertificate, HandHostageOver, Destroyed, FileCallFails,
     LimpetForceClearTpm, Reboot, Cleared, unlessFiles, toolVars, identity
<1>9. CASE Output \/ ToolEnds
  <2>1. UNCHANGED <<files, payload>> /\ seen' = [seen EXCEPT !["tool"] = NothingSeen]
    BY <1>9 DEF Output, ToolEnds, Forgets
  <2> QED
    BY <1>1, <2>1 DEF SecretFields, NothingSeen, SeenFields
<1>10. CASE IdentityCall("tool") /\ UNCHANGED <<files, payload>>
  <2>1. CASE EnterIdentity("tool") \/ OpenKey("tool") \/ AddCertificate("tool")
             \/ SetCertificateProperty("tool") \/ DeleteCertificates("tool") \/ DeleteKey("tool")
             \/ AcquireKey("tool") \/ KeyCallFails("tool")
    BY <1>2, <1>10, <2>1 DEF EnterIdentity, OpenKey, AddCertificate, SetCertificateProperty,
       DeleteCertificates, DeleteKey, AcquireKey, KeyCallFails, identity
  <2>2. CASE GetCertificateProperty("tool") \/ FindCertificate("tool")
             \/ LimpetIssueCertificate("tool") \/ LimpetGetTpmKey2BPubFromCert("tool")
             \/ LimpetActivateIdentityCert("tool")
    BY <1>3, <1>10, <2>2 DEF GetCertificateProperty, FindCertificate, LimpetIssueCertificate,
       LimpetGetTpmKey2BPubFromCert, LimpetActivateIdentityCert
  <2>3. CASE CreateKey("tool") \/ LimpetChallengeIdentityCert("tool")
             \/ LimpetCreateHostageKeyEx("tool")
    <3>1. \E f, x, g, y : seen' = [seen EXCEPT !["tool"][f] = x, !["tool"][g] = y]
      <4>1. CASE CreateKey("tool")
        BY <4>1 DEF CreateKey
      <4>2. CASE LimpetChallengeIdentityCert("tool")
        BY <4>2 DEF LimpetChallengeIdentityCert
      <4>3. CASE LimpetCreateHostageKeyEx("tool")
        BY <4>3 DEF LimpetCreateHostageKeyEx
      <4> QED
        BY <2>3, <4>1, <4>2, <4>3
    <3> QED
      BY <1>1, <1>10, <3>1 DEF SecretFields
  <2> QED
    BY <1>10, <2>1, <2>2, <2>3 DEF IdentityCall
<1> QED
  BY <1>4, <1>5, <1>6, <1>7, <1>8, <1>9, <1>10, Steps DEF ToolStep

\* What can happen to a call of the work.
LEMMA Moves ==
  ASSUME StackInv, AllNext, calls["tool"] # << >>, Top("tool").op \in SecretCalls
  PROVE  \/ calls'["tool"] = calls["tool"] /\ UNCHANGED <<seen, files, payload>>
         \/ Returned("tool", FALSE) /\ UNCHANGED <<seen, files, payload>>
         \/ calls'["tool"] = << >>
         \/ ReadFile /\ Top("tool").op = "read file"
         \/ ReadPayloadKey /\ Top("tool").op = "payload key"
         \/ EmptyFile /\ Top("tool").op = "empty file"
         \/ FillFile /\ Top("tool").op = "fill file"
         \/ IfRequested /\ Top("tool").op = "encrypt if requested"
         \/ EncryptHalf /\ Top("tool").op = "encrypt"
         \/ /\ LimpetGetTpmKey2BPubFromCert("tool") /\ Top("tool").op = "LimpetGetTpmKey2BPubFromCert"
            /\ UNCHANGED <<files, payload>>
         \/ /\ LimpetChallengeIdentityCert("tool") /\ Top("tool").op = "LimpetChallengeIdentityCert"
            /\ UNCHANGED <<files, payload>>
<1> DEFINE op == Top("tool").op
<1>1. /\ op \notin LibraryOps /\ op \notin Inner /\ op \notin IdentityFunctions
      /\ op \notin {"LimpetGetTpmKey2BPub", "decrypt", "add plain certificate",
                    "LimpetForceClearTpm", "hostage", "got secret", "destroyed", "output",
                    "LimpetIssueCertificate", "LimpetActivateIdentityCert",
                    "LimpetCreateHostageKeyEx", "write if requested", "decrypt if requested"}
  BY DEF SecretCalls, LibraryOps, SingleCalls, Functions, Handlers, LibraryHandlers, Inner,
     IdentityFunctions
<1>2. CASE Next /\ UNCHANGED toolVars
  <2>1. calls'["tool"] = calls["tool"] \/ Rebuilt
    BY <1>2, DeviceEffect DEF Effect
  <2>2. ~Rebuilt
    BY <1>1 DEF Rebuilt
  <2> QED
    BY <1>2, <2>1, <2>2 DEF toolVars, identity
<1>3. CASE Wmain
  BY <1>3 DEF Wmain
<1>4. CASE IdentityCall("tool") /\ UNCHANGED <<driver, files, payload, pendingClear>>
  <2>1. CASE EnterIdentity("tool")
    BY <1>1, <2>1 DEF EnterIdentity
  <2>2. CASE KeyCallFails("tool")
    BY <1>4, <2>2 DEF KeyCallFails, identity
  <2>3. CASE LimpetGetTpmKey2BPubFromCert("tool") \/ LimpetChallengeIdentityCert("tool")
    <3>1. /\ LimpetGetTpmKey2BPubFromCert("tool") => op = "LimpetGetTpmKey2BPubFromCert"
          /\ LimpetChallengeIdentityCert("tool") => op = "LimpetChallengeIdentityCert"
      BY DEF LimpetGetTpmKey2BPubFromCert, LimpetChallengeIdentityCert, At, Top
    <3> QED
      BY <1>4, <2>3, <3>1
  <2>4. CASE LimpetIssueCertificate("tool") \/ LimpetActivateIdentityCert("tool")
             \/ LimpetCreateHostageKeyEx("tool")
    <3>1. op \in {"LimpetIssueCertificate", "LimpetActivateIdentityCert", "LimpetCreateHostageKeyEx"}
      BY <2>4 DEF LimpetIssueCertificate, LimpetActivateIdentityCert, LimpetCreateHostageKeyEx, At, Top
    <3> QED
      BY <1>1, <3>1
  <2>5. CASE OpenKey("tool") \/ CreateKey("tool") \/ AddCertificate("tool")
             \/ SetCertificateProperty("tool") \/ GetCertificateProperty("tool")
             \/ DeleteCertificates("tool") \/ DeleteKey("tool") \/ FindCertificate("tool")
             \/ AcquireKey("tool")
    <3>1. op \in Inner
      BY <2>5 DEF OpenKey, CreateKey, AddCertificate, SetCertificateProperty, GetCertificateProperty,
         DeleteCertificates, DeleteKey, FindCertificate, AcquireKey, At, Top, Inner
    <3> QED
      BY <1>1, <3>1
  <2> QED
    BY <1>4, <2>1, <2>2, <2>3, <2>4, <2>5 DEF IdentityCall
<1>5. CASE ToolStep
  <2>1. CASE ReadFile \/ ReadPayloadKey \/ EmptyFile \/ FillFile \/ EncryptHalf
    <3>1. /\ ReadFile => op = "read file"
          /\ ReadPayloadKey => op = "payload key"
          /\ EmptyFile => op = "empty file"
          /\ FillFile => op = "fill file"
          /\ EncryptHalf => op = "encrypt"
      BY DEF ReadFile, ReadPayloadKey, EmptyFile, FillFile, EncryptHalf, At, Top
    <3> QED
      BY <2>1, <3>1
  <2>2. CASE IfRequested
    <3>1. op \in {"write if requested", "encrypt if requested", "decrypt if requested"}
      BY <2>2 DEF IfRequested, At, Top
    <3> QED
      BY <1>1, <2>2, <3>1
  <2>3. CASE FileCallFails
    BY <2>3 DEF FileCallFails, toolVars, identity
  <2>4. CASE ToolEnds
    <3>1. "tool" \in Processes
      BY IdentityParametersOK
    <3> QED
      BY <2>4, <3>1 DEF ToolEnds, StackInv
  <2>5. CASE Reboot
    BY <2>5 DEF Reboot
  <2>6. CASE ReadPublicKey \/ DecryptHalf \/ AddPlainCertificate \/ HandHostageOver \/ GotSecret
             \/ LimpetForceClearTpm \/ Destroyed \/ Output
    <3>1. op \in {"LimpetGetTpmKey2BPub", "decrypt", "add plain certificate", "hostage",
                  "got secret", "LimpetForceClearTpm", "destroyed", "output"}
      BY <2>6 DEF ReadPublicKey, DecryptHalf, AddPlainCertificate, HandHostageOver, GotSecret,
         LimpetForceClearTpm, Destroyed, Output, At, Top
    <3> QED
      BY <1>1, <3>1
  <2> QED
    BY <1>5, <2>1, <2>2, <2>3, <2>4, <2>5, <2>6 DEF ToolStep
<1> QED
  BY <1>2, <1>3, <1>4, <1>5, Steps

LEMMA TwoCalls ==
  ASSUME NEW x, NEW y
  PROVE  <<x>> \o <<y>> = <<x, y>>
<1>1. PICK S : S = {x, y}
  OBVIOUS
<1> DEFINE q == <<x>>
           r == <<y>>
           t == <<x, y>>
<1>2. /\ q \in Seq(S) /\ r \in Seq(S) /\ t \in Seq(S) /\ Len(q) = 1 /\ Len(r) = 1 /\ Len(t) = 2
      /\ t[1] = q[1] /\ t[2] = r[1]
  BY <1>1
<1> HIDE DEF q, r, t
<1>3. /\ q \o r \in Seq(S) /\ Len(q \o r) = Len(q) + Len(r)
      /\ \A i \in 1 .. Len(q) + Len(r) : (q \o r)[i] = IF i <= Len(q) THEN q[i] ELSE r[i - Len(q)]
  BY <1>2, ConcatProperties
<1>4. Len(q \o r) = Len(t)
  BY <1>2, <1>3
<1>5. \A i \in 1 .. Len(q \o r) : (q \o r)[i] = t[i]
  BY <1>2, <1>3, <1>4
<1>6. q \o r \in Seq(S) /\ t \in Seq(S)
  BY <1>2, <1>3
<1>7. q \o r = t
  BY <1>4, <1>5, <1>6, SeqEqual
<1> QED
  BY <1>7 DEF q, r, t

Regroups(a, b, g, h, e, f, x, w, y) ==
  (((((a \o b) \o (g \o h)) \o (e \o f)) \o x) \o w) \o y
    = (a \o (b \o (g \o (h \o (e \o (f \o x)))))) \o (w \o y)

LEMMA Regrouped ==
  ASSUME NEW a, IsStack(a), NEW b, IsStack(b), NEW g, IsStack(g), NEW h, IsStack(h),
         NEW e, IsStack(e), NEW f, IsStack(f), NEW x, IsStack(x), NEW w, IsStack(w),
         NEW y, IsStack(y)
  PROVE  Regroups(a, b, g, h, e, f, x, w, y)
<1>1. PICK c1, c2, c3, c4, c5 :
         c1 = f \o x /\ c2 = e \o c1 /\ c3 = h \o c2 /\ c4 = g \o c3 /\ c5 = b \o c4
  OBVIOUS
<1>a. IsStack(c1)
  BY ONLY <1>1, IsStack(f), IsStack(x), PushedOnStack
<1>b. IsStack(c2)
  BY ONLY <1>1, <1>a, IsStack(e), PushedOnStack
<1>c. IsStack(c3)
  BY ONLY <1>1, <1>b, IsStack(h), PushedOnStack
<1>d. IsStack(c4)
  BY ONLY <1>1, <1>c, IsStack(g), PushedOnStack
<1>e. IsStack(c5)
  BY ONLY <1>1, <1>d, IsStack(b), PushedOnStack
<1>3. PICK ab, gh, ef, abgh, ac :
         ab = a \o b /\ gh = g \o h /\ ef = e \o f /\ abgh = ab \o gh /\ ac = a \o c5
  OBVIOUS
<1>f. IsStack(ab)
  BY ONLY <1>3, IsStack(a), IsStack(b), PushedOnStack
<1>g. IsStack(gh)
  BY ONLY <1>3, IsStack(g), IsStack(h), PushedOnStack
<1>h. IsStack(ef)
  BY ONLY <1>3, IsStack(e), IsStack(f), PushedOnStack
<1>i. IsStack(abgh)
  BY ONLY <1>3, <1>f, <1>g, PushedOnStack
<1>j. IsStack(ac)
  BY ONLY <1>3, <1>e, IsStack(a), PushedOnStack
<1>5. e \o (f \o x) = (e \o f) \o x
  BY ONLY IsStack(e), IsStack(f), IsStack(x), PushedTwice
<1>6. g \o (h \o c2) = (g \o h) \o c2
  BY ONLY <1>b, IsStack(g), IsStack(h), PushedTwice
<1>7. a \o (b \o c4) = (a \o b) \o c4
  BY ONLY <1>d, IsStack(a), IsStack(b), PushedTwice
<1>8. ab \o (gh \o c2) = (ab \o gh) \o c2
  BY ONLY <1>b, <1>f, <1>g, PushedTwice
<1>9. abgh \o (ef \o x) = (abgh \o ef) \o x
  BY ONLY <1>h, <1>i, IsStack(x), PushedTwice
<1>10. ac \o (w \o y) = (ac \o w) \o y
  BY ONLY <1>j, IsStack(w), IsStack(y), PushedTwice
\* Both sides are the same stack.
<1>11. c4 = gh \o c2 /\ c2 = ef \o x
  BY ONLY <1>1, <1>3, <1>5, <1>6
<1>12. ac = (abgh \o ef) \o x
  BY ONLY <1>1, <1>3, <1>7, <1>8, <1>9, <1>11
<1>13. ((((a \o b) \o (g \o h)) \o (e \o f)) \o x) \o w = ac \o w
  BY ONLY <1>3, <1>12
<1>14. a \o (b \o (g \o (h \o (e \o (f \o x))))) = ac
  BY ONLY <1>1, <1>3
<1> QED
  BY ONLY <1>10, <1>13, <1>14 DEF Regroups

\* The challenge command, call by call.
LEMMA ChallengeCalls ==
  ChallengeAsymId \o <<On("output", None)>>
    = (<<File("read file", "rek")>> \o Reading) \o (WriteIfRequested("secret") \o <<On("output", None)>>)
<1>1. PICK a, b, g, h, e, f, x, w, y :
         /\ a = <<File("read file", "rek")>> /\ b = <<File("read file", "cert")>>
         /\ g = <<On("LimpetGetTpmKey2BPubFromCert", None)>>
         /\ h = <<On("LimpetChallengeIdentityCert", None)>>
         /\ e = <<File("empty file", "activation")>> /\ f = <<File("fill file", "activation")>>
         /\ x = <<On("encrypt if requested", None)>>
         /\ w = WriteIfRequested("secret") /\ y = <<On("output", None)>>
  OBVIOUS
<1>2. /\ g \o h = <<On("LimpetGetTpmKey2BPubFromCert", None), On("LimpetChallengeIdentityCert", None)>>
      /\ e \o f = WriteToDisk("activation")
  BY <1>1, TwoCalls DEF WriteToDisk
<1>3. ChallengeAsymId = ((((a \o b) \o (g \o h)) \o (e \o f)) \o x) \o w
  <2>1. ChallengeAsymId = ((((ReadFromDisk("rek") \o ReadFromDisk("cert"))
                               \o <<On("LimpetGetTpmKey2BPubFromCert", None),
                                    On("LimpetChallengeIdentityCert", None)>>)
                              \o WriteToDisk("activation")) \o <<On("encrypt if requested", None)>>)
                            \o WriteIfRequested("secret")
    BY DEF ChallengeAsymId
  <2>2. ReadFromDisk("rek") = a /\ ReadFromDisk("cert") = b
    BY <1>1 DEF ReadFromDisk
  <2> QED
    BY <1>1, <1>2, <2>1, <2>2
<1>4. Reading = b \o (g \o (h \o (e \o (f \o x))))
  BY <1>1 DEF Reading, Naming, Challenging, Emptying, Filling, Closing
<1>5. /\ IsStack(a) /\ IsStack(b) /\ IsStack(g) /\ IsStack(h) /\ IsStack(e) /\ IsStack(f)
      /\ IsStack(x) /\ IsStack(w) /\ IsStack(y)
  BY <1>1, OneCall DEF WriteIfRequested
<1>6. Regroups(a, b, g, h, e, f, x, w, y)
  BY ONLY <1>5, Regrouped
<1>7. ChallengeAsymId \o y = (a \o Reading) \o (w \o y)
  BY <1>3, <1>4, <1>6 DEF Regroups
<1> QED
  BY <1>1, <1>7

\* A run of the tool starts.
LEMMA SecretsBegin ==
  ASSUME StackInv, scenario \in Scenarios, Wmain
  PROVE  SecretStack'
<1>1. PICK c : /\ c.name \in CommandNames
               /\ calls'["tool"] = Commands(c) \o <<On("output", None)>>
               /\ \/ Encrypting \cap CommandOps # {}
                  \/ c.name \in {"epl", "cai"} /\ Encrypting \cap Encrypting # {}
                  \/ c.name = "dld" /\ "destroyed" \in Encrypting
                  \/ Free(calls'["tool"], Encrypting)
  BY WmainEffect
<1>2. Encrypting \cap CommandOps = {} /\ "destroyed" \notin Encrypting
  BY DEF Encrypting, CommandOps, FileOps, AuthorityOps, LibraryOps, SingleCalls, Functions, Handlers,
     LibraryHandlers
<1>3. Free(<<On("output", None)>>, Encrypting) /\ Free(WriteIfRequested("secret"), Encrypting)
  <2>1. "output" \notin Encrypting /\ "write if requested" \notin Encrypting
    BY DEF Encrypting
  <2>2. On("output", None).op = "output" /\ File("write if requested", "secret").op = "write if requested"
    BY Ops
  <2> QED
    BY <2>1, <2>2, FreeOne DEF WriteIfRequested
<1>4. CASE c.name = "epl"
  <2>1. Commands(c) = EncryptPayload
    BY <1>4 DEF Commands
  <2>2. EncryptPayload = <<On("payload key", None)>> \o (<<Half(1)>> \o <<Half(2)>>)
    <3>1. <<Half(1)>> \o <<Half(2)>> = <<Half(1), Half(2)>>
      BY TwoCalls
    <3>2. <<Half(1), Half(2)>> = LimpetSymmetricPayloadProtection("encrypt")
      BY DEF LimpetSymmetricPayloadProtection, Half
    <3> QED
      BY <3>1, <3>2 DEF EncryptPayload
  <2>3. SecretWork(On("payload key", None), <<Half(1)>> \o <<Half(2)>>)'
    BY Ops DEF SecretWork
  <2>4. IsStack(<<Half(1)>> \o <<Half(2)>>)
    BY WorkIsQuiet DEF Quiet
  <2> QED
    BY <1>1, <1>3, <2>1, <2>2, <2>3, <2>4, Onward
<1>5. CASE c.name = "cai"
  <2>1. Commands(c) = ChallengeAsymId
    BY <1>5 DEF Commands
  <2>2. Free(WriteIfRequested("secret") \o <<On("output", None)>>, Encrypting)
    BY <1>3, FreePushed
  <2>3. SecretWork(File("read file", "rek"), Reading)'
    BY Ops DEF SecretWork
  <2>4. IsStack(Reading)
    BY WorkIsQuiet DEF Quiet
  <2> QED
    BY <1>1, <2>1, <2>2, <2>3, <2>4, ChallengeCalls, Onward
<1> QED
  BY <1>1, <1>2, <1>4, <1>5 DEF SecretStack

\* None stands for what is absent: no challenge the tool makes is None.
NoneIsNoChallenge == \A k, s : Challenge(k, s) # None

\* The next call of the work is made.
LEMMA WorkGoesOn ==
  ASSUME NoneIsNoChallenge, StackInv, SecretFields, AllNext,
         NEW x, NEW Q, NEW R, SecretWork(x, Q), Free(R, Encrypting),
         calls["tool"] = <<x>> \o (Q \o R)
  PROVE  SecretStack'
<1>1. Quiet(Q) /\ x.op \in SecretCalls
  <2>1. Quiet(Q)
    BY WorkIsQuiet, NoCall DEF SecretWork
  <2> QED
    BY <2>1 DEF SecretWork, SecretCalls
<1>2. /\ calls["tool"] # << >> /\ Top("tool") = x /\ Tail(calls["tool"]) = Q \o R
      /\ Returned("tool", TRUE) => calls'["tool"] = Q \o R
      /\ Returned("tool", FALSE) => Free(calls'["tool"], Encrypting)
  BY <1>1, CallReturns
<1>3. "tool" \in Processes
  BY IdentityParametersOK
<1>4. IsStack(R) /\ << >> \o R = R
  BY FreeIsStack, NoCall
<1>5. CASE Free(calls'["tool"], Encrypting)
  BY <1>5 DEF SecretStack
<1>6. CASE calls'["tool"] = calls["tool"] /\ UNCHANGED <<seen, files, payload>>
  <2>1. SecretWork(x, Q)'
    BY <1>6 DEF SecretWork, Saved, Challenged, Mine
  <2> QED
    BY <1>6, <2>1 DEF SecretStack
<1>7. CASE ReadFile /\ x.op = "read file"
  <2>1. Q \in {Reading, Naming} /\ calls'["tool"] = Q \o R
    BY <1>2, <1>7 DEF SecretWork, ReadFile
  <2>2. IsStack(Naming) /\ IsStack(Challenging)
    BY WorkIsQuiet DEF Quiet
  <2>3. CASE Q = Reading
    <3>1. SecretWork(File("read file", "cert"), Naming)'
      BY Ops DEF SecretWork
    <3> QED
      BY <2>1, <2>2, <2>3, <3>1, Onward DEF Reading
  <2>4. CASE Q = Naming
    <3>1. SecretWork(On("LimpetGetTpmKey2BPubFromCert", None), Challenging)'
      BY Ops DEF SecretWork
    <3> QED
      BY <2>1, <2>2, <2>4, <3>1, Onward DEF Naming
  <2> QED
    BY <2>1, <2>3, <2>4
<1>8. CASE ReadPayloadKey /\ x.op = "payload key"
  <2>1. Q = <<Half(1)>> \o <<Half(2)>> /\ calls'["tool"] = Q \o R
    BY <1>2, <1>8 DEF SecretWork, ReadPayloadKey
  <2>2. Saved'
    <3>1. PICK k \in {files["secret"], OwnKey} \ {None} :
             seen' = [seen EXCEPT !["tool"].secret = k] /\ files' = files
      BY <1>8 DEF ReadPayloadKey
    <3>2. Mine'.secret = k
      BY <1>3, <3>1 DEF SecretFields, SeenFields, Mine
    <3> QED
      BY <3>1, <3>2 DEF Saved, OwnKey
  <2>3. SecretWork(Half(1), <<Half(2)>>)'
    BY <2>2 DEF SecretWork, Half
  <2> QED
    BY <2>1, <2>3, OneCall, Onward
<1>9. CASE EncryptHalf /\ x.op = "encrypt"
  <2>1. Q \in {<< >>, <<Half(2)>>} /\ Saved /\ calls'["tool"] = Q \o R
    BY <1>2, <1>9 DEF SecretWork, EncryptHalf
  <2>2. Saved'
    BY <1>9, <2>1 DEF EncryptHalf, unlessFiles, Saved, Mine
  <2>3. CASE Q = << >>
    BY <1>4, <2>1, <2>3 DEF SecretStack
  <2>4. CASE Q = <<Half(2)>>
    <3>1. SecretWork(Half(2), << >>)'
      BY <2>2 DEF SecretWork, Half
    <3>2. <<Half(2)>> \o << >> = <<Half(2)>>
      BY OneCall, NoCall
    <3> QED
      BY <2>1, <2>4, <3>1, <3>2, NoCall, Onward
  <2> QED
    BY <2>1, <2>3, <2>4
<1>10. CASE LimpetGetTpmKey2BPubFromCert("tool") /\ x.op = "LimpetGetTpmKey2BPubFromCert"
  <2>1. Q = Challenging /\ calls'["tool"] = Q \o R
    BY <1>2, <1>10 DEF SecretWork, LimpetGetTpmKey2BPubFromCert
  <2>2. PICK k : seen' = [seen EXCEPT !["tool"].activation = Challenge(k, None)]
    BY <1>10 DEF LimpetGetTpmKey2BPubFromCert, Challenge
  <2>3. Mine'.activation = Challenge(k, None)
    BY <1>3, <2>2 DEF SecretFields, SeenFields, Mine
  <2>4. SecretWork(On("LimpetChallengeIdentityCert", None), Emptying)'
    BY <2>3, Ops DEF SecretWork
  <2>5. IsStack(Emptying)
    BY WorkIsQuiet DEF Quiet
  <2> QED
    BY <2>1, <2>4, <2>5, Onward DEF Challenging
<1>11. CASE LimpetChallengeIdentityCert("tool") /\ x.op = "LimpetChallengeIdentityCert"
  <2>1. Q = Emptying /\ calls'["tool"] = Q \o R
    BY <1>2, <1>11 DEF SecretWork, LimpetChallengeIdentityCert
  <2>2. PICK k, s : Mine.activation = Challenge(k, s)
    BY <1>11 DEF SecretWork
  <2>3. PICK n : seen' = [seen EXCEPT !["tool"].activation.secret = n, !["tool"].secret = n]
    BY <1>11 DEF LimpetChallengeIdentityCert
  <2>4. Mine' = [Mine EXCEPT !.activation.secret = n, !.secret = n]
    BY <1>3, <2>3 DEF SecretFields, Mine
  <2>5. Mine'.activation = [Mine.activation EXCEPT !.secret = n] /\ Mine'.secret = n
    BY <2>4 DEF SecretFields, SeenFields, Mine
  <2>6. Mine'.activation = Challenge(k, n)
    BY <2>2, <2>5 DEF Challenge
  <2>7. SecretWork(File("empty file", "activation"), Filling)'
    BY <2>5, <2>6, Ops DEF SecretWork, Challenged
  <2>8. IsStack(Filling)
    BY WorkIsQuiet DEF Quiet
  <2> QED
    BY <2>1, <2>7, <2>8, Onward DEF Emptying
<1>12. CASE EmptyFile /\ x.op = "empty file"
  <2>1. Q = Filling /\ calls'["tool"] = Q \o R /\ Challenged /\ seen' = seen
    BY <1>2, <1>12 DEF SecretWork, EmptyFile
  <2>2. Challenged'
    BY <2>1 DEF Challenged, Mine
  <2>3. SecretWork(File("fill file", "activation"), Closing)'
    <3>1. File("fill file", "activation").file = "activation"
      BY DEF File
    <3> QED
      BY <2>2, <3>1, Ops DEF SecretWork
  <2>4. IsStack(Closing)
    BY WorkIsQuiet DEF Quiet
  <2> QED
    BY <2>1, <2>3, <2>4, Onward DEF Filling
<1>13. CASE FillFile /\ x.op = "fill file"
  <2>1. Q = Closing /\ calls'["tool"] = Q \o R /\ Challenged /\ x.file = "activation" /\ seen' = seen
    BY <1>2, <1>13 DEF SecretWork, FillFile
  <2>2. files' = [files EXCEPT !["activation"] = Mine.activation]
    BY <1>2, <1>13, <2>1 DEF FillFile, Mine
  <2>3. files'["activation"] = Mine.activation
    BY <2>2 DEF SecretFields, ToolFiles
  <2>4. PICK k : Mine.activation = Challenge(k, Mine.secret)
    BY <2>1 DEF Challenged
  <2>5. files'["activation"] # None /\ files'["activation"].secret = Mine.secret
    BY <2>3, <2>4 DEF NoneIsNoChallenge, Challenge
  <2>6. Saved'
    BY <2>1, <2>5 DEF Saved, Mine
  <2>7. SecretWork(On("encrypt if requested", None), << >>)'
    BY <2>6, Ops DEF SecretWork
  <2>8. Closing = <<On("encrypt if requested", None)>> \o << >>
    BY OneCall, NoCall DEF Closing
  <2> QED
    BY <2>1, <2>7, <2>8, NoCall, Onward
<1>14. CASE IfRequested /\ x.op = "encrypt if requested"
  <2>1. Q = << >> /\ Saved
    BY <1>14 DEF SecretWork
  <2>2. PICK requested \in BOOLEAN :
          calls'["tool"] = (IF requested THEN LimpetSymmetricPayloadProtection("encrypt") ELSE << >>)
                              \o Tail(calls["tool"])
    <3> DEFINE body == CASE At("tool", "write if requested")   -> WriteToDisk(Top("tool").file)
                         [] At("tool", "encrypt if requested") ->
                                LimpetSymmetricPayloadProtection("encrypt")
                         [] At("tool", "decrypt if requested") ->
                                LimpetSymmetricPayloadProtection("decrypt")
                         [] OTHER -> << >>
    <3>1. PICK requested \in BOOLEAN :
             calls' = [calls EXCEPT !["tool"] =
                          (IF requested THEN body ELSE << >>) \o Tail(@)]
      BY <1>14 DEF IfRequested
    <3>2. body = LimpetSymmetricPayloadProtection("encrypt")
      BY <1>2, <1>14 DEF At, Top
    <3> HIDE DEF body
    <3> QED
      BY <1>3, <3>1, <3>2 DEF StackInv
  <2>3. Saved'
    BY <1>14, <2>1 DEF IfRequested, unlessFiles, Saved, Mine
  <2>4. Tail(calls["tool"]) = R
    BY <1>2, <1>4, <2>1
  <2>5. CASE requested = FALSE
    BY <1>4, <2>2, <2>4, <2>5 DEF SecretStack
  <2>6. CASE requested = TRUE
    <3>1. LimpetSymmetricPayloadProtection("encrypt") = <<Half(1)>> \o <<Half(2)>>
      BY TwoCalls DEF LimpetSymmetricPayloadProtection, Half
    <3>2. SecretWork(Half(1), <<Half(2)>>)'
      BY <2>3 DEF SecretWork, Half
    <3> QED
      BY <2>2, <2>4, <2>6, <3>1, <3>2, OneCall, Onward
  <2> QED
    BY <2>5, <2>6
<1>15. CASE calls'["tool"] = << >>
  BY <1>5, <1>15, NoCall
<1>16. CASE Returned("tool", FALSE)
  BY <1>2, <1>5, <1>16
<1> QED
  BY <1>1, <1>2, <1>6, <1>7, <1>8, <1>9, <1>10, <1>11, <1>12, <1>13, <1>14, <1>15, <1>16, Moves

LEMMA SecretInvStep ==
  ASSUME NoneIsNoChallenge, SecretInv, scenario \in Scenarios, [AllNext]_allVars
  PROVE  SecretInv'
<1>1. StackInv /\ StackInv' /\ SecretFields /\ SecretFields' /\ SecretStack
  BY StacksKept, FieldsKept DEF SecretInv
<1>2. CASE UNCHANGED allVars
  <2>1. UNCHANGED <<calls, seen, files>>
    BY <1>2 DEF allVars, vars, library, toolVars, identity
  <2>2. \A x, Q : SecretWork(x, Q) => SecretWork(x, Q)'
    BY <2>1 DEF SecretWork, Saved, Challenged, Mine
  <2>3. SecretStack'
    BY <1>1, <2>1, <2>2 DEF SecretStack
  <2> QED
    BY <1>1, <2>3 DEF SecretInv
<1>3. CASE AllNext /\ Free(calls["tool"], Encrypting)
  <2>1. Closed(Encrypting) /\ Encrypting \cap LibraryOps = {} /\ Encrypting \cap Inner = {}
    BY DEF Encrypting, Closed, FileOps, LibraryOps, SingleCalls, Functions, Handlers, LibraryHandlers,
       Inner
  <2>2. CASE Next /\ UNCHANGED toolVars
    <3>1. Free(calls'["tool"], Encrypting)
      BY <1>1, <1>3, <2>1, <2>2, DeviceEffect DEF Effect, Rebuilt
    <3> QED
      BY <1>1, <3>1 DEF SecretInv, SecretStack
  <2>3. CASE ToolStep
    BY <1>1, <1>3, <2>1, <2>3, ToolEffect DEF StepEffect, SecretInv, SecretStack
  <2>4. CASE IdentityCall("tool")
    BY <1>1, <1>3, <2>1, <2>4, IdentityEffect DEF SecretInv, SecretStack
  <2>5. CASE Wmain
    BY <1>1, <2>5, SecretsBegin DEF SecretInv
  <2> QED
    BY <1>3, <2>2, <2>3, <2>4, <2>5, Steps
<1>4. ASSUME AllNext, NEW x, NEW Q, NEW R, SecretWork(x, Q), Free(R, Encrypting),
             calls["tool"] = <<x>> \o (Q \o R)
      PROVE  SecretInv'
  BY <1>1, <1>4, WorkGoesOn DEF SecretInv
<1> QED
  BY <1>1, <1>2, <1>3, <1>4 DEF SecretStack

LEMMA SecretInvInit ==
  ASSUME AllInit
  PROVE  SecretInv
<1>1. /\ seen = [p \in Processes |-> NothingSeen] /\ files = [f \in ToolFiles |-> None]
      /\ payload = [half \in 1 .. 2 |-> None]
  BY DEF AllInit, ToolInit, IdentityInit
<1>2. "tool" \in Processes
  BY IdentityParametersOK
<1>3. SecretFields
  BY <1>1, <1>2 DEF SecretFields, NothingSeen, SeenFields
<1> QED
  BY <1>3, StacksInit DEF SecretInv, SecretStack

\* Half of the payload changes only when it is encrypted or decrypted.
LEMMA PayloadSteps ==
  ASSUME SecretInv, [AllNext]_allVars, payload' # payload
  PROVE  EncryptHalf \/ DecryptHalf
<1>1. CASE UNCHANGED allVars \/ (Next /\ UNCHANGED toolVars) \/ Wmain
           \/ (IdentityCall("tool") /\ UNCHANGED <<driver, files, payload, pendingClear>>)
  BY <1>1 DEF Wmain, allVars, toolVars
<1>2. CASE ToolStep
  BY <1>2 DEF ToolStep, ReadFile, ReadPayloadKey, ReadPublicKey, EmptyFile, FillFile, IfRequested,
     AddPlainCertificate, HandHostageOver, GotSecret, LimpetForceClearTpm, Reboot, Cleared, Destroyed,
     Output, ToolEnds, Forgets, FileCallFails, unlessFiles, toolVars
<1> QED
  BY <1>1, <1>2, Steps

LEMMA EncryptsSaved ==
  ASSUME SecretInv, [AllNext]_allVars, NEW half \in 1 .. 2,
         payload'[half] # payload[half], payload'[half] \in 1 .. MaxSecrets
  PROVE  \/ payload'[half] = files["secret"]
         \/ files["activation"] # None /\ payload'[half] = files["activation"].secret
<1>1. SecretFields /\ SecretStack /\ StackInv
  BY DEF SecretInv
<1>2. EncryptHalf \/ DecryptHalf
  BY PayloadSteps
<1>3. None \notin 1 .. MaxSecrets /\ OwnKey \notin 1 .. MaxSecrets /\ Garbled \notin 1 .. MaxSecrets
  BY ToolParametersOK DEF OwnKey, Garbled
<1>4. CASE DecryptHalf
  <2>1. PICK h : payload' = [payload EXCEPT ![h] = IF payload[h] = Mine.secret THEN None ELSE Garbled]
    BY <1>4 DEF DecryptHalf, Mine
  <2>2. payload'[half] \in {None, Garbled}
    BY <1>1, <2>1 DEF SecretFields
  <2> QED
    BY <1>3, <2>2
<1>5. CASE EncryptHalf
  <2>1. PICK h : payload' = [payload EXCEPT ![h] = IF payload[h] = None THEN Mine.secret ELSE Garbled]
    BY <1>5 DEF EncryptHalf, Mine
  <2>2. payload'[half] \in {Mine.secret, Garbled}
    BY <1>1, <2>1 DEF SecretFields
  <2>3. payload'[half] = Mine.secret
    BY <1>3, <2>2
  <2>4. calls["tool"] # << >> /\ Top("tool").op = "encrypt"
    BY <1>5 DEF EncryptHalf, At, Top
  <2>5. ~ Free(calls["tool"], Encrypting)
    <3>1. \A op \in KeyFunctions : op # "encrypt"
      BY DEF KeyFunctions
    <3>2. \A y \in KeyFunctionCalls : y.op # "encrypt"
      BY <3>1, Ops DEF KeyFunctionCalls
    <3>3. ~ Allowed(Top("tool"), Encrypting)
      BY <2>4, <3>2 DEF Allowed, Encrypting
    <3> QED
      BY <2>4, <3>3, FreeTail DEF Top
  <2>6. PICK x, Q, R : /\ SecretWork(x, Q) /\ Free(R, Encrypting)
                       /\ calls["tool"] = <<x>> \o (Q \o R)
    BY <1>1, <2>5 DEF SecretStack
  <2>7. Quiet(Q)
    BY <2>6, WorkIsQuiet, NoCall DEF SecretWork
  <2>8. Top("tool") = x
    BY <1>1, <2>6, <2>7, CallReturns
  <2>9. x.op = "encrypt"
    BY <2>4, <2>8
  <2>10. Saved
    BY <2>6, <2>9 DEF SecretWork
  <2> QED
    BY <1>3, <2>3, <2>10 DEF Saved
<1> QED
  BY <1>2, <1>4, <1>5

\* No half of the payload is ever encrypted under a secret that is neither in
\* the challenge nor in the key file by then, for any commands, failures and
\* crashes.  (The order of the challenge command's steps, wmain.)
THEOREM NothingEncryptedForNobody ==
  ASSUME NoneIsNoChallenge
  PROVE  AllSpec => EncryptsUnderSavedSecret
<1>1. AllInit => SecretInv /\ scenario \in Scenarios
  BY SecretInvInit, StacksInit
<1>2. SecretInv /\ scenario \in Scenarios /\ [AllNext]_allVars
        => (SecretInv /\ scenario \in Scenarios)'
  BY SecretInvStep, StacksKept DEF SecretInv
<1>3. SecretInv /\ [AllNext]_allVars =>
        [\A half \in 1 .. 2 :
           payload'[half] # payload[half] /\ payload'[half] \in 1 .. MaxSecrets =>
             \/ payload'[half] = files["secret"]
             \/ files["activation"] # None /\ payload'[half] = files["activation"].secret]_allVars
  BY EncryptsSaved
<1> QED
  BY <1>1, <1>2, <1>3, PTL DEF AllSpec, EncryptsUnderSavedSecret

-----------------------------------------------------------------------------
(* A failing call *)

\* An exception goes as far as the first place that sees it.
LEMMA Thrown ==
  ASSUME NEW q, Quiet(q), NEW y, y.op \in Handlers, NEW r, IsStack(r)
  PROVE  Unwound(q \o (<<y>> \o r)) = <<y>> \o r
<1>a. PICK places : places = Handlers
  OBVIOUS
<1>b. IsStack(q) /\ (\A i \in 1 .. Len(q) : q[i].op \notin places) /\ y.op \in places
  BY <1>a DEF Quiet
<1>0. PICK z : z = <<y>> \o r
  OBVIOUS
<1> DEFINE t == q \o z
<1>1. IsStack(z) /\ Len(z) = 1 + Len(r) /\ Len(r) \in Nat /\ z[1] = y
  <2>1. IsStack(<<y>>) /\ Len(<<y>>) = 1 /\ <<y>>[1] = y
    BY OneCall
  <2>2. LET w == <<y>>
        IN  /\ IsStack(w \o r) /\ Len(w) \in Nat /\ Len(r) \in Nat
            /\ Len(w \o r) = Len(w) + Len(r)
            /\ \A i \in 1 .. Len(w) : (w \o r)[i] = w[i]
    BY ONLY <2>1, IsStack(r), PushedOnStack
  <2> QED
    BY <1>0, <2>1, <2>2
<1>2. /\ IsStack(t) /\ Len(q) \in Nat /\ Len(t) = Len(q) + Len(z)
      /\ \A i \in 1 .. Len(q) : t[i] = q[i]
      /\ \A i \in 1 .. Len(z) : t[Len(q) + i] = z[i]
  <2>1. IsStack(q) /\ IsStack(z)
    BY <1>b, <1>1
  <2>2. /\ IsStack(q \o z) /\ Len(q) \in Nat /\ Len(q \o z) = Len(q) + Len(z)
        /\ \A i \in 1 .. Len(q) : (q \o z)[i] = q[i]
        /\ \A i \in 1 .. Len(z) : (q \o z)[Len(q) + i] = z[i]
    BY ONLY <2>1, PushedOnStack
  <2> QED
    BY <2>2
<1> HIDE DEF t
<1> DEFINE n == Len(q) + 1
<1>3. n \in 1 .. Len(t) /\ t[n].op \in places
  <2>1. 1 \in 1 .. Len(z) /\ n \in 1 .. Len(t)
    BY <1>1, <1>2
  <2> QED
    BY <1>b, <1>1, <1>2, <2>1
<1>4. PICK i \in 1 .. Len(t) : /\ From(t, places) = SubSeq(t, i, Len(t)) /\ t[i].op \in places
                               /\ \A k \in 1 .. i - 1 : t[k].op \notin places
  BY <1>2, <1>3, FromPlace
<1>5. i = n
  <2>1. i >= n
    BY <1>b, <1>2, <1>4
  <2>2. ~(n < i)
    BY <1>2, <1>3, <1>4
  <2> QED
    BY <1>2, <2>1, <2>2
<1> DEFINE u == SubSeq(t, n, Len(t))
<1>6. /\ IsStack(u) /\ Len(u) = Len(t) - n + 1
      /\ \A k \in 1 .. Len(u) : u[k] = t[n + k - 1]
  BY <1>2, <1>3, RestOfStack
<1> HIDE DEF u
<1>7. Len(u) = Len(z)
  BY <1>1, <1>2, <1>6
<1>8. \A k \in 1 .. Len(u) : u[k] = z[k]
  <2> SUFFICES ASSUME NEW k \in 1 .. Len(u)
               PROVE  u[k] = z[k]
    OBVIOUS
  <2>1. n + k - 1 = Len(q) + k
    BY <1>1, <1>2, <1>7
  <2> QED
    BY <1>2, <1>6, <1>7, <2>1
<1>9. u = z
  <2>1. PICK A, B : u \in Seq(A) /\ z \in Seq(B)
    BY <1>1, <1>6 DEF IsStack
  <2>2. u \in Seq(A \cup B) /\ z \in Seq(A \cup B)
    BY <2>1
  <2> QED
    BY <1>7, <1>8, <2>2, SeqEqual
<1> QED
  BY <1>a, <1>0, <1>4, <1>5, <1>9 DEF t, u, Unwound

-----------------------------------------------------------------------------
(* The other processes while the tool runs *)

\* What an application may have still to call once credentials are in the TPM.
Reads == {"LimpetGenerateSASToken", "ignore", "ImportHostageBlobIfPresent", "LimpetReadURI",
          "LimpetSignWithIdentityHmacKeyEx", "token", "read nv", "read certificate", "sign"}
Writing == LibraryOps \ Reads

OthersQuiet ==
    /\ toImport = {} /\ calls["agent"] = << >> /\ calls["provisioner"] = << >>
    /\ useRegistry = "unset" => calls["app"] = << >>
    /\ Free(calls["app"], {"latch"})
    /\ useRegistry = "no" => Free(calls["app"], Writing)

\* The calls of one process change.
LEMMA OneChanges ==
  ASSUME StackInv, NEW p \in Processes, NEW q, calls' = [calls EXCEPT ![p] = q]
  PROVE  calls'[p] = q /\ \A x \in Processes : x # p => calls'[x] = calls[x]
BY DEF StackInv

LEMMA AppReturns ==
  ASSUME StackInv, NEW ops, Free(calls["app"], ops), calls["app"] # << >>, NEW ok,
         Returned("app", ok)
  PROVE  Free(calls'["app"], ops)
<1> DEFINE q == IF ok THEN Tail(calls["app"]) ELSE Unwound(Tail(calls["app"]))
<1>1. Free(q, ops)
  <2>1. Free(Tail(calls["app"]), ops)
    BY FreeTail
  <2> QED
    BY <2>1, FreeFrom DEF Unwound
<1>2. calls' = [calls EXCEPT !["app"] = q]
  BY DEF Returned
<1> HIDE DEF q
<1> QED
  BY <1>1, <1>2, OneChanges, IdentityParametersOK

LEMMA AppCalls ==
  ASSUME StackInv, NEW ops, Free(calls["app"], ops), calls["app"] # << >>, NEW r, Free(r, ops),
         calls' = [calls EXCEPT !["app"] = r \o Tail(@)]
  PROVE  Free(calls'["app"], ops)
<1> DEFINE q == r \o Tail(calls["app"])
<1>1. Free(q, ops)
  BY FreeTail, FreePushed
<1>2. calls' = [calls EXCEPT !["app"] = q]
  OBVIOUS
<1> HIDE DEF q
<1>3. "app" \in Processes
  BY IdentityParametersOK
<1>4. calls'["app"] = q
  BY ONLY <1>2, <1>3, StackInv, OneChanges
<1> QED
  BY ONLY <1>1, <1>4

\* The functions an application calls only read the TPM.
LEMMA ReadingBodies ==
  ASSUME useRegistry = "no", NEW c, c.op \in Functions \cap Reads
  PROVE  Free(Body(c), Writing)
<1>1. /\ {"read nv", "sign", "ImportHostageBlobIfPresent", "LimpetReadURI",
          "LimpetSignWithIdentityHmacKeyEx", "token"} \cap Writing = {}
  BY DEF Writing, Reads
<1> DEFINE s == c.slot
<1>2. \A op : Do(op, s).op = op
  BY Ops
<1> HIDE DEF s
<1>3. ~InRegistry /\ ~WaitingBlob(s)
  BY DEF InRegistry, WaitingBlob
<1>4. CASE c.op = "LimpetGenerateSASToken"
  <2>1. Free(<<Do("ImportHostageBlobIfPresent", s), Do("LimpetReadURI", s),
               Do("LimpetSignWithIdentityHmacKeyEx", s), Do("token", s)>>, Writing)
    BY <1>1, <1>2, FreeFour
  <2> QED
    BY <1>4, <2>1 DEF Body, LimpetGenerateSASToken, s
<1>5. CASE c.op = "ImportHostageBlobIfPresent"
  BY <1>3, <1>5, FreeEmpty DEF Body, ImportHostageBlobIfPresent, s
<1>6. CASE c.op = "LimpetReadURI"
  <2>1. Free(<<Do("read nv", s)>>, Writing)
    BY <1>1, <1>2, FreeOne
  <2> QED
    BY <1>3, <1>6, <2>1 DEF Body, LimpetReadURI, s
<1>7. CASE c.op = "LimpetSignWithIdentityHmacKeyEx"
  <2>1. Free(<<Do("sign", s)>>, Writing)
    BY <1>1, <1>2, FreeOne
  <2> QED
    BY <1>3, <1>7, <2>1 DEF Body, LimpetSignWithIdentityHmacKeyEx, s
<1>8. c.op \in {"LimpetGenerateSASToken", "ImportHostageBlobIfPresent", "LimpetReadURI",
                "LimpetSignWithIdentityHmacKeyEx"}
  BY DEF Functions, Reads
<1> QED
  BY <1>4, <1>5, <1>6, <1>7, <1>8

\* An application's step neither makes the trial nor, in the TPM, writes.
LEMMA AppStep ==
  ASSUME StackInv, OthersQuiet, store = [s \in Slots |-> store[s]], Shared("app")
  PROVE  /\ OthersQuiet' /\ calls'["tool"] = calls["tool"] /\ useRegistry' = useRegistry
         /\ useRegistry = "no" => store' = store
<1> DEFINE op == Top("app").op
<1>1. calls["app"] # << >> /\ op \in LibraryOps
  <2>1. {"token", "ignore", "EmptyTpmSlot", "latch", "load", "finally delete blob", "rethrow"}
           \subseteq LibraryOps
    BY DEF LibraryOps, Handlers, LibraryHandlers, SingleCalls
  <2> QED
    BY <2>1 DEF Shared, InLibrary, Library, Token, Ignore, EmptyTpmSlot, Expand, UseRegistry, Latch,
       LatchFails, Enter, Single, LoadFails, LooksFurther, SingleFails, FinallyDeleteBlob, Rethrow, At, Top, LibraryOps
<1>2. KeyFunctions \cap LibraryOps = {} /\ \A y \in KeyFunctionCalls : y.op \in KeyFunctions
  BY ClosedInner, Ops DEF KeyFunctionCalls
<1>3. op # "latch" /\ (useRegistry = "no" => op \in Reads)
  <2>1. Allowed(Top("app"), {"latch"}) /\ (useRegistry = "no" => Allowed(Top("app"), Writing))
    BY <1>1, FreeTail DEF OthersQuiet, Top
  <2> QED
    BY <1>1, <1>2, <2>1 DEF Allowed, Writing
<1>4. /\ "app" \in Processes /\ "tool" \in Processes /\ "agent" \in Processes
      /\ "provisioner" \in Processes
  BY IdentityParametersOK
<1>5. ASSUME NEW q, calls' = [calls EXCEPT !["app"] = q], toImport' = toImport,
             useRegistry' = useRegistry, Free(calls'["app"], {"latch"}),
             useRegistry = "no" => Free(calls'["app"], Writing)
      PROVE  OthersQuiet' /\ calls'["tool"] = calls["tool"]
  BY <1>1, <1>4, <1>5, OneChanges DEF OthersQuiet
<1>6. ASSUME NEW ok, Returned("app", ok), toImport' = toImport, useRegistry' = useRegistry
      PROVE  OthersQuiet' /\ calls'["tool"] = calls["tool"]
  <2>1. /\ Free(calls'["app"], {"latch"}) /\ (useRegistry = "no" => Free(calls'["app"], Writing))
    BY <1>1, <1>6, AppReturns DEF OthersQuiet
  <2>2. \E q : calls' = [calls EXCEPT !["app"] = q]
    BY <1>6 DEF Returned
  <2> QED
    BY <1>5, <1>6, <2>1, <2>2
<1>7. ASSUME NEW r, calls' = [calls EXCEPT !["app"] = r \o Tail(@)], toImport' = toImport,
             useRegistry' = useRegistry, Free(r, {"latch"}), useRegistry = "no" => Free(r, Writing)
      PROVE  OthersQuiet' /\ calls'["tool"] = calls["tool"]
  <2>1. /\ Free(calls'["app"], {"latch"}) /\ (useRegistry = "no" => Free(calls'["app"], Writing))
    BY <1>1, <1>7, AppCalls DEF OthersQuiet
  <2> QED
    BY <1>5, <1>7, <2>1
<1>8. useRegistry # "unset"
  BY <1>1 DEF OthersQuiet
<1>9. CASE UseRegistry("app") \/ Latch("app") \/ LatchFails("app")
  BY <1>3, <1>8, <1>9 DEF UseRegistry, Latch, LatchFails, At, Top
<1>10. CASE Enter("app") /\ UNCHANGED driver
  <2>1. /\ Top("app").op \in Functions /\ calls' = [calls EXCEPT !["app"] = Body(Top("app")) \o Tail(@)]
        /\ useRegistry' = useRegistry /\ store' = store /\ toImport' = toImport
    BY <1>10 DEF Enter, driver
  <2>2. Free(Body(Top("app")), {"latch"})
    <3>1. {"latch"} \cap BodyOps = {}
      BY DEF BodyOps, SingleCalls, Functions
    <3> QED
      BY <2>1, <3>1, LibraryBodies
  <2>3. useRegistry = "no" => Free(Body(Top("app")), Writing)
    BY <1>3, <2>1, ReadingBodies
  <2> QED
    BY <1>7, <2>1, <2>2, <2>3
<1>11. CASE Single("app") /\ UNCHANGED driver
  <2> DEFINE c == Top("app")
  <2>1. /\ c.op \in SingleCalls /\ store' = [store EXCEPT ![c.slot] = After(c, @)]
        /\ Returned("app", TRUE) /\ useRegistry' = useRegistry /\ toImport' = toImport
    BY <1>11 DEF Single, driver
  <2>2. ASSUME useRegistry = "no"
        PROVE  store' = store
    <3>1. c.op \in {"read nv", "read certificate", "sign"}
      BY <1>3, <2>1, <2>2 DEF Reads, SingleCalls
    <3>2. \A x : After(c, x) = x
      BY <3>1 DEF After
    <3> HIDE DEF c
    <3> QED
      BY <2>1, <3>2
  <2> QED
    BY <1>6, <2>1, <2>2
<1>12. CASE LoadFails("app") /\ UNCHANGED driver
  <2> DEFINE s == Top("app").slot
             r == <<Do("LimpetEvictHmacKey", s), Do("rethrow", s)>>
  <2>1. /\ op = "load" /\ calls' = [calls EXCEPT !["app"] = r \o Tail(@)]
        /\ useRegistry' = useRegistry /\ store' = store /\ toImport' = toImport
    BY <1>12 DEF LoadFails, driver, At, Top
  <2>2. useRegistry # "no"
    BY <1>3, <2>1 DEF Reads
  <2>3. Free(r, {"latch"})
    <3>1. Do("LimpetEvictHmacKey", s).op = "LimpetEvictHmacKey" /\ Do("rethrow", s).op = "rethrow"
      BY Ops
    <3> HIDE DEF s
    <3> QED
      BY <3>1, FreeTwo
  <2> HIDE DEF r
  <2> QED
    BY <1>7, <2>1, <2>2, <2>3
<1>13. CASE (SingleFails("app") \/ Rethrow("app")) /\ UNCHANGED driver
  <2>1. /\ store' = store /\ useRegistry' = useRegistry /\ toImport' = toImport
        /\ \E ok : Returned("app", ok)
    BY <1>13 DEF SingleFails, Rethrow, driver
  <2> QED
    BY <1>6, <2>1
<1>14. CASE FinallyDeleteBlob("app") /\ UNCHANGED driver
  <2>1. /\ useRegistry' = useRegistry /\ toImport' = toImport /\ op = "finally delete blob"
        /\ \E ok : Returned("app", ok)
    BY <1>14 DEF FinallyDeleteBlob, driver, At, Top
  <2>2. useRegistry # "no"
    BY <1>3, <2>1 DEF Reads
  <2> QED
    BY <1>6, <2>1, <2>2
<1>15. CASE Token("app") \/ Ignore("app")
  <2>1. /\ store' = store /\ useRegistry' = useRegistry /\ toImport' = toImport
        /\ Returned("app", TRUE)
    BY <1>15 DEF Token, Ignore, driver
  <2> QED
    BY <1>6, <2>1
<1>16. CASE EmptyTpmSlot("app")
  <2> DEFINE s == Top("app").slot
             r == <<Do("LimpetDestroyURI", s), Do("ignore", s),
                    Do("LimpetEvictHmacKey", s), Do("ignore", s)>>
  <2>1. /\ op = "EmptyTpmSlot" /\ calls' = [calls EXCEPT !["app"] = r \o Tail(@)]
        /\ useRegistry' = useRegistry /\ store' = store /\ toImport' = toImport
    BY <1>16 DEF EmptyTpmSlot, Expand, driver, At, Top
  <2>2. useRegistry # "no"
    BY <1>3, <2>1 DEF Reads
  <2>3. Free(r, {"latch"})
    <3>1. /\ Do("LimpetEvictHmacKey", s).op = "LimpetEvictHmacKey" /\ Do("ignore", s).op = "ignore"
          /\ Do("LimpetDestroyURI", s).op = "LimpetDestroyURI"
      BY Ops
    <3> HIDE DEF s
    <3> QED
      BY <3>1, FreeFour
  <2> HIDE DEF r
  <2> QED
    BY <1>7, <2>1, <2>2, <2>3
<1>17. CASE LooksFurther("app") /\ UNCHANGED driver
  <2> DEFINE d == Call("read certificate", Top("app").slot, NextPlace(Top("app")))
  <2>1. /\ calls' = [calls EXCEPT !["app"] = <<d>> \o Tail(@)]
        /\ useRegistry' = useRegistry /\ store' = store /\ toImport' = toImport
    BY <1>17 DEF LooksFurther, driver
  <2>2. d.op = "read certificate"
    BY DEF Call
  <2> HIDE DEF d
  <2>3. Free(<<d>>, {"latch"}) /\ Free(<<d>>, Writing)
    <3>1. {d.op} \cap {"latch"} = {} /\ {d.op} \cap Writing = {}
      BY <2>2 DEF Writing, Reads
    <3> QED
      BY <3>1, FreeOne
  <2> QED
    BY <1>7, <2>1, <2>3
<1> QED
  BY <1>9, <1>10, <1>11, <1>12, <1>13, <1>14, <1>15, <1>16, <1>17 DEF Shared, InLibrary, Library

LEMMA OthersStep ==
  ASSUME StackInv, OthersQuiet, store = [s \in Slots |-> store[s]], scenario.commands # {}, Next
  PROVE  \/ Shared("tool")
         \/ /\ OthersQuiet' /\ calls'["tool"] = calls["tool"] /\ useRegistry' = useRegistry
            /\ useRegistry = "no" => store' = store
<1>1. Processes = {"agent", "app", "provisioner", "tool"}
  BY IdentityParametersOK
<1>2. /\ \A op : ~At("agent", op) /\ ~At("provisioner", op)
      /\ toImport = {}
  BY DEF OthersQuiet, At
<1>3. ~Agent /\ ~Imported /\ ~Provision /\ ~Restart
  <2>1. ~Agent
    BY <1>2 DEF Agent, GetConnectionString, GotConnectionString, NoConnectionString, GivesUp,
       Registered, DpsRegisterDevice, CheckedDevice, ProvDeviceLLRegisterDevice, RegistrationFails,
       CreateModules, CreateEachModule, CreateModule, CheckedModule, GetModule, Expand
  <2>2. ~Imported /\ ~Provision /\ ~Restart
    BY <1>2 DEF Imported, Provision, Restart
  <2> QED
    BY <2>1, <2>2
<1>4. CASE RenewSASToken
  BY <1>4 DEF RenewSASToken, library, OthersQuiet
<1>5. CASE AppGetConnectionString
  <2> DEFINE q == <<Do("LimpetGenerateSASToken", DeviceSlot), Do("ignore", DeviceSlot)>>
  <2>1. /\ calls' = [calls EXCEPT !["app"] = q] /\ useRegistry # "unset" /\ useRegistry' = useRegistry
        /\ store' = store /\ toImport' = toImport
    BY <1>5 DEF AppGetConnectionString, driver
  <2>2. Free(q, {"latch"}) /\ Free(q, Writing)
    <3>1. /\ Do("LimpetGenerateSASToken", DeviceSlot).op = "LimpetGenerateSASToken"
          /\ Do("ignore", DeviceSlot).op = "ignore"
      BY Ops
    <3>2. {"LimpetGenerateSASToken", "ignore"} \cap Writing = {}
      BY DEF Writing, Reads
    <3> QED
      BY <3>1, <3>2, FreeTwo
  <2> HIDE DEF q
  <2> QED
    BY <1>1, <2>1, <2>2, OneChanges DEF OthersQuiet
<1>6. ASSUME NEW p \in Processes, Shared(p), p # "tool"
      PROVE  p = "app"
  <2>1. calls[p] # << >>
    BY <1>6 DEF Shared, InLibrary, Library, Token, Ignore, EmptyTpmSlot, Expand, UseRegistry, Latch,
       LatchFails, Enter, Single, LoadFails, LooksFurther, SingleFails, FinallyDeleteBlob, Rethrow, At
  <2> QED
    BY <1>1, <1>6, <2>1 DEF OthersQuiet
<1> QED
  BY <1>3, <1>4, <1>5, <1>6, AppStep DEF Next

-----------------------------------------------------------------------------
(* The trial on the tool's stack *)

TrialOps == {"clear nv", "define nv", "write nv", "verify nv", "undefine nv",
             "read certificate"}
InTrial(T) == IsStack(T) /\ \A i \in 1 .. Len(T) : T[i].op \in TrialOps

\* There is one trial at a time, and only while the choice is not made.
OneTrial ==
    \/ Free(calls["tool"], {"latch"})
    \/ /\ useRegistry = "unset"
       /\ \E T, y, R : /\ InTrial(T) /\ y.op = "latch" /\ Free(R, {"latch"})
                       /\ calls["tool"] = T \o (<<y>> \o R)

\* What is called while a logical device is destroyed.
Watched == TrialOps \cup {"latch", "LimpetDestroyURI", "LimpetEvictHmacKey",
                          "LimpetDestroyIdentityCert", "ignore", "destroyed", "evict",
                          "get property", "delete certificates", "delete key"}

\* Other places are looked into where a URI is read, and nowhere else.
LEMMA LookingPlaces ==
  ASSUME NEW p, LooksFurther(p)
  PROVE  Top(p).op \in {"read nv", "verify nv", "read certificate"}
BY DEF LooksFurther, NextPlace

LEMMA WatchedMoves ==
  ASSUME StackInv, OthersQuiet, store = [s \in Slots |-> store[s]], scenario.commands # {}, AllNext,
         calls["tool"] # << >>, Top("tool").op \in Watched
  PROVE  \/ /\ OthersQuiet' /\ calls'["tool"] = calls["tool"] /\ useRegistry' = useRegistry
            /\ useRegistry = "no" => store' = store
            /\ UNCHANGED toolVars
         \/ calls'["tool"] = << >> /\ useRegistry' = useRegistry
         \/ /\ UNCHANGED toolVars
            /\ \/ UseRegistry("tool") \/ Latch("tool") \/ LatchFails("tool") \/ Enter("tool")
               \/ Single("tool") \/ LooksFurther("tool") \/ SingleFails("tool") \/ Ignore("tool")
         \/ /\ UNCHANGED <<store, useRegistry>>
            /\ \/ EnterIdentity("tool") \/ GetCertificateProperty("tool")
               \/ DeleteCertificates("tool") \/ DeleteKey("tool") \/ KeyCallFails("tool")
               \/ Destroyed
<1> DEFINE op == Top("tool").op
<1>1. /\ op \notin FileOps /\ op \notin AuthorityOps
      /\ op \notin {"token", "EmptyTpmSlot", "load", "finally delete blob", "rethrow", "encrypt",
                    "encrypt if requested", "output", "open key", "create key", "add certificate",
                    "set property", "find by key", "find by hash", "acquire key"}
  BY DEF Watched, TrialOps, FileOps, AuthorityOps
<1>2. CASE Next /\ UNCHANGED toolVars
  <2>1. CASE Shared("tool")
    <3>1. /\ ~Token("tool") /\ ~EmptyTpmSlot("tool") /\ ~LoadFails("tool")
          /\ ~FinallyDeleteBlob("tool") /\ ~Rethrow("tool")
      BY <1>1 DEF Token, EmptyTpmSlot, Expand, LoadFails, FinallyDeleteBlob, Rethrow, At, Top
    <3> QED
      BY <1>2, <2>1, <3>1 DEF Shared, InLibrary, Library
  <2> QED
    BY <1>2, <2>1, OthersStep
<1>3. CASE Wmain
  BY <1>3 DEF Wmain
<1>4. CASE IdentityCall("tool") /\ UNCHANGED <<driver, files, payload, pendingClear>>
  <2>1. /\ ~OpenKey("tool") /\ ~CreateKey("tool") /\ ~AddCertificate("tool")
        /\ ~SetCertificateProperty("tool") /\ ~FindCertificate("tool") /\ ~AcquireKey("tool")
    BY <1>1 DEF OpenKey, CreateKey, AddCertificate, SetCertificateProperty, FindCertificate,
       AcquireKey, At, Top
  <2>2. /\ ~LimpetIssueCertificate("tool") /\ ~LimpetGetTpmKey2BPubFromCert("tool")
        /\ ~LimpetChallengeIdentityCert("tool") /\ ~LimpetActivateIdentityCert("tool")
        /\ ~LimpetCreateHostageKeyEx("tool")
    BY <1>1 DEF LimpetIssueCertificate, LimpetGetTpmKey2BPubFromCert, LimpetChallengeIdentityCert,
       LimpetActivateIdentityCert, LimpetCreateHostageKeyEx, At, Top, AuthorityOps
  <2>3. /\ EnterIdentity("tool") \/ GetCertificateProperty("tool") \/ DeleteCertificates("tool")
           \/ DeleteKey("tool") \/ KeyCallFails("tool")
    BY <1>4, <2>1, <2>2 DEF IdentityCall
  <2>4. UNCHANGED <<store, useRegistry>>
    BY <2>3 DEF EnterIdentity, GetCertificateProperty, DeleteCertificates, DeleteKey, KeyCallFails
  <2> QED
    BY <2>3, <2>4
<1>5. CASE ToolStep
  <2>1. CASE ToolEnds
    <3>1. "tool" \in Processes
      BY IdentityParametersOK
    <3> QED
      BY <2>1, <3>1 DEF ToolEnds, Forgets, StackInv
  <2>2. CASE Destroyed
    BY <2>2 DEF Destroyed, unlessFiles
  <2>3. CASE Reboot
    BY <2>3 DEF Reboot
  <2>4. CASE FileCallFails
    <3>1. op \in FileCalls
      BY <2>4 DEF FileCallFails
    <3> QED
      BY <1>1, <3>1 DEF FileCalls, FileOps
  <2>5. CASE ReadFile \/ ReadPayloadKey \/ ReadPublicKey \/ EmptyFile \/ FillFile \/ EncryptHalf
             \/ DecryptHalf
    BY <1>1, <2>5 DEF ReadFile, ReadPayloadKey, ReadPublicKey, EmptyFile, FillFile, EncryptHalf,
       DecryptHalf, At, Top, FileOps
  <2>6. CASE AddPlainCertificate \/ HandHostageOver \/ GotSecret \/ LimpetForceClearTpm \/ Output
    BY <1>1, <2>6 DEF AddPlainCertificate, HandHostageOver, GotSecret, LimpetForceClearTpm, Output,
       At, Top, FileOps
  <2>7. CASE IfRequested
    <3>1. op \in {"write if requested", "encrypt if requested", "decrypt if requested"}
      BY <2>7 DEF IfRequested, At, Top
    <3> QED
      BY <1>1, <3>1 DEF FileOps
  <2> QED
    BY <1>5, <2>1, <2>2, <2>3, <2>4, <2>5, <2>6, <2>7 DEF ToolStep
<1> QED
  BY <1>2, <1>3, <1>4, <1>5, Steps

\* The tool changes its own stack only, and the choice only where it is made.
LEMMA ToolAlone ==
  ASSUME StackInv, OthersQuiet,
         \/ Shared("tool") \/ Wmain \/ ToolStep
         \/ IdentityCall("tool") /\ UNCHANGED <<driver, files, payload, pendingClear>>
  PROVE  /\ useRegistry' = useRegistry => OthersQuiet'
         /\ useRegistry = "unset" => OthersQuiet'
         /\ Latch("tool") \/ useRegistry' = useRegistry
<1>1. /\ "app" \in Processes /\ "tool" \in Processes /\ "agent" \in Processes
      /\ "provisioner" \in Processes
  BY IdentityParametersOK
<1>2. /\ \A ok : Returned("tool", ok) => \E q : calls' = [calls EXCEPT !["tool"] = q]
      /\ UNCHANGED calls => \E q : calls' = [calls EXCEPT !["tool"] = q]
  <2>1. calls = [calls EXCEPT !["tool"] = calls["tool"]]
    BY <1>1 DEF StackInv
  <2> QED
    BY <2>1 DEF Returned
<1>3. /\ \E q : calls' = [calls EXCEPT !["tool"] = q]
      /\ toImport' = toImport
      /\ Latch("tool") \/ useRegistry' = useRegistry
  <2>1. CASE Shared("tool")
    <3>1. CASE UseRegistry("tool") /\ UNCHANGED driver
      BY <3>1 DEF UseRegistry, driver
    <3>2. CASE (Latch("tool") \/ Single("tool") \/ SingleFails("tool") \/ FinallyDeleteBlob("tool")
                \/ Rethrow("tool")) /\ UNCHANGED driver
      BY <1>2, <3>2 DEF Latch, Single, SingleFails, FinallyDeleteBlob, Rethrow, driver
    <3>3. CASE /\ LatchFails("tool") \/ Enter("tool") \/ LoadFails("tool") \/ LooksFurther("tool")
               /\ UNCHANGED driver
      BY <3>3 DEF LatchFails, Enter, LoadFails, LooksFurther, driver
    <3>4. CASE Token("tool") \/ Ignore("tool")
      BY <1>2, <3>4 DEF Token, Ignore, driver
    <3>5. CASE EmptyTpmSlot("tool")
      BY <3>5 DEF EmptyTpmSlot, Expand, driver
    <3> QED
      BY <2>1, <3>1, <3>2, <3>3, <3>4, <3>5 DEF Shared, InLibrary, Library
  <2>2. CASE Wmain
    BY <2>2 DEF Wmain, driver
  <2>3. CASE ReadFile \/ ReadPayloadKey \/ ReadPublicKey \/ EmptyFile \/ FillFile
    BY <1>2, <2>3 DEF ReadFile, ReadPayloadKey, ReadPublicKey, EmptyFile, FillFile, unlessFiles, driver
  <2>4. CASE EncryptHalf \/ DecryptHalf \/ GotSecret \/ Destroyed \/ AddPlainCertificate
    BY <1>2, <2>4 DEF EncryptHalf, DecryptHalf, GotSecret, Destroyed, AddPlainCertificate,
       unlessFiles, driver
  <2>5. CASE LimpetForceClearTpm \/ Output \/ FileCallFails \/ Reboot
    BY <1>2, <2>5 DEF LimpetForceClearTpm, Cleared, Output, Forgets, FileCallFails, Reboot, driver
  <2>6. CASE IfRequested \/ HandHostageOver \/ ToolEnds
    BY <2>6 DEF IfRequested, HandHostageOver, ToolEnds, Forgets, unlessFiles, driver
  <2>7. CASE IdentityCall("tool") /\ UNCHANGED driver
    <3>1. CASE EnterIdentity("tool")
      BY <2>7, <3>1 DEF EnterIdentity, driver
    <3>2. CASE OpenKey("tool")
      BY <1>2, <2>7, <3>2 DEF OpenKey, driver
    <3>3. CASE DeleteCertificates("tool")
      BY <1>2, <2>7, <3>3 DEF DeleteCertificates, driver
    <3>4. CASE CreateKey("tool") \/ AddCertificate("tool") \/ SetCertificateProperty("tool")
               \/ GetCertificateProperty("tool") \/ DeleteKey("tool") \/ FindCertificate("tool")
               \/ AcquireKey("tool") \/ KeyCallFails("tool")
      BY <1>2, <2>7, <3>4 DEF CreateKey, AddCertificate, SetCertificateProperty,
         GetCertificateProperty, DeleteKey, FindCertificate, AcquireKey, KeyCallFails, driver
    <3>5. CASE LimpetIssueCertificate("tool") \/ LimpetGetTpmKey2BPubFromCert("tool")
               \/ LimpetChallengeIdentityCert("tool") \/ LimpetActivateIdentityCert("tool")
               \/ LimpetCreateHostageKeyEx("tool")
      BY <1>2, <2>7, <3>5 DEF LimpetIssueCertificate, LimpetGetTpmKey2BPubFromCert,
         LimpetChallengeIdentityCert, LimpetActivateIdentityCert, LimpetCreateHostageKeyEx, driver
    <3> QED
      BY <2>7, <3>1, <3>2, <3>3, <3>4, <3>5 DEF IdentityCall
  <2> QED
    BY <2>1, <2>2, <2>3, <2>4, <2>5, <2>6, <2>7 DEF ToolStep
<1>4. /\ calls'["agent"] = calls["agent"] /\ calls'["provisioner"] = calls["provisioner"]
      /\ calls'["app"] = calls["app"]
  BY <1>1, <1>3, OneChanges
<1> QED
  BY <1>3, <1>4, FreeEmpty DEF OthersQuiet

\* The next call of the trial, or the recording of what it found, is made.
LEMMA TrialStep ==
  ASSUME StackInv, OthersQuiet, store = [s \in Slots |-> store[s]], scenario.commands # {}, AllNext,
         useRegistry = "unset",
         NEW T, InTrial(T), NEW y, y.op = "latch", NEW R, IsStack(R),
         calls["tool"] = T \o (<<y>> \o R)
  PROVE  \/ /\ useRegistry' = useRegistry
            /\ \E U : InTrial(U) /\ calls'["tool"] = U \o (<<y>> \o R)
         \/ calls'["tool"] = << >> /\ useRegistry' = useRegistry
         \/ calls'["tool"] = R /\ useRegistry' \in {"no", "yes"}
         \/ /\ calls'["tool"] = From(R, Handlers \ {"ignore"})
            /\ useRegistry' = useRegistry /\ faults' = faults + 1
<1>1. "tool" \in Processes
  BY IdentityParametersOK
<1>2. PICK Z : Z = <<y>> \o R
  OBVIOUS
<1>3. IsStack(T) /\ IsStack(<<y>>) /\ <<y>> # << >> /\ Head(<<y>>) = y /\ Tail(<<y>>) = << >>
  BY OneCall DEF InTrial
<1>4. /\ IsStack(Z) /\ Z # << >> /\ Head(Z) = y /\ Tail(Z) = R
  <2>1. /\ <<y>> \o R # << >> /\ Head(<<y>> \o R) = Head(<<y>>)
        /\ Tail(<<y>> \o R) = Tail(<<y>>) \o R
    BY ONLY <1>3, IsStack(R), TopOfPushed
  <2>2. IsStack(<<y>> \o R)
    BY ONLY <1>3, IsStack(R), PushedOnStack
  <2>3. << >> \o R = R
    BY NoCall
  <2> QED
    BY <1>2, <1>3, <2>1, <2>2, <2>3
<1>5. /\ Returned("tool", TRUE) => calls'["tool"] = Tail(calls["tool"])
      /\ Returned("tool", FALSE) => calls'["tool"] = Unwound(Tail(calls["tool"]))
  BY <1>1 DEF Returned, StackInv
<1>6. \A op \in TrialOps \cup {"latch"} :
         /\ op \notin Functions /\ op \notin IdentityFunctions /\ op \notin KeyCalls
         /\ op \in Watched
         /\ op \notin {"ignore", "destroyed", "get property", "delete certificates", "delete key",
                       "set uri", "read name"}
  BY DEF TrialOps, Functions, IdentityFunctions, KeyCalls, Watched
<1>9. LooksFurther("tool") =>
         /\ Top("tool").op \in SingleCalls /\ useRegistry' = useRegistry
         /\ \E d : /\ d.op = "read certificate"
                  /\ calls'["tool"] = <<d>> \o Tail(calls["tool"])
  <2>1. \A s, h : Call("read certificate", s, h).op = "read certificate"
    BY DEF Call
  <2> QED
    BY <1>1, <2>1 DEF LooksFurther, StackInv
<1>7. CASE T = << >>
  <2>1. calls["tool"] = Z
    BY <1>2, <1>4, <1>7, NoCall
  <2>2. calls["tool"] # << >> /\ Top("tool") = y /\ Tail(calls["tool"]) = R
    BY <1>4, <2>1 DEF Top
  <2>3. y.op \notin SingleCalls
    BY DEF SingleCalls
  <2>4. CASE Latch("tool")
    BY <1>5, <2>2, <2>4 DEF Latch
  <2>5. CASE LatchFails("tool")
    BY <1>1, <2>2, <2>5 DEF LatchFails, Fault, StackInv
  <2> QED
    BY <1>6, <1>9, <2>2, <2>3, <2>4, <2>5, WatchedMoves DEF UseRegistry, Enter, Single, SingleFails, Ignore,
       EnterIdentity, GetCertificateProperty, DeleteCertificates, DeleteKey, KeyCallFails, Destroyed,
       At, Top
<1>8. CASE T # << >>
  <2>1. /\ calls["tool"] # << >> /\ Top("tool") = Head(T) /\ Tail(calls["tool"]) = Tail(T) \o Z
    <3>1. T \o Z # << >> /\ Head(T \o Z) = Head(T) /\ Tail(T \o Z) = Tail(T) \o Z
      BY ONLY <1>3, <1>4, <1>8, TopOfPushed
    <3> QED
      BY <1>2, <3>1 DEF Top
  <2>2. Head(T).op \in TrialOps /\ InTrial(Tail(T))
    <3>1. /\ IsStack(Tail(T)) /\ Head(T) = T[1] /\ Len(T) \in Nat \ {0}
          /\ \A i \in 1 .. Len(Tail(T)) : i + 1 \in 1 .. Len(T) /\ Tail(T)[i] = T[i + 1]
      BY <1>3, <1>8, TailOfStack
    <3>2. 1 \in 1 .. Len(T)
      BY <3>1
    <3>3. Head(T).op \in TrialOps
      BY <3>1, <3>2 DEF InTrial
    <3>4. \A i \in 1 .. Len(Tail(T)) : Tail(T)[i].op \in TrialOps
      BY <3>1 DEF InTrial
    <3> QED
      BY <3>1, <3>3, <3>4 DEF InTrial
  <2>3. Head(T).op # "latch"
    BY <2>2 DEF TrialOps
  <2>4. Unwound(Tail(T) \o Z) = Z
    <3>1. \A op \in TrialOps : op \notin Handlers
      BY DEF TrialOps, Handlers, LibraryHandlers
    <3>2. y.op \in Handlers
      BY DEF Handlers, LibraryHandlers
    <3>3. Quiet(Tail(T))
      BY <2>2, <3>1 DEF InTrial, Quiet
    <3>4. IsStack(R)
      BY <1>2
    <3>5. Unwound(Tail(T) \o (<<y>> \o R)) = <<y>> \o R
      BY ONLY <3>2, <3>3, <3>4, Thrown
    <3> QED
      BY ONLY <1>2, <3>5
  <2>5. CASE Single("tool")
    <3>1. calls'["tool"] = Tail(T) \o Z /\ useRegistry' = useRegistry
      BY <1>5, <2>1, <2>5 DEF Single
    <3> QED
      BY <1>2, <2>2, <3>1
  <2>6. CASE SingleFails("tool")
    <3>1. useRegistry' = useRegistry /\ calls'["tool"] = Unwound(Tail(calls["tool"]))
      <4>1. Top("tool").op \notin {"set uri", "read name"}
        BY <1>6, <2>1, <2>2
      <4>2. useRegistry' = useRegistry
            /\ calls' = [calls EXCEPT !["tool"] =
                            IF Top("tool").op \in {"set uri", "read name"} THEN Tail(@)
                            ELSE Unwound(Tail(@))]
        BY <2>6 DEF SingleFails, Returned
      <4> QED
        BY <1>1, <4>1, <4>2 DEF StackInv
    <3>2. calls'["tool"] = Z
      BY <2>1, <2>4, <3>1
    <3>3. InTrial(<< >>) /\ << >> \o Z = Z
      <4>1. InTrial(<< >>)
        BY NoCall DEF InTrial
      <4> QED
        BY <1>4, <4>1, NoCall
    <3> QED
      BY <1>2, <3>1, <3>2, <3>3
  <2>7. CASE LooksFurther("tool")
    <3>1. PICK d : /\ d.op = "read certificate"
                   /\ calls'["tool"] = <<d>> \o (Tail(T) \o Z)
      BY <1>9, <2>1, <2>7
    <3>2. InTrial(<<d>> \o Tail(T)) /\ calls'["tool"] = (<<d>> \o Tail(T)) \o Z
      <4>1. d.op \in TrialOps
        BY <3>1 DEF TrialOps
      <4>2. /\ IsStack(<<d>>) /\ IsStack(Tail(T)) /\ <<d>> # << >> /\ Head(<<d>>) = d
            /\ Tail(<<d>>) = << >>
        BY <2>2, OneCall DEF InTrial
      <4>3. IsStack(Tail(T)) /\ \A i \in 1 .. Len(Tail(T)) : Tail(T)[i].op \in TrialOps
        BY ONLY <2>2 DEF InTrial
      <4>4. IsStack(<<d>> \o Tail(T))
        BY ONLY <4>2, <4>3, PushedOnStack
      <4>5. Len(<<d>>) = 1 /\ <<d>>[1] = d
        OBVIOUS
      <4>6. \A i \in 1 .. Len(<<d>>) : <<d>>[i].op \in TrialOps
        BY ONLY <4>1, <4>5
      <4>7. PICK E, V : E = <<d>> /\ V = Tail(T)
        OBVIOUS
      <4>8. IsStack(E) /\ IsStack(V) /\ IsStack(E \o V)
        BY ONLY <4>2, <4>3, <4>4, <4>7
      <4>9. /\ \A i \in 1 .. Len(E) : E[i].op \in TrialOps
            /\ \A i \in 1 .. Len(V) : V[i].op \in TrialOps
        BY ONLY <4>3, <4>6, <4>7
      <4>10. ASSUME NEW i \in 1 .. Len(E \o V)
             PROVE  (E \o V)[i].op \in TrialOps
        <5>1. /\ Len(E) \in Nat /\ Len(V) \in Nat /\ Len(E \o V) = Len(E) + Len(V)
              /\ \A j \in 1 .. Len(E) : (E \o V)[j] = E[j]
              /\ \A j \in 1 .. Len(V) : (E \o V)[Len(E) + j] = V[j]
          BY ONLY <4>8, PushedOnStack
        <5>2. CASE i <= Len(E)
          <6>1. i \in 1 .. Len(E)
            BY ONLY <5>1, <5>2, i \in 1 .. Len(E \o V)
          <6> QED
            BY ONLY <4>9, <5>1, <6>1
        <5>3. CASE ~(i <= Len(E))
          <6>1. i - Len(E) \in 1 .. Len(V) /\ Len(E) + (i - Len(E)) = i
            BY ONLY <5>1, <5>3, i \in 1 .. Len(E \o V)
          <6> QED
            BY ONLY <4>9, <5>1, <6>1
        <5> QED
          BY ONLY <5>2, <5>3
      <4>11. E \o (V \o Z) = (E \o V) \o Z
        BY ONLY <1>4, <4>8, PushedTwice
      <4>12. InTrial(E \o V)
        BY ONLY <4>8, <4>10 DEF InTrial
      <4>13. <<d>> \o (Tail(T) \o Z) = (<<d>> \o Tail(T)) \o Z
        BY ONLY <4>7, <4>11
      <4>14. calls'["tool"] = <<d>> \o (Tail(T) \o Z)
        BY ONLY <3>1
      <4> QED
        BY ONLY <4>7, <4>12, <4>13, <4>14
    <3> QED
      BY <1>2, <1>9, <2>7, <3>2
  <2> QED
    BY <1>6, <2>1, <2>2, <2>3, <2>5, <2>6, <2>7, WatchedMoves DEF UseRegistry, Latch, LatchFails, Enter,
       Ignore, EnterIdentity, GetCertificateProperty, DeleteCertificates, DeleteKey, KeyCallFails,
       Destroyed, At, Top
<1> QED
  BY <1>7, <1>8

LEMMA FiveInTrial ==
  ASSUME NEW a, a.op \in TrialOps, NEW b, b.op \in TrialOps, NEW c, c.op \in TrialOps,
         NEW d, d.op \in TrialOps, NEW e, e.op \in TrialOps
  PROVE  InTrial(<<a, b, c, d, e>>)
<1>1. PICK S : S = {a, b, c, d, e}
  OBVIOUS
<1>2. <<a, b, c, d, e>> \in Seq(S) /\ \A x \in S : x.op \in TrialOps
  BY <1>1
<1> QED
  BY <1>2 DEF InTrial, IsStack

\* The first access makes the trial before the call that it is made for.
LEMMA TrialBegins ==
  ASSUME StackInv, UseRegistry("tool")
  PROVE  /\ useRegistry = "unset" /\ useRegistry' = useRegistry /\ faults' = faults
         /\ \E T : InTrial(T) /\ calls'["tool"] = T \o (<<Do("latch", Top("tool").slot)>> \o calls["tool"])
<1> DEFINE s == Top("tool").slot
<1>1. PICK T, z : T = TryTpmNvOperations(s) /\ z = <<Do("latch", s)>>
  OBVIOUS
<1>2. calls' = [calls EXCEPT !["tool"] = T \o z \o calls["tool"]]
  BY <1>1 DEF UseRegistry
<1> HIDE DEF s
<1>3. InTrial(T)
  <2>1. /\ Do("clear nv", s).op \in TrialOps /\ Do("define nv", s).op \in TrialOps
        /\ Call("write nv", s, "test").op \in TrialOps
        /\ Do("verify nv", s).op \in TrialOps /\ Do("undefine nv", s).op \in TrialOps
    <3>2. /\ "clear nv" \in TrialOps /\ "define nv" \in TrialOps /\ "write nv" \in TrialOps
          /\ "verify nv" \in TrialOps /\ "undefine nv" \in TrialOps
      BY DEF TrialOps
    <3>3. /\ Do("clear nv", s).op = "clear nv" /\ Do("define nv", s).op = "define nv"
          /\ Call("write nv", s, "test").op = "write nv"
          /\ Do("verify nv", s).op = "verify nv" /\ Do("undefine nv", s).op = "undefine nv"
      BY Ops
    <3> QED
      BY <3>2, <3>3
  <2>2. InTrial(<<Do("clear nv", s), Do("define nv", s), Call("write nv", s, "test"),
                  Do("verify nv", s), Do("undefine nv", s)>>)
    BY <2>1, FiveInTrial
  <2> QED
    BY <1>1, <2>2 DEF TryTpmNvOperations
<1>4. calls'["tool"] = T \o z \o calls["tool"]
  BY <1>2, OneChanges, IdentityParametersOK
<1>5. T \o z \o calls["tool"] = T \o (z \o calls["tool"])
  <2>1. PICK c : c = calls["tool"]
    OBVIOUS
  <2>2. IsStack(T)
    BY <1>3 DEF InTrial
  <2>3. IsStack(z)
    BY <1>1, OneCall
  <2>4. IsStack(c)
    BY <2>1 DEF StackInv
  <2>5. T \o (z \o c) = (T \o z) \o c
    BY ONLY <2>2, <2>3, <2>4, PushedTwice
  <2> QED
    BY <2>1, <2>5
<1> QED
  BY <1>1, <1>3, <1>4, <1>5 DEF UseRegistry, s

\* A step without a trial, or the first of one.
LEMMA NoTrialStep ==
  ASSUME StackInv, OthersQuiet, store = [s \in Slots |-> store[s]], scenario.commands # {},
         scenario \in Scenarios, AllNext, Free(calls["tool"], {"latch"})
  PROVE  OneTrial' /\ useRegistry' = useRegistry
<1> DEFINE L == {"latch"}
<1>1. "tool" \in Processes
  BY IdentityParametersOK
<1>2. L \cap BodyOps = {} /\ Closed(L) /\ L \cap Inner = {} /\ L \cap CommandOps = {}
  <2>1. "latch" \notin BodyOps /\ "latch" \notin FileOps /\ "latch" \notin Inner
    BY DEF BodyOps, SingleCalls, Functions, FileOps, Inner
  <2>2. "latch" \notin AuthorityOps
    BY DEF AuthorityOps
  <2>3. "encrypt" \notin L
    OBVIOUS
  <2> QED
    BY <2>1, <2>2, <2>3 DEF Closed, CommandOps
<1>3. calls["tool"] # << >> => Top("tool").op # "latch"
  <2>1. \A z \in KeyFunctionCalls : z.op \in KeyFunctions
    BY Ops DEF KeyFunctionCalls
  <2>2. "latch" \notin KeyFunctions
    BY DEF KeyFunctions
  <2>3. calls["tool"] # << >> => Allowed(Head(calls["tool"]), L)
    BY FreeTail
  <2> QED
    BY <2>1, <2>2, <2>3 DEF Allowed, Top
<1>4. ~Latch("tool") /\ ~LatchFails("tool")
  BY <1>3 DEF Latch, LatchFails, At, Top
<1> HIDE DEF L
<1>5. Free(calls["tool"], L)
  BY DEF L
<1>6. ASSUME Free(calls'["tool"], L)
      PROVE  OneTrial'
  BY <1>6 DEF OneTrial, L
<1>7. CASE Next /\ UNCHANGED toolVars
  <2>1. CASE Shared("tool")
    <3>0. useRegistry' = useRegistry
      BY <1>4, <2>1, ToolAlone
    <3>1. CASE UseRegistry("tool")
      <4>1. PICK T : /\ InTrial(T)
                     /\ calls'["tool"] = T \o (<<Do("latch", Top("tool").slot)>> \o calls["tool"])
        BY <3>1, TrialBegins
      <4>2. Do("latch", Top("tool").slot).op = "latch" /\ useRegistry' = "unset"
        BY <3>0, <3>1, Ops DEF UseRegistry
      <4>3. \E y, R : /\ y.op = "latch" /\ Free(R, {"latch"}) /\ calls'["tool"] = T \o (<<y>> \o R)
        BY <4>1, <4>2
      <4> QED
        BY <3>0, <4>1, <4>2, <4>3 DEF OneTrial
    <3>2. CASE Enter("tool")
      <4>1. /\ calls["tool"] # << >> /\ calls' = [calls EXCEPT !["tool"] = Body(Top("tool")) \o Tail(@)]
            /\ Top("tool").op \in Functions
        BY <3>2 DEF Enter
      <4>2. Free(Body(Top("tool")), L)
        BY <1>2, <4>1, LibraryBodies
      <4> QED
        BY <1>1, <1>5, <1>6, <3>0, <4>1, <4>2, ReplacedOnStack
    <3>3. CASE LoadFails("tool")
      <4> DEFINE r == <<Do("LimpetEvictHmacKey", Top("tool").slot), Do("rethrow", Top("tool").slot)>>
      <4>1. calls["tool"] # << >> /\ calls' = [calls EXCEPT !["tool"] = r \o Tail(@)]
        BY <3>3 DEF LoadFails, At
      <4>2. Free(r, L)
        <5>1. /\ Do("LimpetEvictHmacKey", Top("tool").slot).op = "LimpetEvictHmacKey"
              /\ Do("rethrow", Top("tool").slot).op = "rethrow"
          BY Ops
        <5> QED
          BY <5>1, FreeTwo DEF L
      <4> HIDE DEF r
      <4> QED
        BY <1>1, <1>5, <1>6, <3>0, <4>1, <4>2, ReplacedOnStack
    <3>4. CASE EmptyTpmSlot("tool")
      <4> DEFINE s == Top("tool").slot
                 r == <<Do("LimpetDestroyURI", s), Do("ignore", s),
                        Do("LimpetEvictHmacKey", s), Do("ignore", s)>>
      <4>1. calls["tool"] # << >> /\ calls' = [calls EXCEPT !["tool"] = r \o Tail(@)]
        BY <3>4 DEF EmptyTpmSlot, Expand, At
      <4>2. Free(r, L)
        <5>1. /\ Do("LimpetDestroyURI", s).op = "LimpetDestroyURI" /\ Do("ignore", s).op = "ignore"
              /\ Do("LimpetEvictHmacKey", s).op = "LimpetEvictHmacKey"
          BY Ops
        <5> HIDE DEF s
        <5> QED
          BY <5>1, FreeFour DEF L
      <4> HIDE DEF r
      <4> QED
        BY <1>1, <1>5, <1>6, <3>0, <4>1, <4>2, ReplacedOnStack
    <3>5. CASE Single("tool") \/ SingleFails("tool") \/ FinallyDeleteBlob("tool") \/ Rethrow("tool")
               \/ Token("tool") \/ Ignore("tool")
      <4>1. calls["tool"] # << >> /\ \E ok : Returned("tool", ok)
        BY <3>5 DEF Single, SingleFails, FinallyDeleteBlob, Rethrow, Token, Ignore, At
      <4> QED
        BY <1>1, <1>5, <1>6, <3>0, <4>1, ReturnedOnStack
    <3>6. CASE LooksFurther("tool")
      <4> DEFINE d == Call("read certificate", Top("tool").slot, NextPlace(Top("tool")))
      <4>1. calls["tool"] # << >> /\ calls' = [calls EXCEPT !["tool"] = <<d>> \o Tail(@)]
        BY <3>6 DEF LooksFurther
      <4>2. Free(<<d>>, L)
        <5>1. d.op = "read certificate"
          BY DEF Call
        <5> HIDE DEF d
        <5> QED
          BY <5>1, FreeOne DEF L
      <4> HIDE DEF d
      <4> QED
        BY <1>1, <1>5, <1>6, <3>0, <4>1, <4>2, ReplacedOnStack
    <3> QED
      BY <1>4, <2>1, <3>1, <3>2, <3>3, <3>4, <3>5, <3>6 DEF Shared, InLibrary, Library
  <2>2. CASE calls'["tool"] = calls["tool"] /\ useRegistry' = useRegistry
    BY <1>5, <1>6, <2>2
  <2> QED
    BY <1>7, <2>1, <2>2, OthersStep
<1>8. CASE ToolStep
  BY <1>2, <1>4, <1>5, <1>6, <1>8, ToolEffect, ToolAlone DEF StepEffect
<1>9. CASE IdentityCall("tool") /\ UNCHANGED <<driver, files, payload, pendingClear>>
  BY <1>2, <1>4, <1>5, <1>6, <1>9, IdentityEffect, ToolAlone
<1>10. CASE Wmain
  <2>1. "destroyed" \notin L /\ Encrypting \cap L = {}
    BY DEF L, Encrypting
  <2>2. Free(calls'["tool"], L)
    BY <1>2, <1>10, <2>1, WmainEffect
  <2> QED
    BY <1>4, <1>6, <1>10, <2>2, ToolAlone
<1> QED
  BY <1>7, <1>8, <1>9, <1>10, Steps

\* The others stay quiet, and the choice is made once.
LEMMA TrialsKept ==
  ASSUME StackInv, OthersQuiet, store = [s \in Slots |-> store[s]], scenario.commands # {},
         scenario \in Scenarios, AllNext, OneTrial
  PROVE  /\ OneTrial' /\ OthersQuiet'
         /\ useRegistry # "unset" => useRegistry' = useRegistry
<1>1. /\ OneTrial' /\ (useRegistry # "unset" => useRegistry' = useRegistry)
      /\ Free(calls["tool"], {"latch"}) => useRegistry' = useRegistry
  <2>1. CASE Free(calls["tool"], {"latch"})
    BY <2>1, NoTrialStep
  <2>2. ASSUME ~Free(calls["tool"], {"latch"})
        PROVE  OneTrial' /\ useRegistry = "unset"
    <3>1. PICK T, y, R : /\ InTrial(T) /\ y.op = "latch" /\ Free(R, {"latch"})
                         /\ calls["tool"] = T \o (<<y>> \o R)
      BY <2>2 DEF OneTrial
    <3>2. useRegistry = "unset"
      BY <2>2 DEF OneTrial
    <3>3. IsStack(R) /\ Free(From(R, Handlers \ {"ignore"}), {"latch"}) /\ Free(<< >>, {"latch"})
      BY <3>1, FreeIsStack, FreeFrom, FreeEmpty
    <3>4. \/ /\ useRegistry' = useRegistry
             /\ \E U : InTrial(U) /\ calls'["tool"] = U \o (<<y>> \o R)
          \/ calls'["tool"] = << >>
          \/ calls'["tool"] = R
          \/ calls'["tool"] = From(R, Handlers \ {"ignore"})
      BY <3>1, <3>2, <3>3, TrialStep
    <3> QED
      BY <3>1, <3>2, <3>3, <3>4 DEF OneTrial
  <2> QED
    BY <2>1, <2>2
<1>2. OthersQuiet'
  <2>1. useRegistry' = useRegistry \/ useRegistry = "unset"
    BY <1>1
  <2>2. CASE Next /\ UNCHANGED toolVars
    BY <2>1, <2>2, OthersStep, ToolAlone
  <2> QED
    BY <2>1, <2>2, ToolAlone, Steps
<1> QED
  BY <1>1, <1>2

-----------------------------------------------------------------------------
(* The destroyed slot *)

SlotFields == {"public", "private", "name", "uri", "blob", "key", "nv"}

StoreFields ==
    /\ store = [s \in Slots |-> store[s]]
    /\ \A s \in Slots : store[s] = [f \in SlotFields |-> store[s][f]]

NoUri(s) == useRegistry = "no" /\ store[s].nv = None
NoHmacKey(s) == store[s].key = None
NoCert(a) == ksp[LimpetReadDeviceId(a)].cert = None

\* What is left of the command after each of its parts.
Ending   == <<On("output", None)>>
Rest3(s) == <<Do("ignore", s)>> \o (<<Do("destroyed", s)>> \o Ending)
Rest2(s) == <<Do("ignore", s)>> \o (<<On("LimpetDestroyIdentityCert", "ECDSA")>> \o Rest3(s))
Rest1(s) == <<Do("ignore", s)>> \o (<<On("LimpetDestroyIdentityCert", "RSA")>> \o Rest2(s))
Rest0(s) == <<Do("ignore", s)>> \o (<<Do("LimpetEvictHmacKey", s)>> \o Rest1(s))

\* The next call of the part that destroys a certificate, and what follows.
CertWork(a, x, Q) ==
    \/ x = On("LimpetDestroyIdentityCert", a) /\ Q = << >>
    \/ /\ x = On("get property", a)
       /\ Q = <<On("delete certificates", a)>> \o <<On("delete key", a)>>
    \/ x = On("delete certificates", a) /\ Q = <<On("delete key", a)>>
    \/ x = On("delete key", a) /\ Q = << >>

\* The next call, the rest of its part, the rest of the command, and what is
\* gone by then.
DestroyWork(s, x, Q, R) ==
    \/ x = Do("LimpetDestroyURI", s) /\ Q = << >> /\ R = Rest0(s)
    \/ x = Do("undefine nv", s) /\ Q = << >> /\ R = Rest0(s) /\ useRegistry = "no"
    \/ /\ NoUri(s)
       /\ \/ x = Do("ignore", s) /\ Q = << >> /\ R = <<Do("LimpetEvictHmacKey", s)>> \o Rest1(s)
          \/ x \in {Do("LimpetEvictHmacKey", s), Do("evict", s)} /\ Q = << >> /\ R = Rest1(s)
    \/ /\ NoUri(s) /\ NoHmacKey(s)
       /\ \/ /\ x = Do("ignore", s) /\ Q = << >>
             /\ R = <<On("LimpetDestroyIdentityCert", "RSA")>> \o Rest2(s)
          \/ CertWork("RSA", x, Q) /\ R = Rest2(s)
    \/ /\ NoUri(s) /\ NoHmacKey(s) /\ NoCert("RSA")
       /\ \/ /\ x = Do("ignore", s) /\ Q = << >>
             /\ R = <<On("LimpetDestroyIdentityCert", "ECDSA")>> \o Rest3(s)
          \/ CertWork("ECDSA", x, Q) /\ R = Rest3(s)
    \/ /\ NoUri(s) /\ NoHmacKey(s) /\ NoCert("RSA") /\ NoCert("ECDSA")
       /\ \/ x = Do("ignore", s) /\ Q = << >> /\ R = <<Do("destroyed", s)>> \o Ending
          \/ x = Do("destroyed", s) /\ Q = << >> /\ R = Ending

DestroyStack ==
    \/ Free(calls["tool"], {"destroyed"})
    \/ \E s \in Slots : \E x, Q, R : DestroyWork(s, x, Q, R) /\ calls["tool"] = <<x>> \o (Q \o R)
    \/ /\ useRegistry = "unset"
       /\ \E s \in Slots : \E T :
             /\ InTrial(T)
             /\ calls["tool"] =
                   T \o (<<Do("latch", s)>> \o (<<Do("LimpetDestroyURI", s)>> \o Rest0(s)))

\* A call leaves a slot's other values alone.
LEMMA AfterFields ==
  ASSUME NEW c, NEW slot, slot = [f \in SlotFields |-> slot[f]]
  PROVE  After(c, slot) = [f \in SlotFields |-> After(c, slot)[f]]
<1>1. \/ After(c, slot) = slot
      \/ \E v : \/ After(c, slot) = [slot EXCEPT !.public = v]
                \/ After(c, slot) = [slot EXCEPT !.private = v]
                \/ After(c, slot) = [slot EXCEPT !.name = v]
                \/ After(c, slot) = [slot EXCEPT !.uri = v]
                \/ After(c, slot) = [slot EXCEPT !.blob = v]
                \/ After(c, slot) = [slot EXCEPT !.key = v]
                \/ After(c, slot) = [slot EXCEPT !.nv = v]
  BY DEF After
<1> PICK r : r = After(c, slot)
  OBVIOUS
<1>2. \/ r = slot
      \/ \E f, v : r = [slot EXCEPT ![f] = v]
  BY <1>1
<1>3. r = [f \in SlotFields |-> r[f]]
  BY <1>2
<1> QED
  BY <1>3

LEMMA StoreKept ==
  ASSUME StoreFields, [AllNext]_allVars
  PROVE  StoreFields'
<1>1. ASSUME store' = store
      PROVE  StoreFields'
  BY <1>1 DEF StoreFields
<1>2. ASSUME NEW s, NEW f, NEW v, store' = [store EXCEPT ![s][f] = v]
      PROVE  StoreFields'
  BY <1>2 DEF StoreFields
<1>3. ASSUME NEW p, Library(p)
      PROVE  StoreFields'
  <2>1. CASE UseRegistry(p) \/ Latch(p) \/ LatchFails(p) \/ Enter(p) \/ LoadFails(p)
             \/ LooksFurther(p) \/ SingleFails(p) \/ Rethrow(p)
    BY <1>1, <2>1 DEF UseRegistry, Latch, LatchFails, Enter, LoadFails, LooksFurther, SingleFails,
       Rethrow
  <2>2. CASE FinallyDeleteBlob(p)
    BY <1>1, <1>2, <2>2 DEF FinallyDeleteBlob
  <2>3. CASE Single(p)
    <3>1. PICK c, s : store' = [store EXCEPT ![s] = After(c, @)]
      BY <2>3 DEF Single
    <3>2. s \in Slots => After(c, store[s]) = [f \in SlotFields |-> After(c, store[s])[f]]
      BY AfterFields DEF StoreFields
    <3>3. PICK r : r = After(c, store[s])
      OBVIOUS
    <3>4. store' = [store EXCEPT ![s] = r]
      BY <3>1, <3>3
    <3>5. s \in Slots => r = [f \in SlotFields |-> r[f]]
      BY <3>2, <3>3
    <3> QED
      BY <3>4, <3>5 DEF StoreFields
  <2> QED
    BY <1>3, <2>1, <2>2, <2>3 DEF Library
<1>4. ASSUME NEW p, Shared(p)
      PROVE  StoreFields'
  BY <1>1, <1>3, <1>4 DEF Shared, InLibrary, Token, Ignore, EmptyTpmSlot, Expand
<1>5. CASE Agent
  <2>1. CASE ProvDeviceLLRegisterDevice
    BY <1>2, <2>1 DEF ProvDeviceLLRegisterDevice
  <2> QED
    BY <1>1, <1>5, <2>1 DEF Agent, GetConnectionString, GotConnectionString, NoConnectionString,
       GivesUp, Registered, DpsRegisterDevice, CheckedDevice, RegistrationFails, CreateModules, CreateEachModule,
       CreateModule, CheckedModule, GetModule, Expand
<1>6. CASE RenewSASToken \/ AppGetConnectionString \/ Provision \/ Imported \/ Restart
  BY <1>1, <1>6 DEF RenewSASToken, library, AppGetConnectionString, Provision, Imported, Restart
<1>7. CASE Next
  BY <1>4, <1>5, <1>6, <1>7 DEF Next
<1>8. CASE IdentityCall("tool")
  BY <1>1, <1>8 DEF IdentityCall, EnterIdentity, OpenKey, CreateKey, AddCertificate,
     SetCertificateProperty, GetCertificateProperty, DeleteCertificates, DeleteKey, FindCertificate,
     AcquireKey, LimpetIssueCertificate, LimpetGetTpmKey2BPubFromCert, LimpetChallengeIdentityCert,
     LimpetActivateIdentityCert, LimpetCreateHostageKeyEx, KeyCallFails
<1>9. ASSUME Cleared
      PROVE  StoreFields'
  <2>2. \A s \in Slots : \E v, w :
           store'[s] = [store[s] EXCEPT !.key = None, !.nv = None, !.private = v, !.blob = w]
    BY <1>9 DEF Cleared
  <2>3. store' = [s \in Slots |-> store'[s]]
    BY <1>9 DEF Cleared
  <2> QED
    BY <2>2, <2>3 DEF StoreFields
<1>10. CASE ToolStep
  <2>1. CASE LimpetForceClearTpm \/ Reboot
    BY <1>1, <1>9, <2>1 DEF LimpetForceClearTpm, Reboot
  <2> QED
    BY <1>1, <1>10, <2>1 DEF ToolStep, ReadFile, ReadPayloadKey, ReadPublicKey, EmptyFile, FillFile,
       IfRequested, EncryptHalf, DecryptHalf, AddPlainCertificate, HandHostageOver, GotSecret,
       Destroyed, Output, ToolEnds, Forgets, FileCallFails, unlessFiles
<1>11. CASE Wmain \/ UNCHANGED allVars
  BY <1>1, <1>11 DEF Wmain, allVars, vars, library
<1> QED
  BY <1>7, <1>8, <1>10, <1>11, Steps

-----------------------------------------------------------------------------
(* The part that destroys a certificate *)

\* The rest of a command begins with a place that sees a failure.
Sees(R) == \E y, r : y.op \in Handlers /\ IsStack(r) /\ R = <<y>> \o r

\* The call at the top is made, with a place that sees a failure below its part.
LEMMA PartReturns ==
  ASSUME StackInv, NEW x, NEW Q, Quiet(Q), NEW R, Sees(R), calls["tool"] = <<x>> \o (Q \o R)
  PROVE  /\ calls["tool"] # << >> /\ Top("tool") = x /\ Tail(calls["tool"]) = Q \o R
         /\ IsStack(R)
         /\ Returned("tool", TRUE) => calls'["tool"] = Q \o R
         /\ Returned("tool", FALSE) => calls'["tool"] = R
<1>1. "tool" \in Processes
  BY IdentityParametersOK
<1>0. PICK y, r : y.op \in Handlers /\ IsStack(r) /\ R = <<y>> \o r
  BY DEF Sees
<1>2. IsStack(R)
  <2>1. IsStack(<<y>>)
    BY OneCall
  <2>2. IsStack(<<y>> \o r)
    BY ONLY <2>1, <1>0, PushedOnStack
  <2> QED
    BY <1>0, <2>2
<1>3. Free(R, {})
  BY <1>2, StackIsFree
<1>4. /\ calls["tool"] # << >> /\ Top("tool") = x /\ Tail(calls["tool"]) = Q \o R
      /\ Returned("tool", TRUE) => calls'["tool"] = Q \o R
  BY <1>3, CallReturns
<1>5. ASSUME Returned("tool", FALSE)
      PROVE  calls'["tool"] = R
  <2>1. calls' = [calls EXCEPT !["tool"] = IF FALSE THEN Tail(@) ELSE Unwound(Tail(@))]
    BY <1>5 DEF Returned
  <2>2. calls'["tool"] = Unwound(Q \o R)
    BY <1>1, <1>4, <2>1 DEF StackInv
  <2>3. Unwound(Q \o (<<y>> \o r)) = <<y>> \o r
    BY ONLY Quiet(Q), <1>0, Thrown
  <2> QED
    BY <1>0, <2>2, <2>3
<1> QED
  BY <1>2, <1>4, <1>5

CertOps == {"LimpetDestroyIdentityCert", "get property", "delete certificates", "delete key"}

LEMMA CertIsQuiet ==
  ASSUME NEW a, NEW x, NEW Q, CertWork(a, x, Q)
  PROVE  Quiet(Q) /\ x.op \in CertOps /\ x.alg = a
<1>1. /\ On("delete certificates", a).op = "delete certificates" /\ On("delete key", a).op = "delete key"
      /\ On("get property", a).op = "get property"
      /\ On("LimpetDestroyIdentityCert", a).op = "LimpetDestroyIdentityCert"
      /\ \A op : On(op, a).alg = a
  BY Algs
<1>2. "delete certificates" \notin Handlers /\ "delete key" \notin Handlers
  BY DEF Handlers, LibraryHandlers
<1>3. Quiet(<<On("delete key", a)>>)
  <2>1. Quiet(<<On("delete key", a)>> \o << >>)
    BY <1>1, <1>2, QuietMore, NoCall
  <2> QED
    BY <2>1, NoCall, OneCall
<1>4. Quiet(<<On("delete certificates", a)>> \o <<On("delete key", a)>>)
  BY <1>1, <1>2, <1>3, QuietMore
<1>5. Quiet(Q)
  BY <1>3, <1>4, NoCall DEF CertWork
<1>6. x.op \in CertOps /\ x.alg = a
  <2>1. /\ "delete certificates" \in CertOps /\ "delete key" \in CertOps
        /\ "get property" \in CertOps /\ "LimpetDestroyIdentityCert" \in CertOps
    BY DEF CertOps
  <2>2. \/ x = On("LimpetDestroyIdentityCert", a) \/ x = On("get property", a)
        \/ x = On("delete certificates", a) \/ x = On("delete key", a)
    BY DEF CertWork
  <2> QED
    BY <1>1, <2>1, <2>2
<1> QED
  BY <1>5, <1>6

\* A function of three calls is entered.
LEMMA ThreeCalls ==
  ASSUME NEW x, NEW y, NEW z
  PROVE  <<x>> \o (<<y>> \o <<z>>) = <<x, y, z>>
<1>1. PICK S : S = {x, y, z}
  OBVIOUS
<1>2. <<y>> \o <<z>> = <<y, z>>
  BY TwoCalls
<1> DEFINE q == <<x>>
           r == <<y, z>>
           t == <<x, y, z>>
<1>3. /\ q \in Seq(S) /\ r \in Seq(S) /\ t \in Seq(S) /\ Len(q) = 1 /\ Len(r) = 2 /\ Len(t) = 3
      /\ t[1] = q[1] /\ t[2] = r[1] /\ t[3] = r[2]
  BY <1>1
<1> HIDE DEF q, r, t
<1>4. /\ q \o r \in Seq(S) /\ Len(q \o r) = Len(q) + Len(r)
      /\ \A i \in 1 .. Len(q) + Len(r) : (q \o r)[i] = IF i <= Len(q) THEN q[i] ELSE r[i - Len(q)]
  BY <1>3, ConcatProperties
<1>5. Len(q \o r) = Len(t)
  BY <1>3, <1>4
<1>6. \A i \in 1 .. 3 : (q \o r)[i] = t[i]
  BY <1>3, <1>4
<1>7. \A i \in 1 .. Len(q \o r) : (q \o r)[i] = t[i]
  BY <1>3, <1>5, <1>6
<1>8. q \o r \in Seq(S) /\ t \in Seq(S)
  BY <1>3, <1>4
<1>9. q \o r = t
  BY <1>5, <1>7, <1>8, SeqEqual
<1> QED
  BY <1>2, <1>9 DEF q, r, t

\* The calls c are at one of that part, with R to follow.
AtPart(a, c, R) == \E w, W : CertWork(a, w, W) /\ c = <<w>> \o (W \o R)

\* The next call of the part that destroys a certificate is made.
LEMMA CertStep ==
  ASSUME StackInv, OthersQuiet, store = [s \in Slots |-> store[s]], scenario.commands # {}, AllNext,
         KeyFacts, useRegistry = "no",
         NEW a \in Algorithms, NEW x, NEW Q, CertWork(a, x, Q),
         NEW R, Sees(R), calls["tool"] = <<x>> \o (Q \o R)
  PROVE  \/ faults' = faults + 1
         \/ calls'["tool"] = << >>
         \/ /\ UNCHANGED <<store, useRegistry>>
            /\ \A b \in Algorithms : ksp[<<srk, b>>].cert = None => ksp'[<<srk', b>>].cert = None
            /\ \/ calls'["tool"] = R /\ ksp'[<<srk', a>>].cert = None
               \/ AtPart(a, calls'["tool"], R)
<1> SUFFICES
         \/ faults' = faults + 1
         \/ calls'["tool"] = << >>
         \/ /\ UNCHANGED <<store, useRegistry>>
            /\ \A b \in Algorithms : NoCert(b) => NoCert(b)'
            /\ \/ calls'["tool"] = R /\ NoCert(a)'
               \/ \E w, W : CertWork(a, w, W) /\ calls'["tool"] = <<w>> \o (W \o R)
  BY DEF NoCert, LimpetReadDeviceId, AtPart
<1>1. Quiet(Q) /\ x.op \in CertOps /\ x.alg = a
  BY CertIsQuiet
<1>2. /\ calls["tool"] # << >> /\ Top("tool") = x /\ IsStack(R)
      /\ Returned("tool", TRUE) => calls'["tool"] = Q \o R
      /\ Returned("tool", FALSE) => calls'["tool"] = R
  BY <1>1, PartReturns
<1>3. \A op \in CertOps : op \in Watched /\ op \notin Functions /\ op \notin SingleCalls
                          /\ op # "latch" /\ op # "ignore" /\ op # "destroyed"
  BY DEF CertOps, Watched, Functions, SingleCalls
<1>4. \A b : (srk' = srk /\ ksp' = ksp) /\ NoCert(b) => NoCert(b)'
  BY DEF NoCert, LimpetReadDeviceId
<1>6. ASSUME UNCHANGED <<store, useRegistry, srk, ksp>>, NEW w, NEW W, CertWork(a, w, W),
             calls'["tool"] = <<w>> \o (W \o R)
      PROVE  /\ UNCHANGED <<store, useRegistry>>
             /\ \A b \in Algorithms : NoCert(b) => NoCert(b)'
             /\ \E v, V : CertWork(a, v, V) /\ calls'["tool"] = <<v>> \o (V \o R)
  BY <1>4, <1>6
<1>5. CASE UNCHANGED toolVars /\ calls'["tool"] = calls["tool"] /\ UNCHANGED <<store, useRegistry>>
  <2>1. srk' = srk /\ ksp' = ksp
    BY <1>5 DEF toolVars, identity
  <2>2. calls'["tool"] = <<x>> \o (Q \o R)
    BY <1>5
  <2> QED
    BY <1>5, <1>6, <2>1, <2>2
<1>7. IsStack(<<On("delete certificates", a)>>) /\ IsStack(<<On("delete key", a)>>)
      /\ << >> \o R = R
  BY <1>2, OneCall, NoCall
<1>8. (<<On("delete certificates", a)>> \o <<On("delete key", a)>>) \o R
         = <<On("delete certificates", a)>> \o (<<On("delete key", a)>> \o R)
  <2>1. PICK u, v : u = <<On("delete certificates", a)>> /\ v = <<On("delete key", a)>>
    OBVIOUS
  <2>2. IsStack(u) /\ IsStack(v) /\ IsStack(R)
    BY <1>2, <1>7, <2>1
  <2>3. u \o (v \o R) = (u \o v) \o R
    BY ONLY <2>2, PushedTwice
  <2> QED
    BY <2>1, <2>3
<1>9. CASE EnterIdentity("tool") /\ UNCHANGED <<store, useRegistry>>
  <2>1. x.op \in IdentityFunctions
    BY <1>2, <1>9 DEF EnterIdentity
  <2>2. "get property" \notin IdentityFunctions /\ "delete certificates" \notin IdentityFunctions
        /\ "delete key" \notin IdentityFunctions
    BY DEF IdentityFunctions
  <2>3. x.op = "LimpetDestroyIdentityCert"
    BY <1>1, <2>1, <2>2 DEF CertOps
  <2>4. Q = << >>
    <3>1. /\ On("delete certificates", a).op = "delete certificates"
          /\ On("delete key", a).op = "delete key" /\ On("get property", a).op = "get property"
      BY Algs
    <3>2. /\ "delete certificates" # "LimpetDestroyIdentityCert"
          /\ "delete key" # "LimpetDestroyIdentityCert"
          /\ "get property" # "LimpetDestroyIdentityCert"
      OBVIOUS
    <3> QED
      BY <2>3, <3>1, <3>2 DEF CertWork
  <2>5. /\ calls' = [calls EXCEPT !["tool"] = LimpetDestroyIdentityCert(a) \o Tail(@)]
        /\ srk' = srk /\ ksp' = ksp
    BY <1>1, <1>2, <1>9, <2>3 DEF EnterIdentity, identity
  <2>6. Tail(calls["tool"]) = R
    <3>1. Tail(calls["tool"]) = Q \o R
      BY <1>1, PartReturns
    <3> QED
      BY <1>7, <2>4, <3>1
  <2>7. calls'["tool"] = LimpetDestroyIdentityCert(a) \o R
    <3>1. "tool" \in Processes
      BY IdentityParametersOK
    <3> QED
      BY <2>5, <2>6, <3>1 DEF StackInv
  <2> DEFINE W == <<On("delete certificates", a)>> \o <<On("delete key", a)>>
             w == On("get property", a)
  <2>8. LimpetDestroyIdentityCert(a) = <<w>> \o W
    BY ThreeCalls DEF LimpetDestroyIdentityCert
  <2>9. (<<w>> \o W) \o R = <<w>> \o (W \o R)
    <3>1. PICK u, v : u = <<w>> /\ v = W
      OBVIOUS
    <3>2. IsStack(u)
      BY <3>1, OneCall
    <3>3. IsStack(v)
      <4>1. PICK g, h : g = <<On("delete certificates", a)>> /\ h = <<On("delete key", a)>>
        OBVIOUS
      <4>2. IsStack(g) /\ IsStack(h)
        BY <1>7, <4>1
      <4>3. IsStack(g \o h)
        BY ONLY <4>2, PushedOnStack
      <4> QED
        BY <3>1, <4>1, <4>3
    <3>4. IsStack(R)
      BY <1>2
    <3>5. u \o (v \o R) = (u \o v) \o R
      BY ONLY <3>2, <3>3, <3>4, PushedTwice
    <3> QED
      BY <3>1, <3>5
  <2>10. CertWork(a, w, W)
    BY DEF CertWork
  <2>11. calls'["tool"] = <<w>> \o (W \o R)
    BY <2>7, <2>8, <2>9
  <2> HIDE DEF w, W
  <2> QED
    BY <1>6, <1>9, <2>5, <2>10, <2>11
<1>10. CASE GetCertificateProperty("tool") /\ UNCHANGED <<store, useRegistry>>
  <2>1. x.op = "get property" /\ Returned("tool", TRUE) /\ srk' = srk /\ ksp' = ksp
    BY <1>2, <1>10 DEF GetCertificateProperty, At, Top
  <2>2. Q = <<On("delete certificates", a)>> \o <<On("delete key", a)>>
    <3>1. /\ On("delete certificates", a).op = "delete certificates"
          /\ On("delete key", a).op = "delete key"
          /\ On("LimpetDestroyIdentityCert", a).op = "LimpetDestroyIdentityCert"
      BY Algs
    <3>2. /\ "delete certificates" # "get property" /\ "delete key" # "get property"
          /\ "LimpetDestroyIdentityCert" # "get property"
      OBVIOUS
    <3> QED
      BY <2>1, <3>1, <3>2 DEF CertWork
  <2>3. calls'["tool"] = <<On("delete certificates", a)>> \o (<<On("delete key", a)>> \o R)
    BY <1>2, <1>8, <2>1, <2>2
  <2>4. CertWork(a, On("delete certificates", a), <<On("delete key", a)>>)
    BY DEF CertWork
  <2> QED
    BY <1>6, <1>10, <2>1, <2>3, <2>4
<1>11. CASE DeleteCertificates("tool") /\ UNCHANGED <<store, useRegistry>>
  <2>1. /\ x.op = "delete certificates" /\ srk' = srk /\ ksp' = ksp
        /\ UNCHANGED calls \/ Returned("tool", TRUE)
    BY <1>2, <1>11 DEF DeleteCertificates, At, Top
  <2>2. Q = <<On("delete key", a)>>
    <3>1. /\ On("get property", a).op = "get property"
          /\ On("delete key", a).op = "delete key"
          /\ On("LimpetDestroyIdentityCert", a).op = "LimpetDestroyIdentityCert"
      BY Algs
    <3>2. /\ "get property" # "delete certificates" /\ "delete key" # "delete certificates"
          /\ "LimpetDestroyIdentityCert" # "delete certificates"
      OBVIOUS
    <3> QED
      BY <2>1, <3>1, <3>2 DEF CertWork
  <2>3. CASE UNCHANGED calls
    BY <1>6, <1>11, <2>1, <2>3
  <2>4. CASE Returned("tool", TRUE)
    <3>1. calls'["tool"] = <<On("delete key", a)>> \o (<< >> \o R)
      BY <1>2, <1>7, <2>2, <2>4
    <3>2. CertWork(a, On("delete key", a), << >>)
      BY DEF CertWork
    <3> QED
      BY <1>6, <1>11, <2>1, <3>1, <3>2
  <2> QED
    BY <2>1, <2>3, <2>4
<1>12. CASE DeleteKey("tool") /\ UNCHANGED <<store, useRegistry>>
  <2>1. /\ x.op = "delete key" /\ srk' = srk /\ Returned("tool", TRUE)
        /\ ksp' = [ksp EXCEPT ![<<srk, a>>] = EmptyContainer]
    BY <1>1, <1>2, <1>12 DEF DeleteKey, LimpetReadDeviceId, At, Top
  <2>2. Q = << >>
    <3>1. /\ On("get property", a).op = "get property"
          /\ On("delete certificates", a).op = "delete certificates"
      BY Algs
    <3>2. "get property" # "delete key" /\ "delete certificates" # "delete key"
      OBVIOUS
    <3> QED
      BY <2>1, <3>1, <3>2 DEF CertWork
  <2>3. calls'["tool"] = R
    BY <1>2, <1>7, <2>1, <2>2
  <2>4. \A b \in Algorithms : <<srk, b>> \in Containers
    BY DEF KeyFacts, Containers
  <2>5. \A b \in Algorithms : ksp'[<<srk, b>>].cert = None \/ ksp'[<<srk, b>>] = ksp[<<srk, b>>]
    BY <2>1, <2>4 DEF KeyFacts, EmptyContainer
  <2>6. ksp'[<<srk, a>>].cert = None
    BY <2>1, <2>4 DEF KeyFacts, EmptyContainer
  <2>7. NoCert(a)' /\ \A b \in Algorithms : NoCert(b) => NoCert(b)'
    BY <2>1, <2>5, <2>6 DEF NoCert, LimpetReadDeviceId
  <2> QED
    BY <1>12, <2>3, <2>7
<1>13. CASE KeyCallFails("tool") /\ UNCHANGED <<store, useRegistry>>
  <2>1. /\ x.op \in KeyCalls /\ Returned("tool", FALSE) /\ srk' = srk /\ ksp' = ksp
        /\ Refused("tool", x) \/ faults' = faults + 1
    BY <1>2, <1>13 DEF KeyCallFails, Fault, identity
  <2>2. CASE Refused("tool", x)
    <3>1. x.op # "find by key" /\ x.op # "find by hash" /\ x.op # "acquire key"
          /\ x.op # "LimpetActivateIdentityCert"
      BY <1>1 DEF CertOps
    <3>2. ksp[LimpetReadDeviceId(x.alg)].cert = None
      BY <2>2, <3>1 DEF Refused
    <3>3. NoCert(a)
      BY <1>1, <3>2 DEF NoCert
    <3> QED
      BY <1>2, <1>4, <1>13, <2>1, <3>3
  <2> QED
    BY <2>1, <2>2
<1>14. ~UseRegistry("tool") /\ ~Latch("tool") /\ ~LatchFails("tool") /\ ~Enter("tool")
       /\ ~Single("tool") /\ ~LooksFurther("tool") /\ ~SingleFails("tool") /\ ~Ignore("tool")
       /\ ~Destroyed
  BY <1>1, <1>2, <1>3 DEF UseRegistry, Latch, LatchFails, Enter, Single, LooksFurther, SingleFails, Ignore,
     Destroyed, At, Top
<1>15. Top("tool").op \in Watched
  BY <1>1, <1>2, <1>3
<1> QED
  BY <1>2, <1>5, <1>9, <1>10, <1>11, <1>12, <1>13, <1>14, <1>15, WatchedMoves

-----------------------------------------------------------------------------
(* The parts that destroy the URI and evict the key *)

\* What is left of the command begins with the place that ignores a failure.
LEMMA Rests ==
  ASSUME NEW s
  PROVE  /\ Sees(Ending) /\ Sees(Rest0(s)) /\ Sees(Rest1(s)) /\ Sees(Rest2(s)) /\ Sees(Rest3(s))
         /\ IsStack(Ending) /\ IsStack(Rest0(s)) /\ IsStack(Rest1(s)) /\ IsStack(Rest2(s))
         /\ IsStack(Rest3(s))
         /\ IsStack(<<Do("destroyed", s)>> \o Ending)
         /\ IsStack(<<On("LimpetDestroyIdentityCert", "ECDSA")>> \o Rest3(s))
         /\ IsStack(<<On("LimpetDestroyIdentityCert", "RSA")>> \o Rest2(s))
         /\ IsStack(<<Do("LimpetEvictHmacKey", s)>> \o Rest1(s))
<1>1. ASSUME NEW z, NEW r, IsStack(r)
      PROVE  IsStack(<<z>> \o r)
  <2>1. IsStack(<<z>>)
    BY OneCall
  <2> QED
    BY ONLY <2>1, <1>1, PushedOnStack
<1>2. Do("ignore", s).op \in Handlers /\ On("output", None).op \in Handlers
  <2>1. Do("ignore", s).op = "ignore" /\ On("output", None).op = "output"
    BY Ops
  <2>2. "ignore" \in Handlers /\ "output" \in Handlers
    BY DEF Handlers
  <2> QED
    BY <2>1, <2>2
<1>3. ASSUME NEW r, IsStack(r)
      PROVE  Sees(<<Do("ignore", s)>> \o r) /\ IsStack(<<Do("ignore", s)>> \o r)
  BY <1>1, <1>2, <1>3 DEF Sees
<1>4. IsStack(Ending) /\ Sees(Ending)
  <2>1. IsStack(Ending) /\ Ending = <<On("output", None)>> \o << >>
    BY OneCall, NoCall DEF Ending
  <2> QED
    BY <1>2, <2>1, NoCall DEF Sees
<1>5. IsStack(<<Do("destroyed", s)>> \o Ending)
  BY <1>1, <1>4
<1>6. IsStack(Rest3(s)) /\ Sees(Rest3(s))
  BY <1>3, <1>5 DEF Rest3
<1>7. IsStack(<<On("LimpetDestroyIdentityCert", "ECDSA")>> \o Rest3(s))
  BY <1>1, <1>6
<1>8. IsStack(Rest2(s)) /\ Sees(Rest2(s))
  BY <1>3, <1>7 DEF Rest2
<1>9. IsStack(<<On("LimpetDestroyIdentityCert", "RSA")>> \o Rest2(s))
  BY <1>1, <1>8
<1>10. IsStack(Rest1(s)) /\ Sees(Rest1(s))
  BY <1>3, <1>9 DEF Rest1
<1>11. IsStack(<<Do("LimpetEvictHmacKey", s)>> \o Rest1(s))
  BY <1>1, <1>10
<1>12. IsStack(Rest0(s)) /\ Sees(Rest0(s))
  BY <1>3, <1>11 DEF Rest0
<1> QED
  BY <1>4, <1>5, <1>6, <1>7, <1>8, <1>9, <1>10, <1>11, <1>12

\* The tool is at a call, with nothing of its part after it.
LEMMA CallAlone ==
  ASSUME StackInv, NEW x, NEW R, IsStack(R), calls["tool"] = <<x>> \o R
  PROVE  /\ calls["tool"] # << >> /\ Top("tool") = x /\ Tail(calls["tool"]) = R
         /\ calls["tool"] = <<x>> \o (<< >> \o R)
         /\ Returned("tool", TRUE) => calls'["tool"] = R
         /\ Sees(R) /\ Returned("tool", FALSE) => calls'["tool"] = R
<1>1. << >> \o R = R /\ Quiet(<< >>)
  BY NoCall
<1>2. Free(R, {})
  BY StackIsFree
<1>3. calls["tool"] = <<x>> \o (<< >> \o R)
  BY <1>1
<1>4. /\ calls["tool"] # << >> /\ Top("tool") = x /\ Tail(calls["tool"]) = R
      /\ Returned("tool", TRUE) => calls'["tool"] = R
  BY <1>1, <1>2, <1>3, CallReturns
<1>5. Sees(R) /\ Returned("tool", FALSE) => calls'["tool"] = R
  BY <1>1, <1>3, PartReturns
<1> QED
  BY <1>3, <1>4, <1>5

\* What begins with such a place is all that is left after a failure.
LEMMA SeesFirst ==
  ASSUME NEW R, Sees(R)
  PROVE  Unwound(R) = R
<1>1. PICK y, r : y.op \in Handlers /\ IsStack(r) /\ R = <<y>> \o r
  BY DEF Sees
<1>2. PICK z : z = <<y>> \o r
  OBVIOUS
<1>3. IsStack(z)
  <2>1. IsStack(<<y>>)
    BY OneCall
  <2>2. IsStack(<<y>> \o r)
    BY ONLY <1>1, <2>1, PushedOnStack
  <2> QED
    BY <1>2, <2>2
<1>4. Unwound(<< >> \o (<<y>> \o r)) = <<y>> \o r
  <2>1. Quiet(<< >>)
    BY NoCall
  <2> QED
    BY ONLY <1>1, <2>1, Thrown
<1>5. << >> \o z = z
  BY <1>3, NoCall
<1> QED
  BY <1>1, <1>2, <1>4, <1>5

\* A step from a call that only ignores a failure, or from the last one.
LEMMA IgnoreStep ==
  ASSUME StackInv, OthersQuiet, store = [s \in Slots |-> store[s]], scenario.commands # {}, AllNext,
         useRegistry = "no", NEW x, x.op \in {"ignore", "destroyed"}, NEW R, IsStack(R),
         calls["tool"] = <<x>> \o R
  PROVE  \/ calls'["tool"] = << >>
         \/ /\ UNCHANGED <<store, useRegistry, srk, ksp>>
            /\ calls'["tool"] = R \/ calls'["tool"] = calls["tool"]
<1>1. /\ calls["tool"] # << >> /\ Top("tool") = x
      /\ Returned("tool", TRUE) => calls'["tool"] = R
  BY CallAlone
<1>2. /\ x.op \in Watched /\ x.op \notin Functions /\ x.op \notin SingleCalls
      /\ x.op \notin IdentityFunctions /\ x.op \notin KeyCalls /\ x.op # "latch"
      /\ x.op # "get property" /\ x.op # "delete certificates" /\ x.op # "delete key"
  BY DEF Watched, Functions, SingleCalls, IdentityFunctions, KeyCalls
<1>3. ~UseRegistry("tool") /\ ~Latch("tool") /\ ~LatchFails("tool") /\ ~Enter("tool")
      /\ ~Single("tool") /\ ~LooksFurther("tool") /\ ~SingleFails("tool")
      /\ ~EnterIdentity("tool") /\ ~GetCertificateProperty("tool") /\ ~DeleteCertificates("tool") /\ ~DeleteKey("tool")
      /\ ~KeyCallFails("tool")
  BY <1>1, <1>2 DEF UseRegistry, Latch, LatchFails, Enter, Single, LooksFurther, SingleFails,
     EnterIdentity, GetCertificateProperty, DeleteCertificates, DeleteKey, KeyCallFails, At, Top
<1>4. CASE UNCHANGED toolVars /\ Ignore("tool")
  BY <1>1, <1>4 DEF Ignore, toolVars, identity
<1>5. CASE Destroyed
  BY <1>1, <1>5 DEF Destroyed, unlessFiles
<1>6. CASE UNCHANGED toolVars /\ calls'["tool"] = calls["tool"] /\ UNCHANGED <<store, useRegistry>>
  BY <1>6 DEF toolVars, identity
<1> QED
  BY <1>1, <1>2, <1>3, <1>4, <1>5, <1>6, WatchedMoves

\* The function that destroys the URI, or evicts the key, and its one call.
UriCall(s) == {Do("LimpetDestroyURI", s), Do("undefine nv", s)}
KeyCall(s) == {Do("LimpetEvictHmacKey", s), Do("evict", s)}

LEMMA SlotCalls ==
  ASSUME NEW s, NEW x \in UriCall(s) \cup KeyCall(s)
  PROVE  /\ x.slot = s
         /\ \/ x = Do("LimpetDestroyURI", s) /\ x.op = "LimpetDestroyURI"
            \/ x = Do("undefine nv", s) /\ x.op = "undefine nv"
            \/ x = Do("LimpetEvictHmacKey", s) /\ x.op = "LimpetEvictHmacKey"
            \/ x = Do("evict", s) /\ x.op = "evict"
<1>1. \A op : Do(op, s).op = op /\ Do(op, s).slot = s
  BY DEF Do, Call
<1>2. \/ x = Do("LimpetDestroyURI", s) \/ x = Do("undefine nv", s)
      \/ x = Do("LimpetEvictHmacKey", s) \/ x = Do("evict", s)
  BY DEF UriCall, KeyCall
<1>3. CASE x = Do("LimpetDestroyURI", s)
  BY <1>1, <1>3
<1>4. CASE x = Do("undefine nv", s)
  BY <1>1, <1>4
<1>5. CASE x = Do("LimpetEvictHmacKey", s)
  BY <1>1, <1>5
<1>6. CASE x = Do("evict", s)
  BY <1>1, <1>6
<1> QED
  BY <1>2, <1>3, <1>4, <1>5, <1>6

LEMMA SlotStep ==
  ASSUME StackInv, OthersQuiet, StoreFields, scenario.commands # {}, AllNext, useRegistry = "no",
         NEW s \in Slots, NEW x \in UriCall(s) \cup KeyCall(s), NEW R, Sees(R), IsStack(R),
         calls["tool"] = <<x>> \o R
  PROVE  \/ faults' = faults + 1
         \/ calls'["tool"] = << >>
         \/ /\ useRegistry' = useRegistry /\ srk' = srk /\ ksp' = ksp
            /\ \/ /\ store' = store /\ x \in UriCall(s)
                  /\ \E w \in UriCall(s) : calls'["tool"] = <<w>> \o R
               \/ /\ store' = store /\ x \in KeyCall(s)
                  /\ \E w \in KeyCall(s) : calls'["tool"] = <<w>> \o R
               \/ /\ x \in UriCall(s) /\ calls'["tool"] = R /\ store'[s].nv = None
               \/ /\ x \in KeyCall(s) /\ calls'["tool"] = R /\ store'[s].key = None
                  /\ store'[s].nv = store[s].nv
<1>0. "tool" \in Processes /\ store = [t \in Slots |-> store[t]]
  BY IdentityParametersOK DEF StoreFields
<1>1. /\ calls["tool"] # << >> /\ Top("tool") = x /\ Tail(calls["tool"]) = R
      /\ Returned("tool", TRUE) => calls'["tool"] = R
      /\ Returned("tool", FALSE) => calls'["tool"] = R
  BY CallAlone
<1>2. x.slot = s /\ x.op \in {"LimpetDestroyURI", "undefine nv", "LimpetEvictHmacKey", "evict"}
  BY SlotCalls
<1>11. \/ x = Do("LimpetDestroyURI", s) /\ x.op = "LimpetDestroyURI"
       \/ x = Do("undefine nv", s) /\ x.op = "undefine nv"
       \/ x = Do("LimpetEvictHmacKey", s) /\ x.op = "LimpetEvictHmacKey"
       \/ x = Do("evict", s) /\ x.op = "evict"
  BY SlotCalls
<1>3. /\ x.op \in Watched /\ x.op # "latch" /\ x.op # "ignore" /\ x.op # "destroyed"
      /\ x.op \notin IdentityFunctions /\ x.op \notin KeyCalls
      /\ x.op # "get property" /\ x.op # "delete certificates" /\ x.op # "delete key"
      /\ x.op \notin {"set uri", "read name"}
  BY <1>2 DEF Watched, TrialOps, IdentityFunctions, KeyCalls
<1>4. ~UseRegistry("tool") /\ ~Latch("tool") /\ ~LatchFails("tool")
      /\ ~EnterIdentity("tool") /\ ~GetCertificateProperty("tool") /\ ~DeleteCertificates("tool")
      /\ ~DeleteKey("tool") /\ ~KeyCallFails("tool") /\ ~Ignore("tool") /\ ~Destroyed
  BY <1>1, <1>3 DEF UseRegistry, Latch, LatchFails, EnterIdentity, GetCertificateProperty,
     DeleteCertificates, DeleteKey, KeyCallFails, Ignore, Destroyed, At, Top
<1>5. ASSUME NEW w \in UriCall(s) \cup KeyCall(s), w \in UriCall(s) <=> x \in UriCall(s),
             store' = store, calls'["tool"] = <<w>> \o R, UNCHANGED <<useRegistry, toolVars>>
      PROVE  /\ useRegistry' = useRegistry /\ srk' = srk /\ ksp' = ksp
             /\ \/ /\ store' = store /\ x \in UriCall(s)
                   /\ \E v \in UriCall(s) : calls'["tool"] = <<v>> \o R
                \/ /\ store' = store /\ x \in KeyCall(s)
                   /\ \E v \in KeyCall(s) : calls'["tool"] = <<v>> \o R
  BY <1>5 DEF toolVars, identity
<1>6. CASE UNCHANGED toolVars /\ calls'["tool"] = calls["tool"] /\ UNCHANGED <<store, useRegistry>>
  <2>1. calls'["tool"] = <<x>> \o R
    BY <1>6
  <2> QED
    BY <1>5, <1>6, <2>1
<1>7. CASE UNCHANGED toolVars /\ Enter("tool")
  <2>1. /\ x.op \in Functions /\ calls' = [calls EXCEPT !["tool"] = Body(x) \o Tail(@)]
        /\ UNCHANGED <<store, useRegistry>>
    BY <1>1, <1>7 DEF Enter
  <2>2. calls'["tool"] = Body(x) \o R
    BY <1>0, <1>1, <2>1 DEF StackInv
  <2>3. x.op # "undefine nv" /\ x.op # "evict"
    <3>1. "undefine nv" \notin Functions /\ "evict" \notin Functions
      BY DEF Functions
    <3> QED
      BY <2>1, <3>1
  <2>4. ~InRegistry
    BY DEF InRegistry
  <2>5. CASE x = Do("LimpetDestroyURI", s) /\ x.op = "LimpetDestroyURI"
    <3>1. Body(x) = <<Do("undefine nv", s)>>
      BY <1>2, <2>4, <2>5 DEF Body, LimpetDestroyURI
    <3>2. Do("undefine nv", s) \in UriCall(s) /\ x \in UriCall(s)
      BY <2>5 DEF UriCall
    <3> QED
      BY <1>5, <1>7, <2>1, <2>2, <3>1, <3>2
  <2>6. CASE x = Do("LimpetEvictHmacKey", s) /\ x.op = "LimpetEvictHmacKey"
    <3>1. Body(x) = <<Do("evict", s)>>
      BY <1>2, <2>4, <2>6 DEF Body, LimpetEvictHmacKey
    <3>2. Do("evict", s) \in KeyCall(s) /\ x \in KeyCall(s)
      BY <2>6 DEF KeyCall
    <3>3. Do("evict", s) \notin UriCall(s) /\ x \notin UriCall(s)
      <4>1. \A u \in UriCall(s) : u.op = "LimpetDestroyURI" \/ u.op = "undefine nv"
        <5>1. /\ Do("LimpetDestroyURI", s).op = "LimpetDestroyURI"
              /\ Do("undefine nv", s).op = "undefine nv"
          BY Ops
        <5> QED
          BY <5>1 DEF UriCall
      <4>2. Do("evict", s).op = "evict"
        BY Ops
      <4>3. "evict" # "LimpetDestroyURI" /\ "evict" # "undefine nv"
            /\ "LimpetEvictHmacKey" # "LimpetDestroyURI" /\ "LimpetEvictHmacKey" # "undefine nv"
        OBVIOUS
      <4> QED
        BY <2>6, <4>1, <4>2, <4>3
    <3> QED
      BY <1>5, <1>7, <2>1, <2>2, <3>1, <3>2, <3>3
  <2> QED
    BY ONLY <1>11, <2>3, <2>5, <2>6
<1>8. CASE UNCHANGED toolVars /\ Single("tool")
  <2>1. /\ x.op \in SingleCalls /\ store' = [store EXCEPT ![s] = After(x, @)]
        /\ Returned("tool", TRUE) /\ useRegistry' = useRegistry
    BY <1>1, <1>2, <1>8 DEF Single
  <2>2. srk' = srk /\ ksp' = ksp /\ calls'["tool"] = R
    BY <1>1, <1>8, <2>1 DEF toolVars, identity
  <2>3. x.op # "LimpetDestroyURI" /\ x.op # "LimpetEvictHmacKey"
    <3>1. "LimpetDestroyURI" \notin SingleCalls /\ "LimpetEvictHmacKey" \notin SingleCalls
      BY DEF SingleCalls
    <3> QED
      BY <2>1, <3>1
  <2>4. store[s] = [f \in SlotFields |-> store[s][f]]
    BY DEF StoreFields
  <2>5. store'[s] = After(x, store[s])
    BY <1>0, <2>1
  <2>6. CASE x = Do("undefine nv", s) /\ x.op = "undefine nv"
    <3>1. After(x, store[s]) = [store[s] EXCEPT !.nv = None]
      BY <2>6 DEF After
    <3>2. store'[s].nv = None
      BY <2>4, <2>5, <3>1 DEF SlotFields
    <3>3. x \in UriCall(s)
      BY <2>6 DEF UriCall
    <3> QED
      BY <2>1, <2>2, <3>2, <3>3
  <2>7. CASE x = Do("evict", s) /\ x.op = "evict"
    <3>1. After(x, store[s]) = [store[s] EXCEPT !.key = None]
      BY <2>7 DEF After
    <3>2. store'[s].key = None /\ store'[s].nv = store[s].nv
      BY <2>4, <2>5, <3>1 DEF SlotFields
    <3>3. x \in KeyCall(s)
      BY <2>7 DEF KeyCall
    <3> QED
      BY <2>1, <2>2, <3>2, <3>3
  <2> QED
    BY ONLY <1>11, <2>3, <2>6, <2>7
<1>9. CASE UNCHANGED toolVars /\ SingleFails("tool")
  <2>1. /\ x.op \in SingleCalls
        /\ ~Works(x, store[s], held["tool"]) \/ faults' = faults + 1
        /\ useRegistry' = useRegistry /\ store' = store
    BY <1>1, <1>2, <1>9 DEF SingleFails, Fault
  <2>2. srk' = srk /\ ksp' = ksp
    BY <1>9 DEF toolVars, identity
  <2>0. calls'["tool"] = R
    <3>1. calls' = [calls EXCEPT !["tool"] =
                       IF Top("tool").op \in {"set uri", "read name"} THEN Tail(@)
                       ELSE Unwound(Tail(@))]
      BY <1>9 DEF SingleFails, Returned
    <3>2. Top("tool").op \notin {"set uri", "read name"}
      BY <1>1, <1>3
    <3>3. calls'["tool"] = Unwound(R)
      BY <1>0, <1>1, <3>1, <3>2 DEF StackInv
    <3> QED
      BY <3>3, SeesFirst
  <2>3. x.op # "LimpetDestroyURI" /\ x.op # "LimpetEvictHmacKey"
    <3>1. "LimpetDestroyURI" \notin SingleCalls /\ "LimpetEvictHmacKey" \notin SingleCalls
      BY DEF SingleCalls
    <3> QED
      BY <2>1, <3>1
  <2>6. CASE x = Do("undefine nv", s) /\ x.op = "undefine nv"
    <3>1. Works(x, store[s], held["tool"]) = (store[s].nv # None)
      BY <2>6 DEF Works
    <3>3. x \in UriCall(s)
      BY <2>6 DEF UriCall
    <3> QED
      BY <2>0, <2>1, <2>2, <3>1, <3>3
  <2>7. CASE x = Do("evict", s) /\ x.op = "evict"
    <3>1. Works(x, store[s], held["tool"]) = (store[s].key # None)
      BY <2>7 DEF Works
    <3>3. x \in KeyCall(s)
      BY <2>7 DEF KeyCall
    <3> QED
      BY <2>0, <2>1, <2>2, <3>1, <3>3
  <2> QED
    BY ONLY <1>11, <2>3, <2>6, <2>7
<1>10. Top("tool").op \in Watched
  BY <1>1, <1>3
<1>12. ~LooksFurther("tool")
  <2>1. Top("tool").op \notin {"read nv", "verify nv", "read certificate"}
    BY <1>1, <1>2
  <2> QED
    BY <2>1, LookingPlaces
<1> QED
  BY <1>0, <1>1, <1>4, <1>6, <1>7, <1>8, <1>9, <1>10, <1>12, WatchedMoves

-----------------------------------------------------------------------------
(* One part after another *)

LEMMA UriOrKey ==
  ASSUME NEW s
  PROVE  UriCall(s) \cap KeyCall(s) = {}
<1>1. \A x \in UriCall(s) : x.op = "LimpetDestroyURI" \/ x.op = "undefine nv"
  <2>1. Do("LimpetDestroyURI", s).op = "LimpetDestroyURI" /\ Do("undefine nv", s).op = "undefine nv"
    BY Ops
  <2> QED
    BY <2>1 DEF UriCall
<1>2. \A x \in KeyCall(s) : x.op = "LimpetEvictHmacKey" \/ x.op = "evict"
  <2>1. Do("LimpetEvictHmacKey", s).op = "LimpetEvictHmacKey" /\ Do("evict", s).op = "evict"
    BY Ops
  <2> QED
    BY <2>1 DEF KeyCall
<1>3. /\ "LimpetDestroyURI" # "LimpetEvictHmacKey" /\ "LimpetDestroyURI" # "evict"
      /\ "undefine nv" # "LimpetEvictHmacKey" /\ "undefine nv" # "evict"
  OBVIOUS
<1> QED
  BY <1>1, <1>2, <1>3

\* The parts are stacks, and only the last call is the one that looks.
LEMMA DestroyParts ==
  ASSUME NEW s, NEW x, NEW Q, NEW R, DestroyWork(s, x, Q, R)
  PROVE  /\ Quiet(Q) /\ IsStack(R)
         /\ x.op = "destroyed" =>
               /\ x.slot = s
               /\ NoUri(s) /\ NoHmacKey(s) /\ NoCert("RSA") /\ NoCert("ECDSA")
<1>1. Quiet(Q)
  <2>1. Q = << >> \/ \E a : CertWork(a, x, Q)
    BY DEF DestroyWork
  <2> QED
    BY <2>1, NoCall, CertIsQuiet
<1>2. IsStack(R)
  BY Rests DEF DestroyWork
<1>3. ASSUME x.op = "destroyed"
      PROVE  /\ x.slot = s
             /\ NoUri(s) /\ NoHmacKey(s) /\ NoCert("RSA") /\ NoCert("ECDSA")
  <2>1. /\ \A op : Do(op, s).op = op /\ Do(op, s).slot = s
    BY DEF Do, Call
  <2>2. /\ x # Do("LimpetDestroyURI", s) /\ x # Do("undefine nv", s)
        /\ x # Do("LimpetEvictHmacKey", s) /\ x # Do("evict", s)
    <3>1. /\ "LimpetDestroyURI" # "destroyed" /\ "undefine nv" # "destroyed"
          /\ "LimpetEvictHmacKey" # "destroyed" /\ "evict" # "destroyed"
      OBVIOUS
    <3> QED
      BY <1>3, <2>1, <3>1
  <2>3. ~CertWork("RSA", x, Q) /\ ~CertWork("ECDSA", x, Q)
    <3>1. "destroyed" \notin CertOps
      BY DEF CertOps
    <3> QED
      BY <1>3, <3>1, CertIsQuiet
  <2>4. x.slot = s
    BY <2>1, <2>2, <2>3 DEF DestroyWork
  <2>5. x # Do("ignore", s)
    <3>1. "ignore" # "destroyed"
      OBVIOUS
    <3> QED
      BY <1>3, <2>1, <3>1
  <2> QED
    BY <2>2, <2>3, <2>4, <2>5 DEF DestroyWork
<1> QED
  BY <1>1, <1>2, <1>3

\* The next call is one of the command's.
LEMMA Again ==
  ASSUME NEW s \in Slots, NEW x, NEW Q, NEW R, DestroyWork(s, x, Q, R)',
         calls'["tool"] = <<x>> \o (Q \o R)
  PROVE  DestroyStack'
BY DEF DestroyStack

LEMMA AgainAlone ==
  ASSUME NEW s \in Slots, NEW x, NEW R, DestroyWork(s, x, << >>, R)', IsStack(R),
         calls'["tool"] = <<x>> \o R
  PROVE  DestroyStack'
<1>1. << >> \o R = R
  BY NoCall
<1>2. calls'["tool"] = <<x>> \o (<< >> \o R)
  BY <1>1
<1> QED
  BY <1>2, Again

\* What is gone stays so while other things change.
LEMMA SlotKept ==
  ASSUME UNCHANGED <<store, useRegistry>>, NEW s
  PROVE  /\ NoUri(s) => NoUri(s)'
         /\ NoHmacKey(s) => NoHmacKey(s)'
BY DEF NoUri, NoHmacKey

LEMMA WorkKept ==
  ASSUME UNCHANGED <<store, useRegistry, srk, ksp>>, NEW s, NEW x, NEW Q, NEW R,
         DestroyWork(s, x, Q, R)
  PROVE  DestroyWork(s, x, Q, R)'
<1>1. \A a : NoCert(a) => NoCert(a)'
  BY DEF NoCert, LimpetReadDeviceId
<1>2. \A a : CertWork(a, x, Q)' <=> CertWork(a, x, Q)
  BY DEF CertWork
<1> QED
  BY <1>1, <1>2, SlotKept DEF DestroyWork

\* The calls of the slot, first those of its URI.
LEMMA UriPart ==
  ASSUME StackInv, OthersQuiet, StoreFields, scenario.commands # {}, AllNext, useRegistry = "no",
         NEW s \in Slots, NEW x \in UriCall(s), calls["tool"] = <<x>> \o Rest0(s)
  PROVE  faults' = faults + 1 \/ DestroyStack'
<1>1. Sees(Rest0(s)) /\ IsStack(Rest0(s)) /\ IsStack(<<Do("LimpetEvictHmacKey", s)>> \o Rest1(s))
  BY Rests
<1>2. x \notin KeyCall(s)
  BY UriOrKey
<1>3. CASE calls'["tool"] = << >>
  BY <1>3, FreeEmpty DEF DestroyStack
<1>4. ASSUME useRegistry' = useRegistry, NEW w \in UriCall(s), calls'["tool"] = <<w>> \o Rest0(s)
      PROVE  DestroyStack'
  <2>1. DestroyWork(s, w, << >>, Rest0(s))'
    BY <1>4 DEF DestroyWork, UriCall
  <2> QED
    BY <1>1, <1>4, <2>1, AgainAlone
<1>5. ASSUME useRegistry' = useRegistry, calls'["tool"] = Rest0(s), store'[s].nv = None
      PROVE  DestroyStack'
  <2>1. NoUri(s)'
    BY <1>5 DEF NoUri
  <2> DEFINE V == <<Do("LimpetEvictHmacKey", s)>> \o Rest1(s)
             w == Do("ignore", s)
  <2>2. DestroyWork(s, w, << >>, V)'
    BY <2>1 DEF DestroyWork
  <2>3. IsStack(V) /\ calls'["tool"] = <<w>> \o V
    BY <1>1, <1>5 DEF Rest0
  <2> HIDE DEF V, w
  <2> QED
    BY <2>2, <2>3, AgainAlone
<1> QED
  BY <1>1, <1>2, <1>3, <1>4, <1>5, SlotStep

LEMMA KeyPart ==
  ASSUME StackInv, OthersQuiet, StoreFields, scenario.commands # {}, AllNext, useRegistry = "no",
         NEW s \in Slots, NEW x \in KeyCall(s), calls["tool"] = <<x>> \o Rest1(s), NoUri(s)
  PROVE  faults' = faults + 1 \/ DestroyStack'
<1>1. /\ Sees(Rest1(s)) /\ IsStack(Rest1(s))
      /\ IsStack(<<On("LimpetDestroyIdentityCert", "RSA")>> \o Rest2(s))
  BY Rests
<1>2. x \notin UriCall(s)
  BY UriOrKey
<1>3. CASE calls'["tool"] = << >>
  BY <1>3, FreeEmpty DEF DestroyStack
<1>4. ASSUME useRegistry' = useRegistry, store' = store, NEW w \in KeyCall(s),
             calls'["tool"] = <<w>> \o Rest1(s)
      PROVE  DestroyStack'
  <2>1. NoUri(s)'
    BY <1>4, SlotKept
  <2>2. DestroyWork(s, w, << >>, Rest1(s))'
    BY <1>4, <2>1 DEF DestroyWork, KeyCall
  <2> QED
    BY <1>1, <1>4, <2>2, AgainAlone
<1>5. ASSUME useRegistry' = useRegistry, calls'["tool"] = Rest1(s), store'[s].key = None,
             store'[s].nv = store[s].nv
      PROVE  DestroyStack'
  <2>1. NoUri(s)' /\ NoHmacKey(s)'
    BY <1>5 DEF NoUri, NoHmacKey
  <2> DEFINE V == <<On("LimpetDestroyIdentityCert", "RSA")>> \o Rest2(s)
             w == Do("ignore", s)
  <2>2. DestroyWork(s, w, << >>, V)'
    BY <2>1 DEF DestroyWork
  <2>3. IsStack(V) /\ calls'["tool"] = <<w>> \o V
    BY <1>1, <1>5 DEF Rest1
  <2> HIDE DEF V, w
  <2> QED
    BY <2>2, <2>3, AgainAlone
<1>6. \/ faults' = faults + 1
      \/ calls'["tool"] = << >>
      \/ /\ useRegistry' = useRegistry
         /\ \/ store' = store /\ \E w \in KeyCall(s) : calls'["tool"] = <<w>> \o Rest1(s)
            \/ /\ calls'["tool"] = Rest1(s) /\ store'[s].key = None
               /\ store'[s].nv = store[s].nv
  BY <1>1, <1>2, SlotStep
<1> QED
  BY <1>3, <1>4, <1>5, <1>6

\* Then those that destroy the certificates, RSA first.
LEMMA RsaPart ==
  ASSUME StackInv, OthersQuiet, StoreFields, scenario.commands # {}, AllNext, KeyFacts,
         useRegistry = "no", NEW s \in Slots, NEW x, NEW Q, CertWork("RSA", x, Q),
         calls["tool"] = <<x>> \o (Q \o Rest2(s)), NoUri(s), NoHmacKey(s)
  PROVE  faults' = faults + 1 \/ DestroyStack'
<1>1. /\ Sees(Rest2(s)) /\ "RSA" \in Algorithms /\ store = [t \in Slots |-> store[t]]
      /\ IsStack(<<On("LimpetDestroyIdentityCert", "ECDSA")>> \o Rest3(s))
  BY Rests, ToolParametersOK DEF StoreFields
<1>2. CASE calls'["tool"] = << >>
  BY <1>2, FreeEmpty DEF DestroyStack
<1>3. ASSUME UNCHANGED <<store, useRegistry>>, NEW w, NEW W, CertWork("RSA", w, W),
             calls'["tool"] = <<w>> \o (W \o Rest2(s))
      PROVE  DestroyStack'
  <2>1. NoUri(s)' /\ NoHmacKey(s)' /\ CertWork("RSA", w, W)'
    BY <1>3, SlotKept DEF CertWork
  <2>2. DestroyWork(s, w, W, Rest2(s))'
    BY <2>1 DEF DestroyWork
  <2> QED
    BY <1>3, <2>2, Again
<1>4. ASSUME UNCHANGED <<store, useRegistry>>, calls'["tool"] = Rest2(s), NoCert("RSA")'
      PROVE  DestroyStack'
  <2>1. NoUri(s)' /\ NoHmacKey(s)'
    BY <1>4, SlotKept
  <2> DEFINE V == <<On("LimpetDestroyIdentityCert", "ECDSA")>> \o Rest3(s)
             w == Do("ignore", s)
  <2>2. DestroyWork(s, w, << >>, V)'
    BY <1>4, <2>1 DEF DestroyWork
  <2>3. IsStack(V) /\ calls'["tool"] = <<w>> \o V
    BY <1>1, <1>4 DEF Rest2
  <2> HIDE DEF V, w
  <2> QED
    BY <2>2, <2>3, AgainAlone
<1>0. PICK R : R = Rest2(s)
  OBVIOUS
<1>5. \/ faults' = faults + 1
      \/ calls'["tool"] = << >>
      \/ /\ UNCHANGED <<store, useRegistry>>
         /\ \A b \in Algorithms : ksp[<<srk, b>>].cert = None => ksp'[<<srk', b>>].cert = None
         /\ \/ calls'["tool"] = R /\ ksp'[<<srk', "RSA">>].cert = None
            \/ AtPart("RSA", calls'["tool"], R)
  <2>1. Sees(R) /\ calls["tool"] = <<x>> \o (Q \o R) /\ "RSA" \in Algorithms
    BY <1>0, <1>1
  <2>2. store = [t \in Slots |-> store[t]]
    BY <1>1
  <2> QED
    BY ONLY StackInv, OthersQuiet, <2>1, <2>2, scenario.commands # {}, AllNext, KeyFacts,
            useRegistry = "no", CertWork("RSA", x, Q), CertStep
<1>6. ksp'[<<srk', "RSA">>].cert = None => NoCert("RSA")'
  BY DEF NoCert, LimpetReadDeviceId
<1> QED
  BY <1>0, <1>2, <1>3, <1>4, <1>5, <1>6 DEF AtPart

LEMMA EcdsaPart ==
  ASSUME StackInv, OthersQuiet, StoreFields, scenario.commands # {}, AllNext, KeyFacts,
         useRegistry = "no", NEW s \in Slots, NEW x, NEW Q, CertWork("ECDSA", x, Q),
         calls["tool"] = <<x>> \o (Q \o Rest3(s)), NoUri(s), NoHmacKey(s), NoCert("RSA")
  PROVE  faults' = faults + 1 \/ DestroyStack'
<1>1. /\ Sees(Rest3(s)) /\ "RSA" \in Algorithms /\ "ECDSA" \in Algorithms
      /\ store = [t \in Slots |-> store[t]] /\ IsStack(<<Do("destroyed", s)>> \o Ending)
  BY Rests, ToolParametersOK DEF StoreFields
<1>2. CASE calls'["tool"] = << >>
  BY <1>2, FreeEmpty DEF DestroyStack
<1>3. ASSUME UNCHANGED <<store, useRegistry>>, NoCert("RSA")', NEW w, NEW W, CertWork("ECDSA", w, W),
             calls'["tool"] = <<w>> \o (W \o Rest3(s))
      PROVE  DestroyStack'
  <2>1. NoUri(s)' /\ NoHmacKey(s)' /\ CertWork("ECDSA", w, W)'
    BY <1>3, SlotKept DEF CertWork
  <2>2. DestroyWork(s, w, W, Rest3(s))'
    BY <1>3, <2>1 DEF DestroyWork
  <2> QED
    BY <1>3, <2>2, Again
<1>4. ASSUME UNCHANGED <<store, useRegistry>>, calls'["tool"] = Rest3(s), NoCert("RSA")',
             NoCert("ECDSA")'
      PROVE  DestroyStack'
  <2>1. NoUri(s)' /\ NoHmacKey(s)'
    BY <1>4, SlotKept
  <2> DEFINE V == <<Do("destroyed", s)>> \o Ending
             w == Do("ignore", s)
  <2>2. DestroyWork(s, w, << >>, V)'
    BY <1>4, <2>1 DEF DestroyWork
  <2>3. IsStack(V) /\ calls'["tool"] = <<w>> \o V
    BY <1>1, <1>4 DEF Rest3
  <2> HIDE DEF V, w
  <2> QED
    BY <2>2, <2>3, AgainAlone
<1>0. PICK R : R = Rest3(s)
  OBVIOUS
<1>5. \/ faults' = faults + 1
      \/ calls'["tool"] = << >>
      \/ /\ UNCHANGED <<store, useRegistry>>
         /\ \A b \in Algorithms : ksp[<<srk, b>>].cert = None => ksp'[<<srk', b>>].cert = None
         /\ \/ calls'["tool"] = R /\ ksp'[<<srk', "ECDSA">>].cert = None
            \/ AtPart("ECDSA", calls'["tool"], R)
  <2>1. Sees(R) /\ calls["tool"] = <<x>> \o (Q \o R) /\ "ECDSA" \in Algorithms
    BY <1>0, <1>1
  <2>2. store = [t \in Slots |-> store[t]]
    BY <1>1
  <2> QED
    BY ONLY StackInv, OthersQuiet, <2>1, <2>2, scenario.commands # {}, AllNext, KeyFacts,
            useRegistry = "no", CertWork("ECDSA", x, Q), CertStep
<1>6. ksp'[<<srk', "ECDSA">>].cert = None => NoCert("ECDSA")'
  BY DEF NoCert, LimpetReadDeviceId
<1>7. (\A b \in Algorithms : ksp[<<srk, b>>].cert = None => ksp'[<<srk', b>>].cert = None)
         => NoCert("RSA")'
  BY <1>1 DEF NoCert, LimpetReadDeviceId
<1> QED
  BY <1>0, <1>2, <1>3, <1>4, <1>5, <1>6, <1>7 DEF AtPart

\* A step past a result that is not looked at, to the next part.
LEMMA NextPart ==
  ASSUME StackInv, OthersQuiet, StoreFields, scenario.commands # {}, AllNext, useRegistry = "no",
         NEW s \in Slots, NEW R, DestroyWork(s, Do("ignore", s), << >>, R), IsStack(R),
         calls["tool"] = <<Do("ignore", s)>> \o R,
         NEW z, NEW V, R = <<z>> \o V, IsStack(V),
         UNCHANGED <<store, useRegistry, srk, ksp>> => DestroyWork(s, z, << >>, V)'
  PROVE  faults' = faults + 1 \/ DestroyStack'
<1>1. PICK x : x = Do("ignore", s) /\ x.op \in {"ignore", "destroyed"}
  BY Ops
<1>2. store = [t \in Slots |-> store[t]] /\ calls["tool"] = <<x>> \o R
  BY <1>1 DEF StoreFields
<1>3. \/ calls'["tool"] = << >>
      \/ /\ UNCHANGED <<store, useRegistry, srk, ksp>>
         /\ calls'["tool"] = R \/ calls'["tool"] = calls["tool"]
  BY ONLY StackInv, OthersQuiet, <1>1, <1>2, scenario.commands # {}, AllNext, useRegistry = "no",
          IsStack(R), IgnoreStep
<1>4. CASE calls'["tool"] = << >>
  BY <1>4, FreeEmpty DEF DestroyStack
<1>5. CASE UNCHANGED <<store, useRegistry, srk, ksp>> /\ calls'["tool"] = R
  BY <1>5, AgainAlone
<1>6. CASE UNCHANGED <<store, useRegistry, srk, ksp>> /\ calls'["tool"] = calls["tool"]
  <2>1. DestroyWork(s, x, << >>, R)'
    BY <1>1, <1>6, WorkKept
  <2>2. calls'["tool"] = <<x>> \o R
    BY <1>2, <1>6
  <2> QED
    BY <2>1, <2>2, AgainAlone
<1> QED
  BY <1>3, <1>4, <1>5, <1>6

-----------------------------------------------------------------------------
(* The whole command *)

\* What only has the last call left has no other to look at.
LEMMA OutputIsFree == Free(Ending, {"destroyed"})
<1>1. On("output", None).op = "output"
  BY Ops
<1>2. "output" \notin {"destroyed"}
  OBVIOUS
<1> QED
  BY <1>1, <1>2, FreeOne DEF Ending

\* The last of the calls looks at what is left.
LEMMA LastPart ==
  ASSUME StackInv, OthersQuiet, StoreFields, scenario.commands # {}, AllNext, useRegistry = "no",
         NEW s \in Slots, DestroyWork(s, Do("destroyed", s), << >>, Ending),
         calls["tool"] = <<Do("destroyed", s)>> \o Ending
  PROVE  DestroyStack'
<1>1. PICK x : x = Do("destroyed", s) /\ x.op \in {"ignore", "destroyed"}
  BY Ops
<1>0. PICK R : R = Ending
  OBVIOUS
<1>2. store = [t \in Slots |-> store[t]] /\ calls["tool"] = <<x>> \o R
  BY <1>0, <1>1 DEF StoreFields
<1>3. IsStack(R)
  BY <1>0, Rests
<1>4. \/ calls'["tool"] = << >>
      \/ /\ UNCHANGED <<store, useRegistry, srk, ksp>>
         /\ calls'["tool"] = R \/ calls'["tool"] = calls["tool"]
  BY ONLY StackInv, OthersQuiet, <1>1, <1>2, scenario.commands # {}, AllNext, useRegistry = "no",
          IsStack(R), IgnoreStep
<1>5. CASE calls'["tool"] = << >> \/ calls'["tool"] = R
  BY <1>0, <1>5, FreeEmpty, OutputIsFree DEF DestroyStack
<1>6. CASE UNCHANGED <<store, useRegistry, srk, ksp>> /\ calls'["tool"] = calls["tool"]
  <2>1. DestroyWork(s, x, << >>, R)'
    BY <1>0, <1>1, <1>6, WorkKept
  <2>2. calls'["tool"] = <<x>> \o R
    BY <1>2, <1>6
  <2> QED
    BY <1>3, <2>1, <2>2, AgainAlone
<1> QED
  BY <1>4, <1>5, <1>6

\* One call after another of a logical device that is destroyed in the TPM.
LEMMA DestroyStep ==
  ASSUME StackInv, OthersQuiet, StoreFields, scenario.commands # {}, AllNext, KeyFacts,
         useRegistry = "no", NEW s \in Slots, NEW x, NEW Q, NEW R, DestroyWork(s, x, Q, R),
         calls["tool"] = <<x>> \o (Q \o R)
  PROVE  faults' = faults + 1 \/ DestroyStack'
<1>1. IsStack(R) /\ << >> \o R = R
  BY DestroyParts, NoCall
<1>2. Q = << >> => calls["tool"] = <<x>> \o R
  BY <1>1
<1>3. \A a : UNCHANGED <<srk, ksp>> /\ NoCert(a) => ksp'[<<srk', a>>].cert = None
  BY DEF NoCert, LimpetReadDeviceId
<1>4. ASSUME Q = << >>, x = Do("ignore", s), NEW z, NEW V, R = <<z>> \o V, IsStack(V),
             UNCHANGED <<store, useRegistry, srk, ksp>> => DestroyWork(s, z, << >>, V)'
      PROVE  faults' = faults + 1 \/ DestroyStack'
  <2>1. DestroyWork(s, Do("ignore", s), << >>, R) /\ calls["tool"] = <<Do("ignore", s)>> \o R
    BY <1>2, <1>4
  <2> QED
    BY ONLY StackInv, OthersQuiet, StoreFields, scenario.commands # {}, AllNext,
            useRegistry = "no", <1>1, <1>4, <2>1, NextPart
<1>5. CASE Q = << >> /\ R = Rest0(s) /\ x \in UriCall(s)
  BY <1>2, <1>5, UriPart
<1>6. CASE /\ NoUri(s) /\ Q = << >> /\ x = Do("ignore", s)
           /\ R = <<Do("LimpetEvictHmacKey", s)>> \o Rest1(s)
  <2>1. PICK z, V : z = Do("LimpetEvictHmacKey", s) /\ V = Rest1(s)
    OBVIOUS
  <2>2. UNCHANGED <<store, useRegistry, srk, ksp>> => DestroyWork(s, z, << >>, V)'
    BY <1>6, <2>1, SlotKept DEF DestroyWork
  <2>3. R = <<z>> \o V /\ IsStack(V)
    BY <1>6, <2>1, Rests
  <2> QED
    BY <1>4, <1>6, <2>2, <2>3
<1>7. CASE NoUri(s) /\ Q = << >> /\ R = Rest1(s) /\ x \in KeyCall(s)
  BY <1>2, <1>7, KeyPart
<1>8. CASE /\ NoUri(s) /\ NoHmacKey(s) /\ Q = << >> /\ x = Do("ignore", s)
           /\ R = <<On("LimpetDestroyIdentityCert", "RSA")>> \o Rest2(s)
  <2>1. PICK z, V : z = On("LimpetDestroyIdentityCert", "RSA") /\ V = Rest2(s)
    OBVIOUS
  <2>0. CertWork("RSA", z, << >>)'
    BY <2>1 DEF CertWork
  <2>2. UNCHANGED <<store, useRegistry, srk, ksp>> => DestroyWork(s, z, << >>, V)'
    BY <1>8, <2>0, <2>1, SlotKept DEF DestroyWork
  <2>3. R = <<z>> \o V /\ IsStack(V)
    BY <1>8, <2>1, Rests
  <2> QED
    BY <1>4, <1>8, <2>2, <2>3
<1>9. CASE NoUri(s) /\ NoHmacKey(s) /\ CertWork("RSA", x, Q) /\ R = Rest2(s)
  BY <1>9, RsaPart
<1>10. CASE /\ NoUri(s) /\ NoHmacKey(s) /\ NoCert("RSA") /\ Q = << >> /\ x = Do("ignore", s)
            /\ R = <<On("LimpetDestroyIdentityCert", "ECDSA")>> \o Rest3(s)
  <2>1. PICK z, V : z = On("LimpetDestroyIdentityCert", "ECDSA") /\ V = Rest3(s)
    OBVIOUS
  <2>0. CertWork("ECDSA", z, << >>)'
    BY <2>1 DEF CertWork
  <2>4. UNCHANGED <<store, useRegistry, srk, ksp>> => NoCert("RSA")'
    BY <1>10 DEF NoCert, LimpetReadDeviceId
  <2>2. UNCHANGED <<store, useRegistry, srk, ksp>> => DestroyWork(s, z, << >>, V)'
    BY <1>10, <2>0, <2>1, <2>4, SlotKept DEF DestroyWork
  <2>3. R = <<z>> \o V /\ IsStack(V)
    BY <1>10, <2>1, Rests
  <2> QED
    BY <1>4, <1>10, <2>2, <2>3
<1>11. CASE /\ NoUri(s) /\ NoHmacKey(s) /\ NoCert("RSA") /\ CertWork("ECDSA", x, Q)
            /\ R = Rest3(s)
  BY <1>11, EcdsaPart
<1>12. CASE /\ NoUri(s) /\ NoHmacKey(s) /\ NoCert("RSA") /\ NoCert("ECDSA")
            /\ Q = << >> /\ x = Do("ignore", s) /\ R = <<Do("destroyed", s)>> \o Ending
  <2>1. PICK z, V : z = Do("destroyed", s) /\ V = Ending
    OBVIOUS
  <2>4. UNCHANGED <<store, useRegistry, srk, ksp>> => NoCert("RSA")' /\ NoCert("ECDSA")'
    BY <1>12 DEF NoCert, LimpetReadDeviceId
  <2>5. V = Ending'
    BY <2>1 DEF Ending, On
  <2>2. UNCHANGED <<store, useRegistry, srk, ksp>> => DestroyWork(s, z, << >>, V)'
    BY <1>12, <2>1, <2>4, <2>5, SlotKept DEF DestroyWork
  <2>3. R = <<z>> \o V /\ IsStack(V)
    BY <1>12, <2>1, Rests
  <2> QED
    BY <1>4, <1>12, <2>2, <2>3
<1>13. CASE /\ NoUri(s) /\ NoHmacKey(s) /\ NoCert("RSA") /\ NoCert("ECDSA")
            /\ Q = << >> /\ x = Do("destroyed", s) /\ R = Ending
  BY <1>2, <1>13, LastPart
<1> QED
  BY <1>5, <1>6, <1>7, <1>8, <1>9, <1>10, <1>11, <1>12, <1>13 DEF DestroyWork, UriCall, KeyCall

\* The first call of a command before the trial is made.
LEMMA UntriedStep ==
  ASSUME StackInv, OthersQuiet, StoreFields, scenario.commands # {}, AllNext,
         useRegistry = "unset", NEW s \in Slots, NEW x, NEW Q, NEW R, DestroyWork(s, x, Q, R),
         calls["tool"] = <<x>> \o (Q \o R)
  PROVE  DestroyStack'
<1>0. PICK z, V : z = Do("LimpetDestroyURI", s) /\ V = Rest0(s)
  OBVIOUS
<1>1. x = z /\ Q = << >> /\ R = V /\ z.op = "LimpetDestroyURI" /\ z.slot = s
  <2>1. z.op = "LimpetDestroyURI" /\ z.slot = s
    BY <1>0 DEF Do, Call
  <2> QED
    BY <1>0, <2>1 DEF DestroyWork, NoUri
<1>2. IsStack(V) /\ << >> \o V = V
  BY <1>0, Rests, NoCall
<1>3. calls["tool"] = <<z>> \o V
  BY <1>1, <1>2
<1>4. calls["tool"] # << >> /\ Top("tool") = z
  BY <1>2, <1>3, CallAlone
<1>5. /\ z.op \in Watched /\ z.op \notin SingleCalls /\ z.op \notin IdentityFunctions
      /\ z.op \notin KeyCalls /\ z.op # "latch" /\ z.op # "get property" /\ z.op # "ignore"
      /\ z.op # "delete certificates" /\ z.op # "delete key" /\ z.op # "destroyed"
  BY <1>1 DEF Watched, SingleCalls, IdentityFunctions, KeyCalls
<1>6. ~Latch("tool") /\ ~LatchFails("tool") /\ ~Enter("tool")
      /\ ~Single("tool") /\ ~LooksFurther("tool") /\ ~SingleFails("tool")
      /\ ~EnterIdentity("tool") /\ ~Ignore("tool")
      /\ ~GetCertificateProperty("tool") /\ ~DeleteCertificates("tool") /\ ~DeleteKey("tool")
      /\ ~KeyCallFails("tool") /\ ~Destroyed
  BY <1>4, <1>5 DEF Latch, LatchFails, Enter, Single, LooksFurther, SingleFails, EnterIdentity, Ignore,
     GetCertificateProperty, DeleteCertificates, DeleteKey, KeyCallFails, Destroyed, At, Top
<1>7. CASE calls'["tool"] = << >>
  BY <1>7, FreeEmpty DEF DestroyStack
<1>8. CASE calls'["tool"] = calls["tool"]
  <2>1. DestroyWork(s, z, << >>, V)'
    BY <1>0 DEF DestroyWork, Rest0, Rest1, Rest2, Rest3, Ending, Do, On, Call
  <2>2. calls'["tool"] = <<z>> \o V
    BY <1>3, <1>8
  <2> QED
    BY <1>2, <2>1, <2>2, AgainAlone
<1>9. CASE UseRegistry("tool")
  <2>1. useRegistry' = "unset"
    BY <1>9, TrialBegins
  <2>2. PICK T : InTrial(T) /\ calls'["tool"] = T \o (<<Do("latch", s)>> \o calls["tool"])
    BY <1>1, <1>4, <1>9, TrialBegins
  <2>3. calls'["tool"] = T \o (<<Do("latch", s)>> \o (<<Do("LimpetDestroyURI", s)>> \o Rest0(s)))
    BY <1>0, <1>3, <2>2
  <2> QED
    BY <2>1, <2>2, <2>3 DEF DestroyStack
<1>10. store = [t \in Slots |-> store[t]] /\ Top("tool").op \in Watched
  BY <1>4, <1>5 DEF StoreFields
<1> QED
  BY <1>4, <1>6, <1>7, <1>8, <1>9, <1>10, WatchedMoves

\* The trial in front of a command, to the call it is made for.
LEMMA TriedStep ==
  ASSUME StackInv, OthersQuiet, StoreFields, scenario.commands # {}, AllNext,
         useRegistry = "unset", NEW s \in Slots, NEW T, InTrial(T),
         calls["tool"] = T \o (<<Do("latch", s)>> \o (<<Do("LimpetDestroyURI", s)>> \o Rest0(s)))
  PROVE  faults' = faults + 1 \/ useRegistry' = "yes" \/ DestroyStack'
<1>1. PICK y, R : y = Do("latch", s) /\ R = <<Do("LimpetDestroyURI", s)>> \o Rest0(s)
  OBVIOUS
<1>2. y.op = "latch"
  BY <1>1, Ops
<1>3. IsStack(R)
  <2>1. PICK u, v : u = <<Do("LimpetDestroyURI", s)>> /\ v = Rest0(s)
    OBVIOUS
  <2>2. IsStack(u) /\ IsStack(v)
    BY <2>1, Rests, OneCall
  <2>3. IsStack(u \o v)
    BY ONLY <2>2, PushedOnStack
  <2> QED
    BY <1>1, <2>1, <2>3
<1>4. store = [t \in Slots |-> store[t]]
  BY DEF StoreFields
<1>5. calls["tool"] = T \o (<<y>> \o R)
  BY <1>1
<1>6. \/ /\ useRegistry' = useRegistry
         /\ \E U : InTrial(U) /\ calls'["tool"] = U \o (<<y>> \o R)
      \/ calls'["tool"] = << >> /\ useRegistry' = useRegistry
      \/ calls'["tool"] = R /\ useRegistry' \in {"no", "yes"}
      \/ /\ calls'["tool"] = From(R, Handlers \ {"ignore"})
         /\ useRegistry' = useRegistry /\ faults' = faults + 1
  BY ONLY StackInv, OthersQuiet, <1>4, scenario.commands # {}, AllNext, useRegistry = "unset",
          InTrial(T), <1>2, <1>3, <1>5, TrialStep
<1>7. CASE /\ useRegistry' = useRegistry
           /\ \E U : InTrial(U) /\ calls'["tool"] = U \o (<<y>> \o R)
  <2>1. PICK U : InTrial(U) /\ calls'["tool"] = U \o (<<y>> \o R)
    BY <1>7
  <2>2. useRegistry' = "unset"
    BY <1>7
  <2>3. calls'["tool"] = U \o (<<Do("latch", s)>> \o (<<Do("LimpetDestroyURI", s)>> \o Rest0(s)))
    BY <1>1, <2>1
  <2> QED
    BY <2>1, <2>2, <2>3 DEF DestroyStack
<1>8. CASE calls'["tool"] = << >>
  BY <1>8, FreeEmpty DEF DestroyStack
<1>9. CASE calls'["tool"] = R
  <2>1. PICK z, V : z = Do("LimpetDestroyURI", s) /\ V = Rest0(s)
    OBVIOUS
  <2>2. DestroyWork(s, z, << >>, V)'
    BY <2>1 DEF DestroyWork, Rest0, Rest1, Rest2, Rest3, Ending, Do, On, Call
  <2>3. calls'["tool"] = <<z>> \o V /\ IsStack(V)
    BY <1>1, <1>9, <2>1, Rests
  <2> QED
    BY <2>2, <2>3, AgainAlone
<1> QED
  BY <1>6, <1>7, <1>8, <1>9

\* The choice is one of the three values all along.
LEMMA ModesKept ==
  ASSUME StackInv, OthersQuiet, StoreFields, scenario.commands # {}, AllNext,
         useRegistry \in {"unset", "no", "yes"}
  PROVE  useRegistry' \in {"unset", "no", "yes"}
<1>1. store = [t \in Slots |-> store[t]]
  BY DEF StoreFields
<1>2. Latch("tool") => useRegistry' \in {"no", "yes"}
  BY DEF Latch
<1>3. CASE Next /\ UNCHANGED toolVars
  BY <1>1, <1>2, <1>3, OthersStep, ToolAlone
<1> QED
  BY <1>2, <1>3, ToolAlone, Steps

\* What has no such call gets one only where the tool starts.
LEMMA FreeOfDestroyed ==
  ASSUME StackInv, AllNext, Free(calls["tool"], {"destroyed"})
  PROVE  Free(calls'["tool"], {"destroyed"}) \/ Wmain
<1> DEFINE L == {"destroyed"}
<1>1. L \cap BodyOps = {} /\ Closed(L) /\ L \cap Inner = {} /\ L \cap LibraryOps = {}
  <2>1. /\ "destroyed" \notin BodyOps /\ "destroyed" \notin FileOps /\ "destroyed" \notin Inner
        /\ "destroyed" \notin LibraryOps
    BY DEF BodyOps, SingleCalls, Functions, FileOps, Inner, LibraryOps, Handlers, LibraryHandlers
  <2>2. "encrypt" \notin L
    OBVIOUS
  <2> QED
    BY <2>1, <2>2 DEF Closed
<1>2. Free(calls["tool"], L)
  OBVIOUS
<1> HIDE DEF L
<1>3. CASE Next
  <2>1. calls'["tool"] = calls["tool"] \/ Rebuilt
    BY <1>3, DeviceEffect DEF Effect
  <2>2. Free(calls'["tool"], L)
    BY <1>1, <1>2, <2>1 DEF Rebuilt
  <2> QED
    BY <2>2 DEF L
<1>4. CASE ToolStep
  <2>1. Free(calls'["tool"], L)
    BY <1>1, <1>2, <1>4, ToolEffect DEF StepEffect
  <2> QED
    BY <2>1 DEF L
<1>5. CASE IdentityCall("tool")
  <2>1. Free(calls'["tool"], L)
    BY <1>1, <1>2, <1>5, IdentityEffect
  <2> QED
    BY <2>1 DEF L
<1> QED
  BY <1>3, <1>4, <1>5, Steps

-----------------------------------------------------------------------------
(* Its start, and the invariant *)

\* A call before the others.
LEMMA Before ==
  ASSUME NEW S, NEW q \in Seq(S), NEW x \in S
  PROVE  /\ <<x>> \o q \in Seq(S) /\ Len(<<x>> \o q) = Len(q) + 1 /\ (<<x>> \o q)[1] = x
         /\ \A i \in 1 .. Len(q) : (<<x>> \o q)[i + 1] = q[i]
<1>0. PICK c : c = <<x>> \o q
  OBVIOUS
<1>1. PICK p : p = <<x>>
  OBVIOUS
<1>2. p \in Seq(S) /\ Len(p) = 1 /\ p[1] = x /\ Len(q) \in Nat /\ c = p \o q
  BY <1>0, <1>1
<1>3. /\ c \in Seq(S) /\ Len(c) = Len(p) + Len(q)
      /\ \A i \in 1 .. Len(p) + Len(q) : c[i] = IF i <= Len(p) THEN p[i] ELSE q[i - Len(p)]
  BY <1>2, ConcatProperties
<1>4. ASSUME NEW i \in 1 .. Len(q)
      PROVE  c[i + 1] = q[i]
  <2>1. i + 1 \in 1 .. Len(p) + Len(q) /\ ~(i + 1 <= Len(p)) /\ (i + 1) - Len(p) = i
    BY <1>2
  <2> QED
    BY <1>3, <2>1
<1> QED
  BY <1>0, <1>2, <1>3, <1>4

\* The calls of the command are its parts, one after the other.
LEMMA Parts ==
  ASSUME NEW a1, NEW a2, NEW a3, NEW a4, NEW a5, NEW a6, NEW a7, NEW a8, NEW a9, NEW o
  PROVE  <<a1, a2, a3, a4, a5, a6, a7, a8, a9>> \o <<o>>
           = <<a1>> \o (<<a2>> \o (<<a3>> \o (<<a4>> \o (<<a5>> \o (<<a6>> \o (<<a7>> \o
                 (<<a8>> \o (<<a9>> \o <<o>>))))))))
<1>1. PICK S : S = {a1, a2, a3, a4, a5, a6, a7, a8, a9, o}
  OBVIOUS
<1>2. /\ a1 \in S /\ a2 \in S /\ a3 \in S /\ a4 \in S /\ a5 \in S /\ a6 \in S /\ a7 \in S
      /\ a8 \in S /\ a9 \in S /\ o \in S
  BY <1>1
<1>3. PICK c0 : c0 = <<o>>
  OBVIOUS
<1>4. c0 \in Seq(S) /\ Len(c0) = 1 /\ c0[1] = o
  BY <1>2, <1>3
<1>5. PICK c1 : c1 = <<a9>> \o c0
  OBVIOUS
<1>6. /\ c1 \in Seq(S) /\ Len(c1) = 2
      /\ c1[1] = a9 /\ c1[2] = o
  <2>1. a9 \in S /\ c0 \in Seq(S)
    BY <1>2, <1>4
  <2>2. /\ <<a9>> \o c0 \in Seq(S) /\ Len(<<a9>> \o c0) = Len(c0) + 1
        /\ (<<a9>> \o c0)[1] = a9
        /\ \A i \in 1 .. Len(c0) : (<<a9>> \o c0)[i + 1] = c0[i]
    BY ONLY <2>1, Before
  <2>3. /\ c1 \in Seq(S) /\ Len(c1) = Len(c0) + 1 /\ c1[1] = a9
        /\ \A i \in 1 .. Len(c0) : c1[i + 1] = c0[i]
    BY ONLY <1>5, <2>2
  <2> QED
    BY ONLY <1>4, <2>3
<1>7. PICK c2 : c2 = <<a8>> \o c1
  OBVIOUS
<1>8. /\ c2 \in Seq(S) /\ Len(c2) = 3
      /\ c2[1] = a8 /\ c2[2] = a9 /\ c2[3] = o
  <2>1. a8 \in S /\ c1 \in Seq(S)
    BY <1>2, <1>6
  <2>2. /\ <<a8>> \o c1 \in Seq(S) /\ Len(<<a8>> \o c1) = Len(c1) + 1
        /\ (<<a8>> \o c1)[1] = a8
        /\ \A i \in 1 .. Len(c1) : (<<a8>> \o c1)[i + 1] = c1[i]
    BY ONLY <2>1, Before
  <2>3. /\ c2 \in Seq(S) /\ Len(c2) = Len(c1) + 1 /\ c2[1] = a8
        /\ \A i \in 1 .. Len(c1) : c2[i + 1] = c1[i]
    BY ONLY <1>7, <2>2
  <2> QED
    BY ONLY <1>6, <2>3
<1>9. PICK c3 : c3 = <<a7>> \o c2
  OBVIOUS
<1>10. /\ c3 \in Seq(S) /\ Len(c3) = 4
      /\ c3[1] = a7 /\ c3[2] = a8 /\ c3[3] = a9 /\ c3[4] = o
  <2>1. a7 \in S /\ c2 \in Seq(S)
    BY <1>2, <1>8
  <2>2. /\ <<a7>> \o c2 \in Seq(S) /\ Len(<<a7>> \o c2) = Len(c2) + 1
        /\ (<<a7>> \o c2)[1] = a7
        /\ \A i \in 1 .. Len(c2) : (<<a7>> \o c2)[i + 1] = c2[i]
    BY ONLY <2>1, Before
  <2>3. /\ c3 \in Seq(S) /\ Len(c3) = Len(c2) + 1 /\ c3[1] = a7
        /\ \A i \in 1 .. Len(c2) : c3[i + 1] = c2[i]
    BY ONLY <1>9, <2>2
  <2> QED
    BY ONLY <1>8, <2>3
<1>11. PICK c4 : c4 = <<a6>> \o c3
  OBVIOUS
<1>12. /\ c4 \in Seq(S) /\ Len(c4) = 5
      /\ c4[1] = a6 /\ c4[2] = a7 /\ c4[3] = a8 /\ c4[4] = a9 /\ c4[5] = o
  <2>1. a6 \in S /\ c3 \in Seq(S)
    BY <1>2, <1>10
  <2>2. /\ <<a6>> \o c3 \in Seq(S) /\ Len(<<a6>> \o c3) = Len(c3) + 1
        /\ (<<a6>> \o c3)[1] = a6
        /\ \A i \in 1 .. Len(c3) : (<<a6>> \o c3)[i + 1] = c3[i]
    BY ONLY <2>1, Before
  <2>3. /\ c4 \in Seq(S) /\ Len(c4) = Len(c3) + 1 /\ c4[1] = a6
        /\ \A i \in 1 .. Len(c3) : c4[i + 1] = c3[i]
    BY ONLY <1>11, <2>2
  <2> QED
    BY ONLY <1>10, <2>3
<1>13. PICK c5 : c5 = <<a5>> \o c4
  OBVIOUS
<1>14. /\ c5 \in Seq(S) /\ Len(c5) = 6
      /\ c5[1] = a5 /\ c5[2] = a6 /\ c5[3] = a7 /\ c5[4] = a8 /\ c5[5] = a9 /\ c5[6] = o
  <2>1. a5 \in S /\ c4 \in Seq(S)
    BY <1>2, <1>12
  <2>2. /\ <<a5>> \o c4 \in Seq(S) /\ Len(<<a5>> \o c4) = Len(c4) + 1
        /\ (<<a5>> \o c4)[1] = a5
        /\ \A i \in 1 .. Len(c4) : (<<a5>> \o c4)[i + 1] = c4[i]
    BY ONLY <2>1, Before
  <2>3. /\ c5 \in Seq(S) /\ Len(c5) = Len(c4) + 1 /\ c5[1] = a5
        /\ \A i \in 1 .. Len(c4) : c5[i + 1] = c4[i]
    BY ONLY <1>13, <2>2
  <2> QED
    BY ONLY <1>12, <2>3
<1>15. PICK c6 : c6 = <<a4>> \o c5
  OBVIOUS
<1>16. /\ c6 \in Seq(S) /\ Len(c6) = 7
      /\ c6[1] = a4 /\ c6[2] = a5 /\ c6[3] = a6 /\ c6[4] = a7 /\ c6[5] = a8 /\ c6[6] = a9
      /\ c6[7] = o
  <2>1. a4 \in S /\ c5 \in Seq(S)
    BY <1>2, <1>14
  <2>2. /\ <<a4>> \o c5 \in Seq(S) /\ Len(<<a4>> \o c5) = Len(c5) + 1
        /\ (<<a4>> \o c5)[1] = a4
        /\ \A i \in 1 .. Len(c5) : (<<a4>> \o c5)[i + 1] = c5[i]
    BY ONLY <2>1, Before
  <2>3. /\ c6 \in Seq(S) /\ Len(c6) = Len(c5) + 1 /\ c6[1] = a4
        /\ \A i \in 1 .. Len(c5) : c6[i + 1] = c5[i]
    BY ONLY <1>15, <2>2
  <2> QED
    BY ONLY <1>14, <2>3
<1>17. PICK c7 : c7 = <<a3>> \o c6
  OBVIOUS
<1>18. /\ c7 \in Seq(S) /\ Len(c7) = 8
      /\ c7[1] = a3 /\ c7[2] = a4 /\ c7[3] = a5 /\ c7[4] = a6 /\ c7[5] = a7 /\ c7[6] = a8
      /\ c7[7] = a9 /\ c7[8] = o
  <2>1. a3 \in S /\ c6 \in Seq(S)
    BY <1>2, <1>16
  <2>2. /\ <<a3>> \o c6 \in Seq(S) /\ Len(<<a3>> \o c6) = Len(c6) + 1
        /\ (<<a3>> \o c6)[1] = a3
        /\ \A i \in 1 .. Len(c6) : (<<a3>> \o c6)[i + 1] = c6[i]
    BY ONLY <2>1, Before
  <2>3. /\ c7 \in Seq(S) /\ Len(c7) = Len(c6) + 1 /\ c7[1] = a3
        /\ \A i \in 1 .. Len(c6) : c7[i + 1] = c6[i]
    BY ONLY <1>17, <2>2
  <2> QED
    BY ONLY <1>16, <2>3
<1>19. PICK c8 : c8 = <<a2>> \o c7
  OBVIOUS
<1>20. /\ c8 \in Seq(S) /\ Len(c8) = 9
      /\ c8[1] = a2 /\ c8[2] = a3 /\ c8[3] = a4 /\ c8[4] = a5 /\ c8[5] = a6 /\ c8[6] = a7
      /\ c8[7] = a8 /\ c8[8] = a9 /\ c8[9] = o
  <2>1. a2 \in S /\ c7 \in Seq(S)
    BY <1>2, <1>18
  <2>2. /\ <<a2>> \o c7 \in Seq(S) /\ Len(<<a2>> \o c7) = Len(c7) + 1
        /\ (<<a2>> \o c7)[1] = a2
        /\ \A i \in 1 .. Len(c7) : (<<a2>> \o c7)[i + 1] = c7[i]
    BY ONLY <2>1, Before
  <2>3. /\ c8 \in Seq(S) /\ Len(c8) = Len(c7) + 1 /\ c8[1] = a2
        /\ \A i \in 1 .. Len(c7) : c8[i + 1] = c7[i]
    BY ONLY <1>19, <2>2
  <2> QED
    BY ONLY <1>18, <2>3
<1>21. PICK c9 : c9 = <<a1>> \o c8
  OBVIOUS
<1>22. /\ c9 \in Seq(S) /\ Len(c9) = 10
      /\ c9[1] = a1 /\ c9[2] = a2 /\ c9[3] = a3 /\ c9[4] = a4 /\ c9[5] = a5 /\ c9[6] = a6
      /\ c9[7] = a7 /\ c9[8] = a8 /\ c9[9] = a9 /\ c9[10] = o
  <2>1. a1 \in S /\ c8 \in Seq(S)
    BY <1>2, <1>20
  <2>2. /\ <<a1>> \o c8 \in Seq(S) /\ Len(<<a1>> \o c8) = Len(c8) + 1
        /\ (<<a1>> \o c8)[1] = a1
        /\ \A i \in 1 .. Len(c8) : (<<a1>> \o c8)[i + 1] = c8[i]
    BY ONLY <2>1, Before
  <2>3. /\ c9 \in Seq(S) /\ Len(c9) = Len(c8) + 1 /\ c9[1] = a1
        /\ \A i \in 1 .. Len(c8) : c9[i + 1] = c8[i]
    BY ONLY <1>21, <2>2
  <2> QED
    BY ONLY <1>20, <2>3
<1> DEFINE q == <<a1, a2, a3, a4, a5, a6, a7, a8, a9>>
<1>23. /\ q \in Seq(S) /\ Len(q) = 9
      /\ q[1] = a1 /\ q[2] = a2 /\ q[3] = a3 /\ q[4] = a4 /\ q[5] = a5
      /\ q[6] = a6 /\ q[7] = a7 /\ q[8] = a8 /\ q[9] = a9
  BY <1>2
<1> HIDE DEF q
<1>24. /\ q \o c0 \in Seq(S) /\ Len(q \o c0) = Len(q) + Len(c0)
      /\ \A i \in 1 .. Len(q) + Len(c0) :
            (q \o c0)[i] = IF i <= Len(q) THEN q[i] ELSE c0[i - Len(q)]
  BY <1>4, <1>23, ConcatProperties
<1>25. \A i \in 1 .. 10 : (q \o c0)[i] = c9[i]
  <2>1. \A i \in 1 .. 9 : (q \o c0)[i] = q[i] /\ q[i] = c9[i]
    <3>1. \A i \in 1 .. 9 : (q \o c0)[i] = q[i]
      <4>1. Len(q) = 9 /\ Len(c0) = 1
        BY <1>4, <1>23
      <4> SUFFICES ASSUME NEW i \in 1 .. 9
                   PROVE  (q \o c0)[i] = q[i]
        OBVIOUS
      <4>2. i \in 1 .. Len(q) + Len(c0) /\ i <= Len(q)
        BY ONLY <4>1, i \in 1 .. 9
      <4> QED
        BY ONLY <1>24, <4>2
    <3>2. \A i \in 1 .. 9 : q[i] = c9[i]
      <4> SUFFICES ASSUME NEW i \in 1 .. 9
                   PROVE  q[i] = c9[i]
        OBVIOUS
      <4>1. i = 1 \/ i = 2 \/ i = 3 \/ i = 4 \/ i = 5 \/ i = 6 \/ i = 7 \/ i = 8 \/ i = 9
        OBVIOUS
      <4> QED
        BY ONLY <1>22, <1>23, <4>1
    <3> QED
      BY <3>1, <3>2
  <2>2. (q \o c0)[10] = c9[10]
    BY <1>4, <1>22, <1>23, <1>24
  <2>3. \A i \in 1 .. 10 : i = 10 \/ i \in 1 .. 9
    OBVIOUS
  <2> QED
    BY <2>1, <2>2, <2>3
<1>26. q \o c0 = c9
  <2>1. Len(q \o c0) = 10 /\ Len(c9) = 10
    BY <1>4, <1>22, <1>23, <1>24
  <2> QED
    BY <1>22, <1>24, <1>25, <2>1, SeqEqual
<1> QED
  BY <1>3, <1>5, <1>7, <1>9, <1>11, <1>13, <1>15, <1>17, <1>19, <1>21, <1>26 DEF q

\* The tool starts: the command is the one that looks, or has nothing that does.
LEMMA StartStep ==
  ASSUME StackInv, scenario \in Scenarios, Wmain
  PROVE  DestroyStack'
<1>1. PICK c \in scenario.commands :
         calls' = [calls EXCEPT !["tool"] = Commands(c) \o <<On("output", None)>>]
  BY DEF Wmain
<1>2. /\ c.name \in CommandNames /\ c.slot \in Slots
      /\ c.name \in {"read", "delete"} => c.alg \in Algorithms
  BY <1>1, ToolParametersOK
<1>3. calls'["tool"] = Commands(c) \o <<On("output", None)>>
  BY <1>1, OneChanges, IdentityParametersOK
<1>4. CASE c.name = "dld"
  <2>1. PICK s : s = c.slot
    OBVIOUS
  <2>2. Commands(c) = DestroyLogicalDev(s)
    BY <1>4, <2>1 DEF Commands
  <2>3. DestroyLogicalDev(s) \o <<On("output", None)>> = <<Do("LimpetDestroyURI", s)>> \o Rest0(s)
    BY Parts DEF DestroyLogicalDev, Rest0, Rest1, Rest2, Rest3, Ending
  <2>4. PICK z, V : z = Do("LimpetDestroyURI", s) /\ V = Rest0(s)
    OBVIOUS
  <2>5. DestroyWork(s, z, << >>, V)'
    BY <2>4 DEF DestroyWork, Rest0, Rest1, Rest2, Rest3, Ending, Do, On, Call
  <2>6. calls'["tool"] = <<z>> \o V /\ IsStack(V) /\ s \in Slots
    BY <1>2, <1>3, <2>1, <2>2, <2>3, <2>4, Rests
  <2> QED
    BY <2>5, <2>6, AgainAlone
<1>5. CASE c.name # "dld"
  <2> DEFINE L == {"destroyed"}
  <2>1. L \cap CommandOps = {} /\ L \cap Encrypting = {}
    <3>1. /\ "destroyed" \notin FileOps /\ "destroyed" \notin AuthorityOps
          /\ "destroyed" \notin LibraryOps /\ "destroyed" \notin Encrypting
      BY DEF FileOps, AuthorityOps, LibraryOps, Handlers, LibraryHandlers, SingleCalls, Functions,
         Encrypting
    <3> QED
      BY <3>1 DEF CommandOps
  <2> HIDE DEF L
  <2>2. Free(Commands(c) \o <<On("output", None)>>, L)
    BY <1>2, <1>5, <2>1, CommandsOnStack
  <2> QED
    BY <1>3, <2>2 DEF DestroyStack, L
<1> QED
  BY <1>4, <1>5

\* The inductive invariant: while no call has failed and the choice is not the
\* registry, the stack is that of such a command up to some call, and what the
\* calls before it destroyed is gone.
DestroyInv ==
    /\ StoreFields
    /\ scenario.commands = {} => Free(calls["tool"], {"destroyed"})
    /\ scenario.commands # {} =>
          /\ OthersQuiet /\ OneTrial /\ useRegistry \in {"unset", "no", "yes"}
          /\ faults = 0 /\ useRegistry # "yes" => DestroyStack

LEMMA DestroyInvInit ==
  ASSUME AllInit
  PROVE  DestroyInv
<1>1. /\ calls = [p \in Processes |-> << >>] /\ scenario \in Scenarios
      /\ useRegistry = scenario.mode
      /\ scenario.commands # {} => toImport = {}
  BY DEF AllInit, Init
<1>2. calls["agent"] = << >> /\ calls["provisioner"] = << >> /\ calls["app"] = << >>
  BY <1>1, IdentityParametersOK
<1>3. OthersQuiet \/ scenario.commands = {}
  BY <1>1, <1>2, FreeEmpty DEF OthersQuiet
<1>4. useRegistry \in {"unset", "no", "yes"}
  BY <1>1, IdentityParametersOK
<1>5. Free(calls["tool"], {"destroyed"}) /\ Free(calls["tool"], {"latch"})
  BY StacksInit
<1>6. StoreFields
  <2>1. PICK h : store = [s \in Slots |->
                            IF s \in scenario.provisioned THEN Slot(h, h, scenario.mode = "yes")
                            ELSE Slot(None, None, FALSE)]
    BY DEF AllInit, Init
  <2>2. ASSUME NEW k, NEW u, NEW v,
               \/ v = [public |-> k, private |-> k, name |-> k, uri |-> u, blob |-> None,
                       key |-> None, nv |-> None]
               \/ v = [public |-> None, private |-> None, name |-> None, uri |-> None,
                       blob |-> None, key |-> k, nv |-> u]
        PROVE  v = [f \in SlotFields |-> v[f]]
    BY <2>2 DEF SlotFields
  <2>3. store = [s \in Slots |-> store[s]]
    BY <2>1
  <2>4. ASSUME NEW s \in Slots
        PROVE  store[s] = [f \in SlotFields |-> store[s][f]]
    <3>1. store[s] = IF s \in scenario.provisioned THEN Slot(h, h, scenario.mode = "yes")
                     ELSE Slot(None, None, FALSE)
      BY <2>1
    <3>2. CASE s \in scenario.provisioned
      BY <2>2, <3>1, <3>2 DEF Slot
    <3>3. CASE s \notin scenario.provisioned
      BY <2>2, <3>1, <3>3 DEF Slot
    <3> QED
      BY <3>2, <3>3
  <2> QED
    BY <2>3, <2>4 DEF StoreFields
<1> QED
  BY <1>3, <1>4, <1>5, <1>6 DEF DestroyInv, OneTrial, DestroyStack

\* No step breaks it.
LEMMA DestroyInvStep ==
  ASSUME DestroyInv, KeyInv, scenario \in Scenarios, [AllNext]_allVars
  PROVE  DestroyInv'
<1>1. StackInv /\ StoreFields /\ StoreFields' /\ scenario' = scenario
  BY StoreKept, ScenarioStays DEF DestroyInv, KeyInv
<1>2. /\ faults \in Nat /\ (faults' = faults \/ faults' = faults + 1)
  BY StacksKept DEF KeyInv, StackInv
<1>3. CASE UNCHANGED allVars
  <2>1. UNCHANGED <<scenario, useRegistry, store, calls, faults, toImport, srk, ksp>>
    BY <1>3 DEF allVars, vars, library, driver, toolVars, identity
  <2>2. OthersQuiet => OthersQuiet'
    BY <2>1 DEF OthersQuiet
  <2>3. OneTrial => OneTrial'
    BY <2>1 DEF OneTrial
  <2>4. DestroyStack => DestroyStack'
    <3>1. ASSUME NEW s \in Slots, NEW x, NEW Q, NEW R, DestroyWork(s, x, Q, R),
                 calls["tool"] = <<x>> \o (Q \o R)
          PROVE  DestroyStack'
      <4>1. DestroyWork(s, x, Q, R)'
        BY <2>1, <3>1, WorkKept
      <4>2. calls'["tool"] = <<x>> \o (Q \o R)
        BY <2>1, <3>1
      <4> QED
        BY <4>1, <4>2, Again
    <3>2. CASE Free(calls["tool"], {"destroyed"})
      BY <2>1, <3>2 DEF DestroyStack
    <3>3. ASSUME useRegistry = "unset", NEW s \in Slots, NEW T, InTrial(T),
                 calls["tool"] =
                   T \o (<<Do("latch", s)>> \o (<<Do("LimpetDestroyURI", s)>> \o Rest0(s)))
          PROVE  DestroyStack'
      BY <2>1, <3>3 DEF DestroyStack
    <3> QED
      BY <3>1, <3>2, <3>3 DEF DestroyStack
  <2> QED
    BY <1>1, <2>1, <2>2, <2>3, <2>4 DEF DestroyInv
<1>4. CASE AllNext /\ scenario.commands = {}
  <2>1. ~Wmain
    BY <1>4 DEF Wmain
  <2>2. Free(calls'["tool"], {"destroyed"})
    BY <1>1, <1>4, <2>1, FreeOfDestroyed DEF DestroyInv
  <2> QED
    BY <1>1, <1>4, <2>2 DEF DestroyInv
<1>5. CASE AllNext /\ scenario.commands # {}
  <2>1. OthersQuiet /\ OneTrial /\ useRegistry \in {"unset", "no", "yes"}
    BY <1>5 DEF DestroyInv
  <2>2. store = [s \in Slots |-> store[s]]
    BY <1>1 DEF StoreFields
  <2>3. /\ OneTrial' /\ OthersQuiet'
        /\ useRegistry # "unset" => useRegistry' = useRegistry
    BY <1>1, <1>5, <2>1, <2>2, TrialsKept
  <2>4. useRegistry' \in {"unset", "no", "yes"}
    BY <1>1, <1>5, <2>1, ModesKept
  <2>5. ASSUME faults' = 0, useRegistry' # "yes"
        PROVE  DestroyStack'
    <3>1. faults = 0 /\ faults' # faults + 1
      BY <1>2, <2>5
    <3>2. useRegistry \in {"unset", "no"}
      BY <2>1, <2>3, <2>5
    <3>3. DestroyStack /\ KeyFacts
      BY <1>5, <3>1, <3>2 DEF DestroyInv, KeyInv
    <3>4. CASE Free(calls["tool"], {"destroyed"})
      <4>1. CASE Wmain
        BY <1>1, <4>1, StartStep
      <4>2. CASE Free(calls'["tool"], {"destroyed"})
        BY <4>2 DEF DestroyStack
      <4> QED
        BY <1>1, <1>5, <3>4, <4>1, <4>2, FreeOfDestroyed
    <3>5. ASSUME NEW s \in Slots, NEW x, NEW Q, NEW R, DestroyWork(s, x, Q, R),
                 calls["tool"] = <<x>> \o (Q \o R)
          PROVE  DestroyStack'
      <4>1. CASE useRegistry = "no"
        BY <1>1, <1>5, <2>1, <3>1, <3>3, <3>5, <4>1, DestroyStep
      <4>2. CASE useRegistry = "unset"
        BY <1>1, <1>5, <2>1, <3>5, <4>2, UntriedStep
      <4> QED
        BY <3>2, <4>1, <4>2
    <3>6. ASSUME useRegistry = "unset", NEW s \in Slots, NEW T, InTrial(T),
                 calls["tool"] =
                   T \o (<<Do("latch", s)>> \o (<<Do("LimpetDestroyURI", s)>> \o Rest0(s)))
          PROVE  DestroyStack'
      BY <1>1, <1>5, <2>1, <2>5, <3>1, <3>6, TriedStep
    <3> QED
      BY <3>3, <3>4, <3>5, <3>6 DEF DestroyStack
  <2> QED
    BY <1>1, <1>5, <2>3, <2>4, <2>5 DEF DestroyInv
<1> QED
  BY <1>3, <1>4, <1>5

\* Where the last call of the command is the next, everything is gone.
LEMMA AllDestroyed ==
  ASSUME DestroyInv, KeyInv
  PROVE  DestroyedLeavesNothing
<1> SUFFICES ASSUME At("tool", "destroyed"), faults = 0, useRegistry = "no"
             PROVE  /\ store[Top("tool").slot].key = None /\ store[Top("tool").slot].nv = None
                    /\ \A a \in Algorithms : ksp[LimpetReadDeviceId(a)].cert = None
  BY DEF DestroyedLeavesNothing
<1>1. calls["tool"] # << >> /\ Top("tool").op = "destroyed"
  BY DEF At, Top
<1>2. ~Free(calls["tool"], {"destroyed"})
  <2>1. \A y \in KeyFunctionCalls : y.op # "destroyed"
    <3>1. "destroyed" \notin KeyFunctions
      BY DEF KeyFunctions
    <3> QED
      BY <3>1, Ops DEF KeyFunctionCalls
  <2>2. ~Allowed(Top("tool"), {"destroyed"})
    BY <1>1, <2>1 DEF Allowed
  <2> QED
    BY <1>1, <2>2, FreeTail DEF Top
<1>3. DestroyStack /\ StackInv
  BY <1>2 DEF DestroyInv, KeyInv
<1>0. PICK s \in Slots :
         \E x, Q, R : DestroyWork(s, x, Q, R) /\ calls["tool"] = <<x>> \o (Q \o R)
  BY <1>2, <1>3 DEF DestroyStack
<1>4. PICK x, Q, R : DestroyWork(s, x, Q, R) /\ calls["tool"] = <<x>> \o (Q \o R)
  BY <1>0
<1>5. Quiet(Q) /\ IsStack(R)
  BY <1>4, DestroyParts
<1>6. Top("tool") = x
  BY <1>3, <1>4, <1>5, StackIsFree, CallReturns
<1>7. x.slot = s /\ NoUri(s) /\ NoHmacKey(s) /\ NoCert("RSA") /\ NoCert("ECDSA")
  BY <1>1, <1>4, <1>6, DestroyParts
<1>8. Algorithms = {"RSA", "ECDSA"}
  BY ToolParametersOK
<1>9. \A a \in Algorithms : ksp[LimpetReadDeviceId(a)].cert = None
  BY <1>7, <1>8 DEF NoCert
<1> QED
  BY <1>6, <1>7, <1>9 DEF NoUri, NoHmacKey

\* A "destroy logical device" that ends without a failing call leaves neither
\* URI nor key in the slot, nor an identity key with a certificate, for any
\* slots, commands and crashes.  (The order of its calls, wmain, and what they
\* do below LimpetDestroyURI, LimpetEvictHmacKey and LimpetDestroyIdentityCert.)
THEOREM DestroyLeavesNothing == AllSpec => []DestroyedLeavesNothing
<1>1. AllInit => DestroyInv /\ KeyInv /\ scenario \in Scenarios
  BY DestroyInvInit, KeyInvInit, StacksInit
<1>2. DestroyInv /\ KeyInv /\ scenario \in Scenarios /\ [AllNext]_allVars
        => (DestroyInv /\ KeyInv /\ scenario \in Scenarios)'
  BY DestroyInvStep, KeyInvStep, StacksKept DEF KeyInv
<1>3. DestroyInv /\ KeyInv => DestroyedLeavesNothing
  BY AllDestroyed
<1> QED
  BY <1>1, <1>2, <1>3, PTL DEF AllSpec

===============================================================================
