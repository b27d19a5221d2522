-------------------------- MODULE UnitsyncCallsProofs --------------------------
(***************************************************************************)
(* Theorems about the calls of unitsync functions, for numbers of any      *)
(* width, as C++ has them: 32 bits, where TLC has 3.  That the tables of   *)
(* the slots are what the generator makes of the header, TablesMatch, has  *)
(* no numbers in it; TLC evaluates it, and the proofs suppose it.          *)
(***************************************************************************)
EXTENDS UnitsyncCalls, TLAPS

-----------------------------------------------------------------------------
(* The inductive invariant.                                                *)

\* The slot has a function in the header, of its name and its types.
SlotOf(f) ==
    /\ f \in KnownFunctions
    /\ f.name = slot.name
    /\ External(f.args) = slot.args
    /\ slot.ret = IF path = "sync" THEN ExternalRep(f.ret) ELSE f.ret

\* A call that has come to the library is of a slot's function.
EnteredInv ==
    /\ decimal \in {"point", "comma"}
    /\ step \in {"inside", "answered"} /\ slot # ReadSlot =>
          /\ path \in {"sync", "async"}
          /\ \E f \in KnownFunctions : SlotOf(f)

\* What was answered is what the slot makes of a result of its function.
AnsweredInv ==
    step = "answered" /\ slot # ReadSlot =>
        /\ result \in Values(Function[slot.name].ret)
        /\ answer = IF path = "sync" THEN Returned(slot.ret, result)
                                     ELSE Posted(slot.ret, result, decimal)

-----------------------------------------------------------------------------
(* The tables.                                                             *)

\* Every slot is that of a function.
LEMMA SlotHasFunction ==
  ASSUME TablesMatch, NEW p \in {"sync", "async"}, NEW s \in Slots(p)
  PROVE  \E f \in KnownFunctions :
            /\ f.name = s.name
            /\ External(f.args) = s.args
            /\ s.ret = IF p = "sync" THEN ExternalRep(f.ret) ELSE f.ret
<1>1. CASE p = "sync"
  <2>1. PICK f \in KnownFunctions : s = Generated(f)
    BY <1>1 DEF TablesMatch, Slots
  <2>2. s.name = f.name /\ s.ret = ExternalRep(f.ret) /\ s.args = External(f.args)
    BY <2>1 DEF Generated, F
  <2> QED
    BY <1>1, <2>2
<1>2. CASE p = "async"
  <2>1. PICK f \in KnownFunctions : s = GeneratedAsync(f)
    BY <1>2 DEF TablesMatch, Slots
  <2>2. s.name = f.name /\ s.ret = f.ret /\ s.args = External(f.args)
    BY <2>1 DEF GeneratedAsync, F
  <2> QED
    BY <1>2, <2>2
<1> QED
  BY <1>1, <1>2

\* The name of a function is enough to find it.
LEMMA FunctionFound ==
  ASSUME NEW f \in KnownFunctions
  PROVE  Function[f.name] = f
<1>1. f \in SetOf(Api) /\ f.name \in Names
  BY DEF KnownFunctions, Names
<1>2. Function[f.name] = CHOOSE g \in SetOf(Api) : g.name = f.name
  BY <1>1 DEF Function
<1> QED
  BY <1>1, <1>2, HeaderAssumption

-----------------------------------------------------------------------------
(* The conversions.                                                        *)

\* A whole number of times 2^Width leaves nothing.
LEMMA WrappedMod ==
  ASSUME NEW w \in Nat \ {0}
  PROVE  0 % w = 0 /\ (-w) % w = 0
OBVIOUS

\* The conversion to int makes a number of Width bits a signed one, and does
\* not change it but for a multiple of 2^Width.
LEMMA ToIntWraps ==
  ASSUME NEW v \in Unsigned
  PROVE  /\ ToInt(v) \in Ints
         /\ (ToInt(v) - v) % 2 ^ Width = 0
<1> DEFINE h == 2 ^ (Width - 1)
           w == 2 ^ Width
<1>1. h \in Nat /\ h > 0 /\ w = 2 * h
  BY WidthAssumption
<1>2. Ints = (-h)..(h - 1) /\ v \in 0..(w - 1) /\ ToInt(v) = IF v \in Ints THEN v ELSE v - w
  BY DEF Ints, Unsigned, ToInt
<1> HIDE DEF h, w
<1>3. w \in Nat \ {0} /\ v \in Nat
  BY <1>1, <1>2
<1>4. ToInt(v) \in Ints
  BY <1>1, <1>2
<1>5. ToInt(v) - v = 0 \/ ToInt(v) - v = -w
  BY <1>2, <1>3
<1>6. (ToInt(v) - v) % w = 0
  BY <1>3, <1>5, WrappedMod
<1> QED
  BY <1>4, <1>6 DEF w

\* A number that is not converted differs by nothing.
LEMMA UnsignedUnchanged ==
  ASSUME NEW v \in Unsigned
  PROVE  (v - v) % 2 ^ Width = 0
<1> DEFINE h == 2 ^ (Width - 1)
           w == 2 ^ Width
<1>1. h \in Nat /\ h > 0 /\ w = 2 * h
  BY WidthAssumption
<1>2. v \in 0..(w - 1)
  BY DEF Unsigned
<1> HIDE DEF h, w
<1>3. w \in Nat \ {0} /\ v - v = 0
  BY <1>1, <1>2
<1>4. (v - v) % w = 0
  BY <1>3, WrappedMod
<1> QED
  BY <1>4 DEF w

\* An empty string is not a NULL one.
LEMMA EmptyIsNotNull == Empty # Null
BY DEF Empty, Null

\* Six decimals are at most five ten-millionths away.
LEMMA SixDecimals ==
  ASSUME NEW v \in {0, 3, 10}
  PROVE  10 * ((v + 5) \div 10) - v \in -5..5
<1>1. CASE v = 0
  BY <1>1
<1>2. CASE v = 3
  BY <1>2
<1>3. CASE v = 10
  BY <1>3
<1> QED
  BY <1>1, <1>2, <1>3

\* What AnswerIsResult asks of the answer a to a call by path p of a function
\* with a result r of type t, where the decimal sign is d.
Faithful(p, t, r, a, d) ==
    /\ a.kind = (CASE t \in {"int", "unsigned int"} -> "number"
                   [] t = "float" -> IF p = "sync" \/ d = "point" THEN "number" ELSE "commaText"
                   [] t = "const char*" -> "string"
                   [] t = "bool" -> "bool"
                   [] OTHER -> "undefined")
    /\ t \notin {"unsigned int", "float", "void"} =>
          a.value = r \/ (r = Null /\ a.value = Empty)
    /\ t = "const char*" => a.value # Null
    /\ t = "unsigned int" =>
          /\ (a.value - r) % 2 ^ Width = 0
          /\ p = "sync" => a.value \in Ints
    /\ t = "float" =>
          /\ a.value - r \in -5..5
          /\ p = "sync" => a.value = r

\* The synchronous slots answer with the result.
LEMMA ReturnedFaithful ==
  ASSUME NEW t \in {"int", "unsigned int", "bool", "float", "const char*", "void"},
         NEW v \in Values(t), NEW d
  PROVE  Faithful("sync", t, v, Returned(ExternalRep(t), v), d)
<1>1. CASE t = "int"
  <2>1. Returned(ExternalRep(t), v) = [kind |-> "number", value |-> v]
    BY <1>1 DEF Returned, ExternalRep, Values, ToInt
  <2> QED
    BY <1>1, <2>1 DEF Faithful
<1>2. CASE t = "unsigned int"
  <2>1. v \in Unsigned
    BY <1>2 DEF Values
  <2> DEFINE a == Returned(ExternalRep(t), v)
  <2>2. a = [kind |-> "number", value |-> ToInt(v)]
    BY <1>2 DEF Returned, ExternalRep
  <2> HIDE DEF a
  <2>3. a.kind = "number" /\ a.value = ToInt(v)
    BY <2>2, Zenon
  <2>4. a.value \in Ints /\ (a.value - v) % 2 ^ Width = 0
    BY <2>1, <2>3, ToIntWraps, Zenon
  <2>5. Faithful("sync", t, v, a, d)
    BY <1>2, <2>3, <2>4 DEF Faithful
  <2> QED
    BY <2>5 DEF a
<1>3. CASE t = "bool"
  <2>1. Returned(ExternalRep(t), v) = [kind |-> "bool", value |-> v]
    BY <1>3 DEF Returned, ExternalRep
  <2> QED
    BY <1>3, <2>1 DEF Faithful
<1>4. CASE t = "float"
  <2>1. Returned(ExternalRep(t), v) = [kind |-> "number", value |-> v] /\ v \in {0, 3, 10}
    BY <1>4 DEF Returned, ExternalRep, Values
  <2> QED
    BY <1>4, <2>1 DEF Faithful
<1>5. CASE t = "const char*"
  <2> DEFINE a == Returned(ExternalRep(t), v)
             r == IF v = Null THEN Empty ELSE v
  <2>1. a = [kind |-> "string", value |-> r]
    BY <1>5 DEF Returned, ExternalRep
  <2>2. r # Null /\ (r = v \/ (v = Null /\ r = Empty))
    BY EmptyIsNotNull, Zenon
  <2> HIDE DEF a, r
  <2>3. a.kind = "string" /\ a.value = r
    BY <2>1, Zenon
  <2>4. Faithful("sync", t, v, a, d)
    BY <1>5, <2>2, <2>3 DEF Faithful
  <2> QED
    BY <2>4 DEF a
<1>6. CASE t = "void"
  <2>1. Returned(ExternalRep(t), v) = [kind |-> "undefined", value |-> 0]
    BY <1>6 DEF Returned, ExternalRep
  <2> QED
    BY <1>6, <2>1 DEF Faithful
<1> QED
  BY <1>1, <1>2, <1>3, <1>4, <1>5, <1>6

\* So do the asynchronous ones.
LEMMA PostedFaithful ==
  ASSUME NEW t \in {"int", "unsigned int", "bool", "float", "const char*", "void"},
         NEW v \in Values(t), NEW d \in {"point", "comma"}
  PROVE  Faithful("async", t, v, Posted(t, v, d), d)
<1>1. CASE t = "int"
  <2>1. Posted(t, v, d) = [kind |-> "number", value |-> v]
    BY <1>1 DEF Posted
  <2> QED
    BY <1>1, <2>1 DEF Faithful
<1>2. CASE t = "unsigned int"
  <2> DEFINE a == Posted(t, v, d)
  <2>1. a = [kind |-> "number", value |-> v]
    BY <1>2 DEF Posted
  <2> HIDE DEF a
  <2>2. a.kind = "number" /\ a.value = v
    BY <2>1, Zenon
  <2>3. v \in Unsigned
    BY <1>2 DEF Values
  <2>4. (v - v) % 2 ^ Width = 0
    BY <2>3, UnsignedUnchanged
  <2>5. (a.value - v) % 2 ^ Width = 0
    BY <2>2, <2>4, Zenon
  <2>6. Faithful("async", t, v, a, d)
    BY <1>2, <2>2, <2>5 DEF Faithful
  <2> QED
    BY <2>6 DEF a
<1>3. CASE t = "bool"
  <2>1. Posted(t, v, d) = [kind |-> "bool", value |-> v]
    BY <1>3 DEF Posted
  <2> QED
    BY <1>3, <2>1 DEF Faithful
<1>4. CASE t = "float"
  <2>1. Posted(t, v, d) = [kind |-> IF d = "point" THEN "number" ELSE "commaText",
                           value |-> 10 * ((v + 5) \div 10)]
    BY <1>4 DEF Posted, FloatText
  <2>2. 10 * ((v + 5) \div 10) - v \in -5..5
    BY <1>4, SixDecimals DEF Values
  <2> QED
    BY <1>4, <2>1, <2>2 DEF Faithful
<1>5. CASE t = "const char*"
  <2> DEFINE a == Posted(t, v, d)
             r == IF v = Null THEN Empty ELSE v
  <2>1. a = [kind |-> "string", value |-> r]
    BY <1>5 DEF Posted
  <2>2. r # Null /\ (r = v \/ (v = Null /\ r = Empty))
    BY EmptyIsNotNull, Zenon
  <2> HIDE DEF a, r
  <2>3. a.kind = "string" /\ a.value = r
    BY <2>1, Zenon
  <2>4. Faithful("async", t, v, a, d)
    BY <1>5, <2>2, <2>3 DEF Faithful
  <2> QED
    BY <2>4 DEF a
<1>6. CASE t = "void"
  <2>1. Posted(t, v, d) = [kind |-> "undefined", value |-> 0]
    BY <1>6 DEF Posted
  <2> QED
    BY <1>6, <2>1 DEF Faithful
<1> QED
  BY <1>1, <1>2, <1>3, <1>4, <1>5, <1>6

-----------------------------------------------------------------------------
(* The theorems.                                                           *)

\* Every step keeps EnteredInv.
LEMMA NextEnteredInv ==
  ASSUME TablesMatch, EnteredInv, [Next]_vars
  PROVE  EnteredInv'
<1>1. ASSUME NEW p \in {"sync", "async"}, NEW present \in BOOLEAN, NEW s \in Slots(p),
             Call(p, s, present)
      PROVE  EnteredInv'
  <2>1. PICK f \in KnownFunctions :
            /\ f.name = s.name
            /\ External(f.args) = s.args
            /\ s.ret = IF p = "sync" THEN ExternalRep(f.ret) ELSE f.ret
    BY SlotHasFunction
  <2>2. path' = p /\ slot' = s /\ decimal' = decimal
    BY <1>1 DEF Call
  <2> QED
    BY <2>1, <2>2 DEF EnteredInv, SlotOf
<1>2. ASSUME NEW p, NEW n, NEW present, CallReadFile(p, n, present)
      PROVE  EnteredInv'
  BY <1>2 DEF CallReadFile, EnteredInv
<1>3. CASE FormatDate
  BY <1>3 DEF FormatDate, EnteredInv, SlotOf
<1>4. CASE Return
  BY <1>4 DEF Return, EnteredInv, SlotOf
<1>5. CASE ReturnReadFile
  BY <1>5 DEF ReturnReadFile, EnteredInv
<1>6. CASE UNCHANGED vars
  BY <1>6 DEF vars, EnteredInv, SlotOf
<1> QED
  BY <1>1, <1>2, <1>3, <1>4, <1>5, <1>6 DEF Next, Over

\* Every step keeps AnsweredInv: after the answer no date is formatted.
LEMMA NextAnsweredInv ==
  ASSUME AnsweredInv, [Next]_vars
  PROVE  AnsweredInv'
<1>1. ASSUME NEW p, NEW present \in BOOLEAN, NEW s, Call(p, s, present)
      PROVE  AnsweredInv'
  BY <1>1 DEF Call, AnsweredInv
<1>2. ASSUME NEW p, NEW n, NEW present, CallReadFile(p, n, present)
      PROVE  AnsweredInv'
  BY <1>2 DEF CallReadFile, AnsweredInv
<1>3. CASE FormatDate
  BY <1>3 DEF FormatDate, AnsweredInv
<1>4. CASE Return
  BY <1>4 DEF Return, AnsweredInv
<1>5. CASE ReturnReadFile
  BY <1>5 DEF ReturnReadFile, AnsweredInv
<1>6. CASE UNCHANGED vars
  BY <1>6 DEF vars, AnsweredInv
<1> QED
  BY <1>1, <1>2, <1>3, <1>4, <1>5, <1>6 DEF Next, Over

\* The inductive invariant holds.
THEOREM Inductive ==
  ASSUME TablesMatch
  PROVE  Spec => [](EnteredInv /\ AnsweredInv)
<1>1. Init => EnteredInv /\ AnsweredInv
  BY DEF Init, EnteredInv, AnsweredInv
<1>2. EnteredInv /\ AnsweredInv /\ [Next]_vars => (EnteredInv /\ AnsweredInv)'
  BY NextEnteredInv, NextAnsweredInv
<1> QED
  BY <1>1, <1>2, PTL DEF Spec

\* What is returned or posted is the library's result, whatever the width of the
\* numbers, and by both paths the same, but for the unsigned results, which only
\* the synchronous path makes signed, and the floats, which the asynchronous one
\* writes with six decimals and with the sign of the locale of that moment.
THEOREM AnswersAreResults ==
  ASSUME TablesMatch
  PROVE  Spec => []AnswerIsResult
<1>1. ASSUME EnteredInv, AnsweredInv
      PROVE  AnswerIsResult
  <2> SUFFICES ASSUME step = "answered", slot # ReadSlot
               PROVE  Faithful(path, Function[slot.name].ret, result, answer, decimal)
    BY DEF AnswerIsResult, Faithful
  <2>1. PICK f \in KnownFunctions : SlotOf(f)
    BY <1>1 DEF EnteredInv
  <2>2. Function[slot.name] = f
    BY <2>1, FunctionFound DEF SlotOf
  <2>3. f.ret \in {"int", "unsigned int", "bool", "float", "const char*", "void"}
    BY HeaderAssumption
  <2>4. result \in Values(f.ret)
    BY <1>1, <2>2 DEF AnsweredInv
  <2>5. CASE path = "sync"
    <3>1. answer = Returned(ExternalRep(f.ret), result)
      BY <1>1, <2>1, <2>5 DEF AnsweredInv, SlotOf
    <3> QED
      BY <2>2, <2>3, <2>4, <2>5, <3>1, ReturnedFaithful
  <2>6. CASE path = "async"
    <3>1. answer = Posted(f.ret, result, decimal)
      BY <1>1, <2>1, <2>6 DEF AnsweredInv, SlotOf
    <3> QED
      BY <1>1, <2>2, <2>3, <2>4, <2>6, <3>1, PostedFaithful DEF EnteredInv
  <2> QED
    BY <1>1, <2>5, <2>6 DEF EnteredInv
<1> QED
  BY <1>1, Inductive, PTL
=============================================================================
