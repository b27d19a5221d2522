--------------------------- MODULE UnitsyncCalls ---------------------------
(***************************************************************************)
(* One call of a unitsync function from the page, through a synchronous or *)
(* an asynchronous handler: the test of the pointer, the library's result, *)
(* what of it comes back to JavaScript; and the generator's rules that the *)
(* slots follow.                                                           *)
(*                                                                         *)
(* Values are numbers, of Width bits where C++ has 32; a string is Null,   *)
(* Empty or Text, a float counts ten-millionths.                           *)
(***************************************************************************)
EXTENDS UnitsyncSlots, UnitsyncSlotsAsync, Integers

CONSTANT Width

\* The second part is arithmetic, true of every such Width; proofs need it said.
ASSUME WidthAssumption ==
    /\ Width \in Nat \ {0}
    /\ 2 ^ (Width - 1) \in Nat \ {0} /\ 2 ^ Width = 2 * 2 ^ (Width - 1)

Null  == 0
Empty == 1
Text  == 2

SetOf(s) == {s[i] : i \in DOMAIN s}
Names    == {f.name : f \in SetOf(Api)}
Function == [name \in Names |-> CHOOSE f \in SetOf(Api) : f.name = name]

-----------------------------------------------------------------------------
(* The generator.                                                          *)

ParseType(t) == CASE t = "const int" -> "int" [] t = "const float" -> "float" [] OTHER -> t

Unknown == {"unsigned short*", "int*", "char*", "unsigned char*", "MapInfo*"}

\* onlyKnown: pointers to anything but a string cannot be passed on.
Known(f) == f.ret \notin Unknown /\ \A i \in DOMAIN f.args : f.args[i] \notin Unknown

KnownFunctions == {f \in SetOf(Api) : Known(f)}

\* What is tabulated: C functions differ in their names, and return one of these.
ASSUME HeaderAssumption ==
    /\ \A f, g \in SetOf(Api) : f.name = g.name => f = g
    /\ \A f \in KnownFunctions :
          f.ret \in {"int", "unsigned int", "bool", "float", "const char*", "void"}

ExternalRep(t) == CASE t = "const char*" -> "QString" [] t = "unsigned int" -> "int" [] OTHER -> t

External(args) == [i \in DOMAIN args |-> ExternalRep(ParseType(args[i]))]

Generated(f)      == F(f.name, ExternalRep(f.ret), External(f.args))
GeneratedAsync(f) == F(f.name, f.ret, External(f.args))

-----------------------------------------------------------------------------
VARIABLES
    path,    \* "sync" or "async"
    slot,    \* the slot called
    size,    \* what was passed, as far as anything depends on it
    step,    \* "idle", "inside" the library, "thrown", "crashed" or "answered"
    decimal, \* the C locale's decimal sign, "point" or "comma"
    result,  \* what the library returned
    answer   \* what the page gets

vars == <<path, slot, size, step, decimal, result, answer>>

ReadSlot == F("jsReadFileVFS", "QString", <<"int", "int">>)

SyncSet  == SetOf(SyncSlots)
AsyncSet == SetOf(AsyncSlots)
Slots(p) == IF p = "sync" THEN SyncSet ELSE AsyncSet

Ints     == -(2 ^ (Width - 1)) .. 2 ^ (Width - 1) - 1
Unsigned == 0 .. 2 ^ Width - 1

Values(t) == CASE t = "int" -> Ints
               [] t = "unsigned int" -> Unsigned
               [] t = "bool" -> {0, 1}
               [] t = "float" -> {0, 3, 10}
               [] t = "const char*" -> {Null, Empty, Text}
               [] t = "void" -> {0}

NoAnswer == [kind |-> "none", value |-> 0]

\* QApplication has made the user's locale the C library's.
Init ==
    /\ path = "sync" /\ slot = ReadSlot /\ size = 0
    /\ step = "idle"
    /\ decimal \in {"point", "comma"}
    /\ result = 0 /\ answer = NoAnswer

\* The pointers that are set in a handler of the map, into which it is moved.
Linked(p) == IF p = "sync" THEN SyncUnix \cap SyncWindows \cap SyncMoved
                           ELSE AsyncUnix \cap AsyncWindows \cap AsyncMoved

\* A slot is called; present says whether the library has the function.  If not,
\* its pointer is NULL, for which there is a test; one never set is anything.
Call(p, s, present) ==
    /\ step = "idle"
    /\ path' = p /\ slot' = s
    /\ step' = CASE s.name \notin Linked(p) -> "crashed"
                 [] s.name \in Linked(p) -> IF present THEN "inside" ELSE "thrown"
    /\ UNCHANGED <<size, decimal, result, answer>>

\* jsReadFileVFS(fd, n) was written by hand, without the test.
CallReadFile(p, n, present) ==
    /\ step = "idle"
    /\ path' = p /\ slot' = ReadSlot /\ size' = n
    /\ step' = IF present THEN "inside" ELSE "crashed"
    /\ UNCHANGED <<decimal, result, answer>>

\* Meanwhile a conditional download formats its date.  The std::locale it puts
\* back is the classic one, for setlocale() does not change what std::locale()
\* is: so the C library is left with "C", and not with the user's locale.
FormatDate ==
    /\ step \in {"idle", "inside"}
    /\ decimal' = "point"
    /\ UNCHANGED <<path, slot, size, step, result, answer>>

\* A C++ conversion to int wraps around.
ToInt(v) == IF v \in Ints THEN v ELSE v - 2 ^ Width

\* marshallOut, and what QtWebKit makes of the slot's result.
Returned(t, v) ==
    CASE t = "QString" -> [kind |-> "string", value |-> IF v = Null THEN Empty ELSE v]
      [] t = "int" -> [kind |-> "number", value |-> ToInt(v)]
      [] t = "float" -> [kind |-> "number", value |-> v]
      [] t = "bool" -> [kind |-> "bool", value |-> v]
      [] t = "void" -> [kind |-> "undefined", value |-> 0]

\* std::to_string(float): six decimals, after the locale's sign; with a comma the
\* text is none that JavaScript reads as this number.
FloatText(v, sign) ==
    [kind |-> IF sign = "point" THEN "number" ELSE "commaText", value |-> 10 * ((v + 5) \div 10)]

\* Mutation of Posted: a C string is posted without cstrNull().
PostedNull(t, v, sign) ==
    CASE t = "const char*" -> [kind |-> "string", value |-> v]
      [] t = "float" -> FloatText(v, sign)
      [] t \in {"int", "unsigned int"} -> [kind |-> "number", value |-> v]
      [] t = "bool" -> [kind |-> "bool", value |-> v]
      [] t = "void" -> [kind |-> "undefined", value |-> 0]

\* marshallAsString, as text of the type that is posted with it.
Posted(t, v, sign) ==
    CASE t = "const char*" -> [kind |-> "string", value |-> IF v = Null THEN Empty ELSE v]
      [] t = "float" -> FloatText(v, sign)
      [] t \in {"int", "unsigned int"} -> [kind |-> "number", value |-> v]
      [] t = "bool" -> [kind |-> "bool", value |-> v]
      [] t = "void" -> [kind |-> "undefined", value |-> 0]

Return ==
    /\ step = "inside" /\ slot # ReadSlot
    /\ step' = "answered"
    /\ result' \in Values(Function[slot.name].ret)
    /\ answer' = IF path = "sync" THEN Returned(slot.ret, result')
                                  ELSE Posted(slot.ret, result', decimal)
    /\ UNCHANGED <<path, slot, size, decimal>>

\* The library fills some of the buffer; all of it goes to the page.
ReturnReadFile ==
    /\ step = "inside" /\ slot = ReadSlot
    /\ step' = "answered"
    /\ result' \in -1..size
    /\ answer' = [kind |-> "bytes", value |-> size]
    /\ UNCHANGED <<path, slot, size, decimal>>

Over == step \in {"answered", "thrown", "crashed"} /\ UNCHANGED vars

Next ==
    \/ \E p \in {"sync", "async"}, present \in BOOLEAN :
          \/ \E s \in Slots(p) : Call(p, s, present)
          \/ \E n \in 0..2 : CallReadFile(p, n, present)
    \/ FormatDate \/ Return \/ ReturnReadFile \/ Over

Spec == Init /\ [][Next]_vars

-----------------------------------------------------------------------------
(* Properties.                                                             *)

\* The committed files are what the generator makes of the header: no slot is
\* missing, none calls with other types than its function has, and every
\* pointer is set on every platform and survives the move into the map.
TablesMatch ==
    /\ SyncSet = {Generated(f) : f \in KnownFunctions}
    /\ AsyncSet = {GeneratedAsync(f) : f \in KnownFunctions}
    /\ \A set \in {SyncUnix, SyncWindows, SyncMoved, AsyncUnix, AsyncWindows, AsyncMoved} :
          set = Names

\* They do, so that no generated slot, on either path and of whatever library,
\* calls through a pointer that is not a function's.
SlotsMatchHeader == TablesMatch /\ (step = "crashed" => slot = ReadSlot)

\* What is returned or posted, of which type, is the library's result, but for
\* three things.  An unsigned result is made signed ("the server actually uses
\* signed ints") by the synchronous path only.  A float posted by the
\* asynchronous one has six decimals, and where the locale has a decimal comma,
\* as long as no download has asked for a date, no number is posted at all.
AnswerIsResult ==
    step = "answered" /\ slot # ReadSlot =>
        LET t == Function[slot.name].ret
        IN /\ answer.kind =
                 (CASE t \in {"int", "unsigned int"} -> "number"
                    [] t = "float" -> IF path = "sync" \/ decimal = "point" THEN "number"
                                      ELSE "commaText"
                    [] t = "const char*" -> "string"
                    [] t = "bool" -> "bool"
                    [] OTHER -> "undefined")
           /\ t \notin {"unsigned int", "float", "void"} =>
                 answer.value = result \/ (result = Null /\ answer.value = Empty)
           /\ t = "const char*" => answer.value # Null
           /\ t = "unsigned int" =>
                 /\ (answer.value - result) % 2 ^ Width = 0
                 /\ path = "sync" => answer.value \in Ints
           /\ t = "float" =>
                 /\ answer.value - result \in -5..5
                 /\ path = "sync" => answer.value = result

=============================================================================
