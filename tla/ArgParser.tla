----------------------------- MODULE ArgParser -----------------------------
(***************************************************************************)
(* clockUtils::argParser.  Parser is a set of statics: the list of the     *)
(* registered variables and the vector for the remaining arguments.  The   *)
(* constructors and destructors of Variable and ArgumentList change them,  *)
(* and parseArguments() uses what is registered when it is called.         *)
(*                                                                         *)
(* An argument is <<"long", n>> for --n, <<"short", n>> for -n, <<"num", k>> *)
(* for the text of a number, <<"neg", k>> for that of -k, <<"word", w>> for *)
(* another text, <<"dash">> for "-" and <<"empty">> for "".                *)
(***************************************************************************)
EXTENDS Naturals, SequencesExt

CONSTANTS
  Vars, Lists,       \* Variable and ArgumentList objects of the program
  Long, Short,       \* their names, functions of Vars
  Kind,              \* "bool", "int", "string" or "char"
  Required, Multiple,
  Letters,           \* the words that are one character long
  CommandLines,      \* the argument vectors
  None,              \* nullptr, and no parse
  Default, Garbage,  \* the default value; what a failed conversion leaves
  Assigned,          \* the value the program assigns to a variable
  MaxScope,          \* bound on the objects alive at a time
  MaxParses          \* bound on the calls of parseArguments

VARIABLES
  scope,             \* the live objects, in the order of their construction
  variableList,      \* Parser::variableList
  arguments,         \* Parser::arguments
  errorOnFlag, help, \* Parser::errorOnFlag, Parser::help
  helpTexts,         \* Parser::helpTexts: the variables whose line is in the map
  error,             \* Parser::error
  variable,          \* of each variable: _value, _values, _set
  vec,               \* of each list: _vec
  last,              \* the parse just made, None when other calls followed
  undefined,         \* an object was used after its destruction
  shadowed,          \* history: two live variables have had the same longname
  parses

vars == <<scope, variableList, arguments, errorOnFlag, help, helpTexts, error,
          variable, vec, last, undefined, shadowed, parses>>

ASSUME ArgAssumption ==
  /\ Vars \cap Lists = {} /\ None \notin Lists
  /\ Required \subseteq Vars /\ Multiple \subseteq Vars
  /\ Kind \in [Vars -> {"bool", "int", "string", "char"}]
  /\ MaxScope \in Nat /\ MaxParses \in Nat

Live == ToSet(scope)
Running == ~undefined /\ parses < MaxParses \* after the last parse objects only die
Unset == [value |-> Default, values |-> <<>>, set |-> FALSE]

Init ==
  /\ scope = <<>> /\ variableList = <<>> /\ arguments = None
  /\ errorOnFlag = TRUE /\ help = FALSE /\ helpTexts = {} /\ error = "none"
  /\ variable = [v \in Vars |-> Unset]
  /\ vec = [l \in Lists |-> <<>>]
  /\ last = None /\ undefined = FALSE /\ shadowed = FALSE /\ parses = 0

-----------------------------------------------------------------------------
(***************************************************************************)
(* Lifetimes.  Objects with automatic storage are destroyed in the reverse *)
(* order of their construction.  A dead object has the state of a new one: *)
(* nothing can see the difference.                                         *)
(***************************************************************************)
AddHelpTextLine(v) ==
  IF \E w \in helpTexts : Long[w] = Long[v] THEN helpTexts ELSE helpTexts \cup {v}

(***************************************************************************)
(* The macro adds the help text before it constructs the variable.         *)
(***************************************************************************)
NewVariable(v) ==
  /\ Running /\ v \notin Live /\ Len(scope) < MaxScope
  /\ scope' = Append(scope, v)
  /\ helpTexts' = AddHelpTextLine(v)
  /\ variableList' = Append(variableList, v)
  /\ variable' = [variable EXCEPT ![v] = Unset]
  /\ shadowed' = (shadowed \/ \E w \in Live \cap Vars : Long[w] = Long[v])
  /\ last' = None
  /\ UNCHANGED <<arguments, errorOnFlag, help, error, vec, undefined, parses>>

(***************************************************************************)
(* ~BasicVariable erases the first variable with its own longname, and the *)
(* line of that name.                                                      *)
(***************************************************************************)
(* A mistake: the name is not looked at. *)
FirstRegistered(n) == IF variableList = <<>> THEN 0 ELSE 1

FirstNamed(n) == SelectInSeq(variableList, LAMBDA w : Long[w] = n)

DestroyVariable ==
  /\ ~undefined /\ scope # <<>> /\ Last(scope) \in Vars
  /\ LET n == FirstNamed(Long[Last(scope)])
         looked == SubSeq(variableList, 1, IF n = 0 THEN Len(variableList) ELSE n)
     IN /\ undefined' = (ToSet(looked) \ Live # {})
        /\ variableList' = IF n = 0 THEN variableList ELSE RemoveAt(variableList, n)
        /\ helpTexts' = IF n = 0 THEN helpTexts
                         ELSE {w \in helpTexts : Long[w] # Long[Last(scope)]}
  /\ scope' = Front(scope)
  /\ variable' = [variable EXCEPT ![Last(scope)] = Unset]
  /\ last' = None
  /\ UNCHANGED <<arguments, errorOnFlag, help, error, vec, shadowed, parses>>

(***************************************************************************)
(* operator=, for one variable at a time to bound the states.              *)
(***************************************************************************)
AssignVariable(v) ==
  /\ Running /\ v \in Live /\ \A w \in Vars : variable[w].value # Assigned
  /\ variable' = [variable EXCEPT ![v].value = Assigned]
  /\ last' = None
  /\ UNCHANGED <<scope, variableList, arguments, errorOnFlag, help, helpTexts, error,
                 vec, undefined, shadowed, parses>>

NewList(l) ==
  /\ Running /\ l \notin Live /\ Len(scope) < MaxScope
  /\ scope' = Append(scope, l)
  /\ arguments' = l
  /\ vec' = [vec EXCEPT ![l] = <<>>]
  /\ last' = None
  /\ UNCHANGED <<variableList, errorOnFlag, help, helpTexts, error, variable,
                 undefined, shadowed, parses>>

DestroyList ==
  /\ ~undefined /\ scope # <<>> /\ Last(scope) \in Lists
  /\ scope' = Front(scope)
  /\ arguments' = None
  /\ vec' = [vec EXCEPT ![Last(scope)] = <<>>]
  /\ last' = None
  /\ UNCHANGED <<variableList, errorOnFlag, help, helpTexts, error, variable,
                 undefined, shadowed, parses>>

SetErrorOnFlag ==
  /\ Running
  /\ errorOnFlag' = ~errorOnFlag
  /\ last' = None
  /\ UNCHANGED <<scope, variableList, arguments, help, helpTexts, error, variable,
                 vec, undefined, shadowed, parses>>

-----------------------------------------------------------------------------
(***************************************************************************)
(* Variable<T>::setValue: whether the text is a value of the type, and the *)
(* value.  A char that is not one keeps its value, the others do not.      *)
(***************************************************************************)
IsValue(kind, a) ==
  CASE kind = "string" -> TRUE
    [] kind = "int" -> a[1] \in {"num", "neg"}
    [] kind = "bool" ->
         a \in {<<"num", 0>>, <<"num", 1>>, <<"word", "true">>, <<"word", "false">>}
    [] kind = "char" ->
         \/ a[1] = "dash"
         \/ a[1] = "word" /\ a[2] \in Letters
         \/ a[1] = "num" /\ a[2] < 10

ValueOf(kind, a) ==
  IF ~IsValue(kind, a) THEN Garbage
  ELSE IF kind # "bool" THEN a
  ELSE IF a \in {<<"num", 1>>, <<"word", "true">>} THEN "true" ELSE "false"

(* A mistake: only the last of several values is kept. *)
SetValueOverwrites(var, kind, a) ==
  IF kind = "char" /\ ~IsValue(kind, a) THEN var ELSE [var EXCEPT !.value = ValueOf(kind, a)]

SetValue(var, kind, a) ==
  IF kind = "char" /\ ~IsValue(kind, a) THEN var
  ELSE IF ~var.set THEN [var EXCEPT !.value = ValueOf(kind, a)]
  ELSE [var EXCEPT !.values = Append(@, ValueOf(kind, a))]

-----------------------------------------------------------------------------
(***************************************************************************)
(* parseArguments() as a fold over argv.  st.result is "go" until a return *)
(* statement; st.skip says that the argument was taken as a value.         *)
(***************************************************************************)
Answers(v, a) == a = <<"long", Long[v]>> \/ a = <<"short", Short[v]>>
Match(a) == SelectInSeq(variableList, LAMBDA v : Answers(v, a))
Owner(a) == variableList[Match(a)]
IsOption(a) == a[1] \in {"long", "short", "neg"}
StartsWithDash(a) == IsOption(a) \/ a = <<"dash">>
IsHelp(a) == a \in {<<"long", "help">>, <<"short", "h">>}

Fail(st, why) ==
  [st EXCEPT !.result = "INVALID_USAGE", !.error = why, !.arguments = None]

Extra(st, a) ==
  IF st.arguments = None THEN Fail(st, "none")
  ELSE [st EXCEPT !.vec[st.arguments] = Append(@, a)]

(***************************************************************************)
(* The value is stored before the check that it is the first.              *)
(***************************************************************************)
Assign(st, v, a, taken) ==
  LET stored == [st EXCEPT !.variable[v] = SetValue(@, Kind[v], a)]
  IN IF ~IsValue(Kind[v], a) THEN Fail(stored, "not a valid value")
     ELSE IF v \notin Multiple /\ Long[v] \in st.parsed
     THEN Fail(stored, IF Kind[v] = "bool" THEN "none" ELSE "multiple arguments")
     ELSE [stored EXCEPT !.variable[v].set = TRUE,
                         !.parsed = @ \cup {Long[v]}, !.skip = taken]

(***************************************************************************)
(* A bool may stand alone; every other variable takes the next argument,   *)
(* whatever that is.                                                       *)
(***************************************************************************)
Option(st, v, argv, i) ==
  IF i < Len(argv) /\ ~(Kind[v] = "bool" /\ StartsWithDash(argv[i + 1]))
  THEN Assign(st, v, argv[i + 1], TRUE)
  ELSE IF Kind[v] = "bool" THEN Assign(st, v, <<"num", 1>>, FALSE)
  ELSE Fail(st, "requires a value")

Unknown(st, a) ==
  IF IsHelp(a) THEN [st EXCEPT !.help = TRUE]
  ELSE IF errorOnFlag THEN Fail(st, "not registered")
  ELSE Extra(st, a)

ParseArgument(argv, st, i) ==
  LET a == argv[i]
  IN IF st.result # "go" THEN st
     ELSE IF st.skip THEN [st EXCEPT !.skip = FALSE]
     ELSE IF a = <<"empty">>
     THEN [st EXCEPT !.result = "INVALID_USAGE", !.error = "empty string"]
     ELSE IF ~IsOption(a) THEN Extra(st, a)
     ELSE IF Match(a) = 0 THEN Unknown(st, a)
     ELSE Option(st, Owner(a), argv, i)

(***************************************************************************)
(* resetToDefault() for every registered variable.                         *)
(***************************************************************************)
Reset(var) ==
  [v \in Vars |-> IF v \in ToSet(variableList) THEN Unset ELSE var[v]]

(***************************************************************************)
(* The return at the end: a missing required variable leaves the vector    *)
(* registered.                                                             *)
(***************************************************************************)
(* A mistake: required variables are not asked for. *)
MissingNever(st) == FALSE

Missing(st) ==
  ~st.help /\ \E v \in ToSet(variableList) \cap Required : ~st.variable[v].set

Finish(st) ==
  IF st.result # "go" THEN st
  ELSE IF Missing(st) THEN [st EXCEPT !.result = "INVALID_USAGE", !.error = "required"]
  ELSE [st EXCEPT !.result = "SUCCESS", !.arguments = None]

ParseArguments(argv) ==
  /\ Running
  /\ ToSet(variableList) \subseteq Live
  /\ LET start == [result |-> "go", error |-> "none", help |-> FALSE, skip |-> FALSE,
                   parsed |-> {}, arguments |-> arguments, vec |-> vec,
                   variable |-> Reset(variable)]
         st == Finish(FoldLeftDomain(LAMBDA s, i : ParseArgument(argv, s, i), start, argv))
     IN /\ help' = st.help /\ error' = st.error /\ arguments' = st.arguments
        /\ vec' = st.vec /\ variable' = st.variable
        /\ last' = [argv |-> argv, result |-> st.result, list |-> arguments,
                    before |-> IF arguments = None THEN <<>> ELSE vec[arguments]]
  /\ parses' = parses + 1
  /\ UNCHANGED <<scope, variableList, errorOnFlag, helpTexts, undefined, shadowed>>

ParseUndefined ==
  /\ Running
  /\ ~(ToSet(variableList) \subseteq Live)
  /\ undefined' = TRUE /\ last' = None
  /\ parses' = parses + 1
  /\ UNCHANGED <<scope, variableList, arguments, errorOnFlag, help, helpTexts, error,
                 variable, vec, shadowed>>

Next ==
  \/ \E v \in Vars : NewVariable(v) \/ AssignVariable(v)
  \/ \E l \in Lists : NewList(l)
  \/ DestroyVariable \/ DestroyList \/ SetErrorOnFlag
  \/ \E argv \in CommandLines : ParseArguments(argv)
  \/ ParseUndefined

Spec == Init /\ [][Next]_vars

(***************************************************************************)
(* What a program reads of a variable.                                     *)
(***************************************************************************)
Count(var) == 1 + Len(var.values)
At(var, idx) == IF idx = 0 THEN var.value ELSE var.values[idx]

-----------------------------------------------------------------------------
(***************************************************************************)
(* What a command line means, without the loop: which of its arguments are *)
(* values of the option before them, and what each variable is given.      *)
(***************************************************************************)
Takes(argv, i) ==
  /\ i < Len(argv) /\ IsOption(argv[i]) /\ Match(argv[i]) # 0
  /\ Kind[Owner(argv[i])] = "bool" => ~StartsWithDash(argv[i + 1])

Units(argv) ==
  LET taken[i \in 0..Len(argv)] == i > 1 /\ ~taken[i - 1] /\ Takes(argv, i - 1)
  IN SelectSeq([i \in DOMAIN argv |-> i], LAMBDA i : ~taken[i])

Known(argv, i) == IsOption(argv[i]) /\ Match(argv[i]) # 0
Operand(argv, i) == IF Takes(argv, i) THEN argv[i + 1] ELSE <<"num", 1>>
UnitsOf(argv, v) == SelectSeq(Units(argv), LAMBDA i : Known(argv, i) /\ Owner(argv[i]) = v)
Given(argv, v) ==
  [n \in DOMAIN UnitsOf(argv, v) |-> ValueOf(Kind[v], Operand(argv, UnitsOf(argv, v)[n]))]
Rest(argv) == SelectSeq(Units(argv), LAMBDA i : ~Known(argv, i) /\ ~IsHelp(argv[i]))
Helped(argv) == \E i \in ToSet(Units(argv)) : ~Known(argv, i) /\ IsHelp(argv[i])

Legal(argv, list) ==
  /\ Rest(argv) # <<>> => list # None
  /\ \A i \in ToSet(Rest(argv)) :
       argv[i] # <<"empty">> /\ (errorOnFlag => ~IsOption(argv[i]))
  /\ \A i \in ToSet(Units(argv)) : Known(argv, i) =>
       LET v == Owner(argv[i])
       IN /\ Takes(argv, i) \/ Kind[v] = "bool"
          /\ IsValue(Kind[v], Operand(argv, i))
  /\ \A v \in ToSet(variableList) :
       /\ v \in Multiple \/ Len(Given(argv, v)) <= 1
       /\ v \in Required /\ ~Helped(argv) => Given(argv, v) # <<>>

(* parseArguments (Parser.cpp:37-150) accepts exactly the legal command    *)
(* lines, whatever was parsed before.                                      *)
AcceptsLegal ==
  last # None /\ ~shadowed => (last.result = "SUCCESS" <=> Legal(last.argv, last.list))

(* After a successful parse every registered variable has the values the   *)
(* command line gives it, first to last, or its default, whatever the      *)
(* program assigned to it before; the remaining arguments are appended to  *)
(* the registered vector, in order; and no error text of an earlier parse  *)
(* is left (Parser.cpp:37-154).                                            *)
SuccessMeaning ==
  last # None /\ ~shadowed /\ last.result = "SUCCESS" =>
    /\ help = Helped(last.argv) /\ error = "none"
    /\ \A v \in ToSet(variableList) :
         LET given == IF Given(last.argv, v) = <<>> THEN <<Default>> ELSE Given(last.argv, v)
         IN /\ variable[v].set = (Given(last.argv, v) # <<>>)
            /\ Count(variable[v]) = Len(given)
            /\ \A n \in DOMAIN given : At(variable[v], n - 1) = given[n]
    /\ last.list # None =>
         LET rest == Rest(last.argv)
         IN vec[last.list] = last.before \o [n \in DOMAIN rest |-> last.argv[rest[n]]]

(* While longnames are distinct, what the static lists of Parser refer to  *)
(* is alive: the variables are the live ones, in the order of their        *)
(* construction, each with its own help text and no other                  *)
(* (BasicVariable.cpp:29-41), and a registered vector is that of a live    *)
(* ArgumentList (ArgumentList.cpp:33-35).                                  *)
RegisteredAreLive ==
  /\ ~shadowed =>
       /\ variableList = SelectSeq(scope, LAMBDA x : x \in Vars)
       /\ helpTexts = Live \cap Vars
  /\ arguments # None => arguments \in Live
=============================================================================
