---------------------------- MODULE MCArgParser ----------------------------
(***************************************************************************)
(* Instance of ArgParser for TLC: a bool, a required int, a string that    *)
(* may be given several times, and a char with the longname of the string, *)
(* as a variable of an inner scope can have.                               *)
(***************************************************************************)
EXTENDS ArgParser

CONSTANTS b, i, s, c, l1, l2

MCVars == {b, i, s, c}
MCLists == {l1, l2}
MCLong == (b :> "bo") @@ (i :> "int") @@ (s :> "str") @@ (c :> "str")
MCShort == (b :> "b") @@ (i :> "i") @@ (s :> "s") @@ (c :> "c")
MCKind == (b :> "bool") @@ (i :> "int") @@ (s :> "string") @@ (c :> "char")
MCRequired == {i}
MCMultiple == {s}
MCLetters == {"x"}

ListSymmetry == Permutations(MCLists)

B == <<"short", "b">>
I == <<"long", "int">>
S == <<"long", "str">>
C == <<"short", "c">>
H == <<"long", "help">>
N == <<"num", 1>>
W == <<"word", "text">>
D == <<"dash">>
E == <<"empty">>
M == <<"neg", 1>>

(***************************************************************************)
(* Every argument on its own; each kind of value after each kind of        *)
(* option; options given twice, values that look like options, arguments   *)
(* after values, errors after an argument was stored.                      *)
(***************************************************************************)
MCCommandLines ==
  {<<>>, <<B>>, <<I>>, <<H>>, <<D>>, <<E>>, <<M>>,
   <<B, W>>, <<B, D>>, <<I, N>>, <<I, M>>, <<I, W>>, <<S, B>>, <<C, D>>, <<C, W>>,
   <<W, E>>, <<W, H>>, <<B, B>>, <<S, N, S, W>>, <<I, N, I, N>>,
   <<I, N, W, S, W, N>>, <<S, B, B, N, I, N>>}
=============================================================================
