---------------------------- MODULE MCIniParser ----------------------------
(***************************************************************************)
(* Instance of IniParser for TLC: "A" sorts before "global", "z" after.    *)
(***************************************************************************)
EXTENDS IniParser

MCSectionOrder == <<"A", "global", "z">>
MCFields == {"x", "y"}
MCValues == {"1", "text"}
MCNumbers == {"1"}

sec(s) == <<"section", s>>
fld(f) == <<"field", f, "1">>

(***************************************************************************)
(* No file; entries before any header; a header without entries; entries   *)
(* with a comment and a blank line; and one file per syntax error.         *)
(***************************************************************************)
MCFiles == {
  <<>>,
  <<fld("x"), sec("z"), fld("y")>>,
  <<<<"comment">>, sec("A"), <<"blank">>>>,
  <<sec("A"), fld("x"), <<"comment">>, fld("y"), <<"blank">>, sec("z"), fld("x")>>,
  <<sec("A"), fld("x"), fld("y"), fld("x")>>,
  <<sec("A"), fld("x"), sec("A")>>,
  <<fld("y"), sec("global"), fld("x")>>,
  <<sec("z"), fld("x"), <<"unclosed">>>>,
  <<sec("z"), fld("y"), <<"nofield">>>>}
=============================================================================
