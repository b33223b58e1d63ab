----------------------------- MODULE IniParser -----------------------------
(***************************************************************************)
(* clockUtils::iniParser::IniParser.  The parser keeps a file twice: as    *)
(* the lines of each section (_allLines), and as the entries of each       *)
(* section (_data), every entry with the index of the line it stands on.   *)
(* save() prints the lines and replaces those an entry points at, so the   *)
(* two have to agree.                                                      *)
(*                                                                         *)
(* A line is <<"section", s>>, <<"field", f, v>>, <<"blank">>, <<"comment">> *)
(* (a ';' line or a line of one character), <<"unclosed">> (a '[' without  *)
(* the ']') or <<"nofield">> (no '=').  Indexes count from 1, one more     *)
(* than in the code.                                                       *)
(***************************************************************************)
EXTENDS Naturals, SequencesExt

CONSTANTS
  SectionOrder,  \* the section names in the order of std::map
  Fields, Values,
  Numbers,       \* the values a variable of type T can be read from
  Global,        \* "global", the section of the lines before any header
  Files,         \* the files a user may have on disk
  NoValue,
  MaxCalls       \* bound on the calls of a behaviour

VARIABLES
  data,          \* _data: sections to sequences of [field, index, value]
  lines,         \* _allLines: sections to sequences of lines
  disk,          \* the file: its lines, <<>> when there is none
  result,        \* what the last load or save returned
  undefined,     \* a call has had undefined behaviour
  damaged,       \* history: which of the calls were made after which lines
                 \* and entries no longer agree
  calls          \* the calls made so far

vars == <<data, lines, disk, result, undefined, damaged, calls>>

Sections == ToSet(SectionOrder)
Lines == {<<"blank">>, <<"comment">>, <<"unclosed">>, <<"nofield">>}
           \cup ({"section"} \X Sections) \cup ({"field"} \X Fields \X Values)

ASSUME IniAssumption ==
  /\ Global \in Sections
  /\ NoValue \notin Values /\ Numbers \subseteq Values
  /\ MaxCalls \in Nat
  /\ \A ls \in Files : ToSet(ls) \subseteq Lines

(***************************************************************************)
(* std::map::operator[] and erase.                                         *)
(***************************************************************************)
At(map, s) == IF s \in DOMAIN map THEN map[s] ELSE <<>>
With(map, s, val) == [t \in DOMAIN map \cup {s} |-> IF t = s THEN val ELSE map[t]]
Without(map, s) == [t \in DOMAIN map \ {s} |-> map[t]]

Entry(f, i, v) == [field |-> f, index |-> i, value |-> v]
Has(map, s, f) == \E n \in DOMAIN At(map, s) : map[s][n].field = f

(* A mistake: the first entry is taken for the one looked for. *)
PositionFirst(map, s, f) == 1
Position(map, s, f) == CHOOSE n \in DOMAIN map[s] : map[s][n].field = f

Init ==
  /\ data = <<>> /\ lines = <<>>
  /\ disk \in Files
  /\ result = "none"
  /\ undefined = FALSE /\ damaged = {}
  /\ calls = 0

(***************************************************************************)
(* Every call: none after one with undefined behaviour.                    *)
(***************************************************************************)
Called == ~undefined /\ calls < MaxCalls /\ calls' = calls + 1

-----------------------------------------------------------------------------
(***************************************************************************)
(* load(): one iteration of its loop, and the loop as a fold.  After an    *)
(* error the rest of the file is not looked at.                            *)
(***************************************************************************)
KeyTaken(st, f) == Has(st.data, st.section, f)

ParseLine(st, l) ==
  LET s == st.section
      ls == At(st.lines, s)
      keep == [st EXCEPT !.lines = With(@, s, Append(ls, l))]
      wrong == [st EXCEPT !.ok = FALSE]
  IN IF ~st.ok THEN st
     ELSE CASE l[1] \in {"blank", "comment"} -> keep
            [] l[1] \in {"unclosed", "nofield"} -> wrong
            [] l[1] = "section" ->
                 IF l[2] \in DOMAIN st.lines THEN wrong
                 ELSE [st EXCEPT !.section = l[2], !.lines = With(@, l[2], <<l>>)]
            [] l[1] = "field" ->
                 IF KeyTaken(st, l[2]) THEN wrong
                 ELSE [keep EXCEPT !.data =
                         With(@, s, Append(At(@, s), Entry(l[2], Len(ls) + 1, l[3])))]

Fresh == [ok |-> TRUE, section |-> Global,
          lines |-> [s \in {Global} |-> <<>>], data |-> [s \in {Global} |-> <<>>]]

Parse(file) == FoldLeft(ParseLine, Fresh, file)

LoadMissing ==
  /\ Called
  /\ disk = <<>>
  /\ result' = "FILENOTFOUND"
  /\ UNCHANGED <<data, lines, disk, undefined, damaged>>

Load ==
  /\ Called
  /\ disk # <<>>
  /\ LET st == Parse(disk)
     IN /\ data' = st.data /\ lines' = st.lines
        /\ result' = IF st.ok THEN "SUCCESS" ELSE "WRONG_SYNTAX"
  /\ damaged' = {}
  /\ UNCHANGED <<disk, undefined>>

-----------------------------------------------------------------------------
(***************************************************************************)
(* save(): within a section the entries are matched in the order of _data. *)
(* The text is written without its last line end, so that reading it back  *)
(* gives the same lines, and one blank line when there were none.          *)
(***************************************************************************)
(* A mistake: the lines are printed as they were read. *)
SectionTextStale(s) == lines[s]

SectionText(s) ==
  LET es == At(data, s)
      Emit(st, i) ==
        IF st.next <= Len(es) /\ es[st.next].index = i
        THEN [next |-> st.next + 1,
              out |-> Append(st.out, <<"field", es[st.next].field, es[st.next].value>>)]
        ELSE [st EXCEPT !.out = Append(@, lines[s][i])]
  IN FoldLeftDomain(Emit, [next |-> 1, out |-> <<>>], lines[s]).out

FileText ==
  LET held == SelectSeq(SectionOrder, LAMBDA s : s \in DOMAIN lines)
      text == FoldLeft(LAMBDA out, s : out \o SectionText(s), <<>>, held)
  IN IF text = <<>> THEN <<<<"blank">>>> ELSE text

(***************************************************************************)
(* Looking up _data[p.first] gives every section with lines an entry in    *)
(* _data.  A file that cannot be opened sets failbit, which bad() does not *)
(* see: nothing is written and SUCCESS is returned.                        *)
(***************************************************************************)
Save ==
  /\ Called
  /\ disk' \in {FileText, disk}
  /\ data' = [s \in DOMAIN data \cup {t \in DOMAIN lines : lines[t] # <<>>} |-> At(data, s)]
  /\ result' = "SUCCESS"
  /\ UNCHANGED <<lines, undefined, damaged>>

-----------------------------------------------------------------------------
(***************************************************************************)
(* setValue().                                                             *)
(***************************************************************************)
NewSection(s, f, v) ==
  /\ Called
  /\ s \notin DOMAIN data
  /\ lines' = With(lines, s, At(lines, s) \o <<<<"section", s>>, <<"blank">>>>)
  /\ data' = With(data, s, <<Entry(f, 2, v)>>)
  /\ damaged' = damaged \cup
       (IF s = Global THEN {"global"} ELSE IF Len(At(lines, s)) > 1 THEN {"header"} ELSE {})
  /\ UNCHANGED <<disk, result, undefined>>

Overwrite(s, f, v) ==
  /\ Called
  /\ Has(data, s, f)
  /\ data' = [data EXCEPT ![s][Position(data, s, f)].value = v]
  /\ UNCHANGED <<lines, disk, result, undefined, damaged>>

(***************************************************************************)
(* back() of an empty vector: a section without lines, or one whose last   *)
(* line is blank but which has no entry.                                   *)
(***************************************************************************)
BackOfEmpty(s) ==
  At(lines, s) # <<>> => Last(lines[s]) = <<"blank">> /\ data[s] = <<>>

(* A mistake: a new entry always goes on the last line. *)
NewIndexOnBlank(s) == Len(lines[s])

NewIndex(s) ==
  IF Last(lines[s]) = <<"blank">> /\ Last(data[s]).index # Len(lines[s])
  THEN Len(lines[s]) ELSE Len(lines[s]) + 1

Insert(s, f, v) ==
  /\ Called
  /\ s \in DOMAIN data /\ ~Has(data, s, f)
  /\ ~BackOfEmpty(s)
  /\ data' = [data EXCEPT ![s] = Append(@, Entry(f, NewIndex(s), v))]
  /\ lines' = [lines EXCEPT ![s] = Append(@, <<"blank">>)]
  /\ UNCHANGED <<disk, result, undefined, damaged>>

InsertUndefined(s, f) ==
  /\ Called
  /\ s \in DOMAIN data /\ ~Has(data, s, f)
  /\ BackOfEmpty(s)
  /\ undefined' = TRUE
  /\ UNCHANGED <<data, lines, disk, result, damaged>>

-----------------------------------------------------------------------------
(***************************************************************************)
(* removeEntry().  The indexes of the entries behind the removed one stay  *)
(* as they were although their lines move up.                              *)
(***************************************************************************)
Drop(s) == /\ data' = Without(data, s) /\ lines' = Without(lines, s)

RemoveEntry(s, f) ==
  /\ Called
  /\ Has(data, s, f)
  /\ LET n == Position(data, s, f)
         i == data[s][n].index
     IN /\ i <= Len(lines[s])
        /\ IF Len(data[s]) = 1 THEN Drop(s)
           ELSE /\ lines' = [lines EXCEPT ![s] = RemoveAt(@, i)]
                /\ data' = [data EXCEPT ![s] = RemoveAt(@, n)]
        /\ damaged' = damaged \cup (IF n < Len(data[s]) THEN {"remove"} ELSE {})
  /\ UNCHANGED <<disk, result, undefined>>

RemoveUndefined(s, f) ==
  /\ Called
  /\ Has(data, s, f)
  /\ data[s][Position(data, s, f)].index > Len(lines[s])
  /\ undefined' = TRUE
  /\ UNCHANGED <<data, lines, disk, result, damaged>>

(***************************************************************************)
(* Removing what is not there: a section without entries goes with its     *)
(* lines all the same.                                                     *)
(***************************************************************************)
RemoveMissing(s, f) ==
  /\ Called
  /\ ~Has(data, s, f)
  /\ IF At(data, s) = <<>> THEN Drop(s) ELSE UNCHANGED <<data, lines>>
  /\ UNCHANGED <<disk, result, undefined, damaged>>

Next ==
  \/ LoadMissing \/ Load \/ Save
  \/ \E s \in Sections, f \in Fields :
       \/ InsertUndefined(s, f) \/ RemoveEntry(s, f)
       \/ RemoveUndefined(s, f) \/ RemoveMissing(s, f)
       \/ \E v \in Values : NewSection(s, f, v) \/ Overwrite(s, f, v) \/ Insert(s, f, v)

Spec == Init /\ [][Next]_vars

-----------------------------------------------------------------------------
(***************************************************************************)
(* getValue<std::string>(): the value, or NoValue for VALUE_NOTFOUND.      *)
(***************************************************************************)
GetValue(map, s, f) == IF Has(map, s, f) THEN map[s][Position(map, s, f)].value ELSE NoValue

View(map) == [k \in Sections \X Fields |-> GetValue(map, k[1], k[2])]

(***************************************************************************)
(* getValue<T>() for numbers and enums, which reads the whole text.        *)
(***************************************************************************)
GetNumber(map, s, f) ==
  CASE ~Has(map, s, f) -> "VALUE_NOTFOUND"
    [] Has(map, s, f) /\ GetValue(map, s, f) \notin Numbers -> "WRONG_TYPE"
    [] OTHER -> GetValue(map, s, f)

getAllSections(map) == SelectSeq(SectionOrder, LAMBDA s : s \in DOMAIN map)
getAllEntries(map, s) == [n \in DOMAIN At(map, s) |-> map[s][n].field]

(* Everything the getters answer: the values, and the entries in their order. *)
Answers(map) ==
  [numbers |-> [k \in Sections \X Fields |-> GetNumber(map, k[1], k[2])],
   values |-> View(map),
   entries |-> [s \in Sections |-> getAllEntries(map, s)]]

GlobalFirst ==
  \A s \in DOMAIN lines \ {Global} : \E i, j \in DOMAIN SectionOrder :
    i < j /\ SectionOrder[i] = Global /\ SectionOrder[j] = s

(* What save() would write now, read back, gives the values and the entries  *)
(* of every section that the getters give now, in their order, and the same  *)
(* sections: unless the caller damaged the parser (removeEntry, iniParser.cpp *)
(* :158, does unless it removes the last entry of a section), or the Global  *)
(* section has entries and is not the first one save() prints (its lines     *)
(* have no header and would be read as part of the section before).          *)
RoundTrip ==
  damaged = {} /\ (At(data, Global) = <<>> \/ GlobalFirst) =>
    LET st == Parse(FileText)
    IN /\ st.ok
       /\ Answers(st.data) = Answers(data)
       /\ ToSet(getAllSections(st.lines)) = ToSet(getAllSections(lines)) \cup {Global}

(* Without damage, an entry's index is the index of a line that no other   *)
(* entry has, in the order of the entries: removeEntry() erases a line of  *)
(* the section (iniParser.cpp:158), save() prints every entry (:101), and  *)
(* the one call with undefined behaviour is setValue() on a section that   *)
(* load() or save() made without entries (iniParser.h:146).                *)
IndexesFit ==
  damaged = {} =>
    /\ undefined => \E s \in DOMAIN data : data[s] = <<>>
    /\ \A s \in DOMAIN data : \A n \in DOMAIN data[s] :
         /\ data[s][n].index \in 1..Len(lines[s])
         /\ \A m \in DOMAIN data[s] : m < n => data[s][m].index < data[s][n].index

Store == INSTANCE IniStore WITH store <- View(data)

(* The parser implements the map of IniStore: each call changes the value  *)
(* of its own field only, and load gives what the file says.               *)
IsStore == Store!Spec
=============================================================================
