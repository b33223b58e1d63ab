------------------------------ MODULE IniStore ------------------------------
(***************************************************************************)
(* What an IniParser promises its user (include/clockUtils/iniParser/      *)
(* iniParser.h): a map from section and field to a value, filled from a    *)
(* file.  Where lines are kept, and in which order, is not visible here.   *)
(***************************************************************************)
EXTENDS Naturals, Sequences

CONSTANTS Sections, Fields, Values, NoValue, Global

VARIABLES
  store,     \* [Sections \X Fields -> Values \cup {NoValue}]
  disk,      \* the lines of the file; <<>> when there is no file
  result     \* what the last call of load or save returned

vars == <<store, disk, result>>

Empty == [k \in Sections \X Fields |-> NoValue]

(***************************************************************************)
(* The meaning of a file: an entry belongs to the last header before it,   *)
(* or to the section Global when there is none.                            *)
(***************************************************************************)
Headers(ls, i) == {j \in 1..i : ls[j][1] = "section"}

SectionOf(ls, i) ==
  IF Headers(ls, i) = {} THEN Global
  ELSE ls[CHOOSE j \in Headers(ls, i) : \A k \in Headers(ls, i) : k <= j][2]

Defines(ls, i, s, f) ==
  ls[i][1] = "field" /\ ls[i][2] = f /\ SectionOf(ls, i) = s

Contents(ls) ==
  [k \in Sections \X Fields |->
     IF \E i \in DOMAIN ls : Defines(ls, i, k[1], k[2])
     THEN ls[CHOOSE i \in DOMAIN ls : Defines(ls, i, k[1], k[2])][3]
     ELSE NoValue]

WellFormed(ls) ==
  /\ \A i \in DOMAIN ls : ls[i][1] \notin {"unclosed", "nofield"}
  /\ \A i \in DOMAIN ls : ls[i][1] = "section" =>
       /\ ls[i][2] # Global
       /\ \A j \in DOMAIN ls : ls[j] = ls[i] => j = i
  /\ \A i, j \in DOMAIN ls :
       /\ ls[i][1] = "field" /\ ls[j][1] = "field" /\ i # j
       /\ SectionOf(ls, i) = SectionOf(ls, j)
       => ls[i][2] # ls[j][2]

Init == store = Empty /\ result = "none"

LoadMissing ==
  /\ disk = <<>>
  /\ result' = "FILENOTFOUND"
  /\ UNCHANGED <<store, disk>>

Load ==
  /\ disk # <<>> /\ WellFormed(disk)
  /\ store' = Contents(disk)
  /\ result' = "SUCCESS"
  /\ UNCHANGED disk

(***************************************************************************)
(* A file with an error is read up to the line the error is in.            *)
(***************************************************************************)
LoadWrong ==
  /\ disk # <<>> /\ ~WellFormed(disk)
  /\ \E n \in 0..(Len(disk) - 1) :
       /\ WellFormed(SubSeq(disk, 1, n)) /\ ~WellFormed(SubSeq(disk, 1, n + 1))
       /\ store' = Contents(SubSeq(disk, 1, n))
  /\ result' = "WRONG_SYNTAX"
  /\ UNCHANGED disk

Set(s, f, v) ==
  /\ store' = [store EXCEPT ![<<s, f>>] = v]
  /\ UNCHANGED <<disk, result>>

Remove(s, f) ==
  /\ store' = [store EXCEPT ![<<s, f>>] = NoValue]
  /\ UNCHANGED <<disk, result>>

Save ==
  /\ result' = "SUCCESS"
  /\ UNCHANGED store

Next ==
  \/ LoadMissing \/ Load \/ LoadWrong \/ Save
  \/ \E s \in Sections, f \in Fields :
       Remove(s, f) \/ \E v \in Values : Set(s, f, v)

Spec == Init /\ [][Next]_vars
=============================================================================
