------------------------------ MODULE Inifile ------------------------------
(* Sections and entries as they lie in memory and in the file (Inifile.cpp).                  *)
(*                                                                                            *)
(* A text is the sequence of its parts between equals signs: a line of the file is split at   *)
(* the first one.  Names are compared in upper case.  Deleted sections and entries stay with  *)
(* an empty name; the last section found and the place of the last entry found are            *)
(* remembered to begin the next search there.                                                 *)
EXTENDS Integers, Sequences, FiniteSetsExt, SequencesExt

CONSTANTS
  Upper,                    \* parts in upper case
  LookBefore, LookAhead     \* LOOKBEFORE_ENTRY_COUNT, LOOKAHEAD_ENTRY_COUNT

VARIABLES
  obj,       \* the object
  disk,      \* the lines of the file
  saving     \* the file is truncated and not yet written

Empty == <<"">>
UCase(text) == [i \in DOMAIN text |-> Upper[text[i]]]

\* The object: sec[1..], idxlastsec, strlastsec and idxlastentry.
NewObject == [sec |-> <<>>, lastsec |-> -1, strlast |-> Empty, lastent |-> -1]
ResetCache(o) == [NewObject EXCEPT !.strlast = o.strlast]

Entries(o, s) == IF s = 0 THEN <<>> ELSE o.sec[s].entry
EntryName(o, s, e) == IF e = 0 THEN Empty ELSE o.sec[s].entry[e].name    \* entry[0] is never written

\* The object after the search, and the index found or 0.
FindSection(o, name) ==
  LET found == {i \in DOMAIN o.sec : UCase(o.sec[i].name) = UCase(name)}
      i == Min(found)
  IN IF name = Empty THEN <<o, 0>>
     ELSE IF name = o.strlast /\ o.lastsec # -1 THEN <<o, o.lastsec>>
     ELSE IF found = {} THEN <<[o EXCEPT !.lastsec = -1, !.strlast = Empty], 0>>
     ELSE <<[o EXCEPT !.lastsec = i, !.strlast = o.sec[i].name], i>>

Near(o, u) == {i \in 0..u : i \in o.lastent - LookBefore .. o.lastent + LookAhead}
Matching(o, s, name, places) == {i \in places : UCase(EntryName(o, s, i)) = UCase(name)}

FoundEntry(o, s, name) ==
  LET u == Len(Entries(o, s))
      near == IF o.lastent = -1 THEN {} ELSE Matching(o, s, name, Near(o, u))
      found == IF near # {} THEN near ELSE Matching(o, s, name, 1..u)
  IN IF s = 0 \/ found = {} THEN <<o, 0>> ELSE <<[o EXCEPT !.lastent = Min(found)], Min(found)>>
FindEntry(o0, section, name) ==
  LET looked == FindSection(o0, section) IN FoundEntry(looked[1], looked[2], name)

AddSection(o0, name) ==
  LET o == FindSection(o0, name)[1]
      s == FindSection(o0, name)[2]
  IN IF s = 0 THEN <<[o EXCEPT !.sec = Append(@, [name |-> name, entry |-> <<>>])], Len(o.sec) + 1>> ELSE <<o, s>>

DeleteSection_KeepsHint(o0, name) ==
  LET o == FindSection(o0, name)[1]
      s == FindSection(o0, name)[2]
  IN IF s = 0 THEN o ELSE [o EXCEPT !.sec[s] = [name |-> Empty, entry |-> <<>>]]

DeleteSection(o0, name) ==
  LET o == FindSection(o0, name)[1]
      s == FindSection(o0, name)[2]
  IN IF s = 0 THEN o
     ELSE [o EXCEPT !.lastsec = IF s = @ THEN -1 ELSE @, !.sec[s] = [name |-> Empty, entry |-> <<>>]]

MemDeleteSection(o0, name) ==
  LET o == FindSection(o0, name)[1]
      s == FindSection(o0, name)[2]
  IN IF s = 0 THEN o ELSE [o EXCEPT !.lastsec = -1, !.sec = RemoveAt(@, s)]

WriteEntry(o0, section, name, value) ==
  LET o == FindEntry(o0, section, name)[1]
      s == FindSection(o0, section)[2]
      e == FindEntry(o0, section, name)[2]
      new == [name |-> name, value |-> value]
  IN IF s = 0 THEN o
     ELSE IF e = 0 THEN [o EXCEPT !.sec[s].entry = Append(@, new)]
     ELSE [o EXCEPT !.sec[s].entry[e] = new]

InitEntry(o, section, name, value) ==
  LET looked == FindEntry(o, section, name)
  IN IF looked[2] = 0 THEN WriteEntry(looked[1], section, name, value) ELSE looked[1]

DeleteEntry(o0, section, name) ==
  LET o == FindEntry(o0, section, name)[1]
      s == FindSection(o0, section)[2]
      e == FindEntry(o0, section, name)[2]
  IN IF e = 0 THEN o ELSE [o EXCEPT !.sec[s].entry[e] = [name |-> Empty, value |-> Empty]]

MemDeleteEntry(o0, section, name) ==
  LET o == FindEntry(o0, section, name)[1]
      s == FindSection(o0, section)[2]
      e == FindEntry(o0, section, name)[2]
  IN IF e = 0 THEN o ELSE [o EXCEPT !.sec[s].entry = RemoveAt(@, e)]

GetEntry(o0, section, name) ==
  LET o == FindEntry(o0, section, name)[1]
      s == FindSection(o0, section)[2]
      e == FindEntry(o0, section, name)[2]
  IN <<o, IF e = 0 THEN Empty ELSE o.sec[s].entry[e].value>>

Named(list) == FoldLeft(LAMBDA names, x : IF x.name = Empty THEN names ELSE Append(names, x.name), <<>>, list)
EnumSections(o) == Named(o.sec)
EnumEntries(o, section) ==
  LET looked == FindSection(o, section)
  IN <<looked[1], Named(Entries(looked[1], looked[2]))>>

\* The lines of a file.  Encrypted names and values have no equals sign.
SectionLine(name) == [section |-> TRUE, text |-> name]
EntryLine(x, crypt) == [section |-> FALSE, text |-> IF crypt THEN <<x.name, x.value>> ELSE x.name \o x.value]

SavedEntries(file, entries, crypt) ==
  FoldLeft(LAMBDA lines, x : IF x.name = Empty THEN lines ELSE Append(lines, EntryLine(x, crypt)), file, entries)
SaveToString(o, crypt) ==
  FoldLeft(LAMBDA lines, x : IF x.name = Empty THEN lines
                             ELSE SavedEntries(Append(lines, SectionLine(x.name)), x.entry, crypt), <<>>, o.sec)

LoadedEntry(text, crypt) ==
  IF crypt THEN [name |-> text[1], value |-> text[2]] ELSE [name |-> <<text[1]>>, value |-> Tail(text)]

\* Sections of the same name are joined, entries are appended as they come.
LoadedLine(acc, line, crypt) ==
  IF line.section
  THEN [obj |-> AddSection(acc.obj, line.text)[1], cur |-> AddSection(acc.obj, line.text)[2]]
  ELSE IF acc.cur = -1 \/ (~crypt /\ Len(line.text) = 1) THEN acc
  ELSE [acc EXCEPT !.obj.sec[acc.cur].entry = Append(@, LoadedEntry(line.text, crypt))]
LoadFromString(o, file, crypt) ==
  FoldLeft(LAMBDA acc, line : LoadedLine(acc, line, crypt), [obj |-> ResetCache(o), cur |-> -1], file).obj

-----------------------------------------------------------------------------
\* Save creates the file anew, empty, and then writes it; the critical section is held throughout.
SaveCreates == ~saving /\ saving' = TRUE /\ disk' = <<>> /\ UNCHANGED obj
SaveWrites(crypt) == saving /\ saving' = FALSE /\ disk' = SaveToString(obj, crypt) /\ UNCHANGED obj

Open(crypt) == ~saving /\ obj' = LoadFromString(obj, disk, crypt) /\ UNCHANGED <<disk, saving>>
New == ~saving /\ obj' = ResetCache(obj) /\ UNCHANGED <<disk, saving>>

\* The process dies, perhaps while it writes, and is started again.
Crash(crypt) ==
  /\ disk' \in IF saving THEN {SubSeq(SaveToString(obj, crypt), 1, k) : k \in 0..Len(SaveToString(obj, crypt))}
              ELSE {disk}
  /\ saving' = FALSE
  /\ obj' = LoadFromString(NewObject, disk', crypt)

\* What is stored, without the places and deleted names.
Contents(o) ==
  LET named == {i \in DOMAIN o.sec : o.sec[i].name # Empty}
      entries(i) == {x \in Range(o.sec[i].entry) : x.name # Empty}
  IN [S \in {UCase(o.sec[i].name) : i \in named} |->
        LET here == entries(CHOOSE i \in named : UCase(o.sec[i].name) = S)
        IN [K \in {UCase(x.name) : x \in here} |-> (CHOOSE x \in here : UCase(x.name) = K).value]]
=============================================================================
