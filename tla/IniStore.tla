----------------------------- MODULE IniStore ------------------------------
(* One Inifile object, encrypted as Autoruns uses it, beside the store that it promises to be: *)
(* every call is made to both.                                                                 *)
EXTENDS Inifile

CONSTANTS SectionNames, EntryNames, Values,
          MaxCalls     \* bound: calls in a behaviour

VARIABLES map, saved, promised,  \* the store
          answer,                \* returned by GetEntry last
          calls                  \* made so far

iniVars == <<obj, disk, saving, map, saved, promised, answer, calls>>

Promise == INSTANCE Store WITH Sections <- {UCase(s) : s \in SectionNames}, Keys <- {UCase(n) : n \in EntryNames},
                               Data <- Values, None <- Empty, answer <- promised

Init == obj = NewObject /\ disk = <<>> /\ saving = FALSE /\ answer = Empty /\ calls = 0 /\ Promise!Init

Called == calls < MaxCalls /\ calls' = calls + 1
Returns(o) == ~saving /\ Called /\ obj' = o /\ UNCHANGED <<disk, saving>>

SectionCall ==
  \E s \in SectionNames :
    /\ \/ Returns(AddSection(obj, s)[1]) /\ Promise!AddSection(UCase(s))
       \/ Returns(DeleteSection(obj, s)) /\ Promise!DropSection(UCase(s))
       \/ Returns(MemDeleteSection(obj, s)) /\ Promise!DropSection(UCase(s))
    /\ UNCHANGED answer

EntryCall ==
  \E s \in SectionNames, n \in EntryNames :
    /\ \/ \E v \in Values : Returns(WriteEntry(obj, s, n, v)) /\ Promise!Put(UCase(s), UCase(n), v)
       \/ \E v \in Values : Returns(InitEntry(obj, s, n, v)) /\ Promise!PutNew(UCase(s), UCase(n), v)
       \/ Returns(DeleteEntry(obj, s, n)) /\ Promise!Drop(UCase(s), UCase(n))
       \/ Returns(MemDeleteEntry(obj, s, n)) /\ Promise!Drop(UCase(s), UCase(n))
    /\ UNCHANGED answer

Get ==
  \E s \in SectionNames, n \in EntryNames :
    LET got == GetEntry(obj, s, n)
    IN Returns(got[1]) /\ answer' = got[2] /\ Promise!Get(UCase(s), UCase(n))

Enumerate == (\E s \in SectionNames : Returns(EnumEntries(obj, s)[1])) /\ UNCHANGED <<map, saved, promised, answer>>

File ==
  /\ \/ SaveCreates /\ Called /\ Promise!SaveBegins
     \/ SaveWrites(TRUE) /\ Promise!SaveEnds /\ UNCHANGED calls
     \/ Open(TRUE) /\ Called /\ Promise!Reload
     \/ New /\ Called /\ Promise!New
     \/ /\ Crash(TRUE) /\ UNCHANGED calls
        /\ IF saving THEN Promise!RestartInSave(Contents(obj')) ELSE Promise!Reload
  /\ UNCHANGED answer

Next == SectionCall \/ EntryCall \/ Get \/ Enumerate \/ File
Spec == Init /\ [][Next]_iniVars

-----------------------------------------------------------------------------
EntryType   == [name : EntryNames \cup {Empty}, value : Values \cup {Empty}]
SectionType == [name : SectionNames \cup {Empty}, entry : Seq(EntryType)]
ObjectType  == [sec : Seq(SectionType), lastsec : Int, strlast : SectionNames \cup {Empty}, lastent : Int]

\* Of a sequence of sections, or of entries: the places not deleted, their names, and
\* that no name is there twice.
Live(e) == {i \in DOMAIN e : e[i].name # Empty}
Names(e) == {UCase(e[i].name) : i \in Live(e)}
Distinct(e) == \A i, j \in Live(e) : UCase(e[i].name) = UCase(e[j].name) => i = j

\* An object whose searches can be trusted.
Sound(o) ==
  /\ o \in ObjectType
  /\ Distinct(o.sec)
  /\ \A i \in DOMAIN o.sec : Distinct(o.sec[i].entry)
  /\ o.lastsec # -1 => o.lastsec \in DOMAIN o.sec /\ o.sec[o.lastsec].name = o.strlast

\* A list of names: of each key one.
Lists(names, keys) == {UCase(names[i]) : i \in DOMAIN names} = keys
                      /\ \A i, j \in DOMAIN names : UCase(names[i]) = UCase(names[j]) => i = j
EnumTells ==
  /\ Lists(EnumSections(obj), DOMAIN map)
  /\ \A s \in SectionNames : LET listed == EnumEntries(obj, s)[2]
                             IN Lists(listed, IF UCase(s) \in DOMAIN map THEN DOMAIN map[UCase(s)] ELSE {})

\* The object and the file keep what the program wrote: whatever was deleted, searched, saved and
\* read back, each answer is the value stored last, the two agree on what there is, no hint misleads a
\* search, enumerations list each name once, and the file has the last save (FindEntry, DeleteSection,
\* EnumEntries, SaveToString, LoadFromString).
KeepsItsPromise ==
  /\ [](/\ Sound(obj) /\ Contents(obj) = map
       /\ answer = promised /\ EnumTells
       /\ saved = IF saving THEN {} ELSE {Contents(LoadFromString(NewObject, disk, TRUE))})
  /\ [][saved = {} => map' = map \/ Promise!PartOf(map', map)]_iniVars
=============================================================================
