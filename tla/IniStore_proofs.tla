--------------------------- MODULE IniStore_proofs ---------------------------
(***************************************************************************)
(* An Inifile object is the store that it promises to be, whatever is      *)
(* added, written, searched and deleted and in whatever case: the hints    *)
(* that the searches leave behind never mislead them.                      *)
(*                                                                         *)
(* The argument: no two sections, and no two entries of a section, that    *)
(* are not deleted have the same name in upper case, and the section       *)
(* remembered last has the name remembered with it (Sound).  A search then *)
(* finds the one place there is, or none (FoundIn), with the hint or       *)
(* without, and each operation changes the map of names to values as the   *)
(* store does (Stores).  An enumeration lists the names there are, each    *)
(* once.  Of the file, the part that is written after any number of lines  *)
(* reads back as the part of the store that these lines say, and all of    *)
(* them as the store (inductions over the places of the object and over    *)
(* the lines of the file); therefore object and file, through what they    *)
(* hold, are a behaviour of the abstract store.                            *)
(*                                                                         *)
(* The log of the Syslog server is kept in such an object.  What is proved *)
(* of it: no line is lost, and the next start of the service finds when it *)
(* started or stopped last.  The argument: each line that is kept has an   *)
(* entry of its second in the section of its day, and the file that is     *)
(* written reads back as the object, but for the counters (LogInv); while  *)
(* the clock is not put back, sections and entries are in order of time, a *)
(* mark stands first in its second unless that is shared, and no mark      *)
(* comes after the last one (OrderInv).                                    *)
(***************************************************************************)
EXTENDS IniStore, ServerLog, FiniteSets, SequenceLemmas

\* Names are not empty, in upper case either.
NamesAssumption == \A n \in SectionNames \cup EntryNames : UCase(n) # UCase(Empty)

\* The map f is what the entries e, the sections sec, hold.
Holds(e, f) ==
  /\ f = [K \in Names(e) |-> f[K]]
  /\ \A i \in Live(e) : f[UCase(e[i].name)] = e[i].value
Stores(sec, f) ==
  /\ f = [S \in Names(sec) |-> f[S]]
  /\ \A i \in Live(sec) : Holds(sec[i].entry, f[UCase(sec[i].name)])

\* The result i of a search for name in e.
FoundIn(e, name, i) ==
  \/ i = 0 /\ UCase(name) \notin Names(e)
  \/ i \in Live(e) /\ UCase(e[i].name) = UCase(name)

-----------------------------------------------------------------------------
(* Sequences with names.  R is a set of records with a field name.            *)

\* r is e with the record x at its end.
Extends(r, e, x) ==
  /\ Live(r) = Live(e) \cup {Len(e) + 1} /\ Names(r) = Names(e) \cup {UCase(x.name)}
  /\ r[Len(e) + 1] = x /\ \A i \in Live(e) : r[i] = e[i]

\* A new name at the end.
LEMMA NameAppended ==
  ASSUME NEW R, NEW e \in Seq(R), NEW x \in R, Distinct(e), x.name # Empty, UCase(x.name) \notin Names(e)
  PROVE  /\ Append(e, x) \in Seq(R) /\ Distinct(Append(e, x))
         /\ Extends(Append(e, x), e, x)
<1> DEFINE r == Append(e, x)
<1>1. /\ r \in Seq(R) /\ DOMAIN r = 1 .. Len(e) + 1 /\ DOMAIN e = 1 .. Len(e) /\ Len(e) \in Nat
      /\ \A i \in 1 .. Len(e) : r[i] = e[i]
      /\ r[Len(e) + 1] = x
  BY Appended
<1> HIDE DEF r
<1>2. Live(r) = Live(e) \cup {Len(e) + 1} /\ \A i \in Live(e) : r[i] = e[i]
  BY <1>1 DEF Live
<1>3. Names(r) = Names(e) \cup {UCase(x.name)}
  BY <1>1, <1>2 DEF Names
<1>4. \A i \in Live(e) : UCase(r[i].name) # UCase(x.name)
  BY <1>2 DEF Names
<1>5. Distinct(r)
  BY <1>1, <1>2, <1>4 DEF Distinct
<1>6. QED
  BY <1>1, <1>2, <1>3, <1>5 DEF Extends, r

\* Another record with the same name at the same place.
LEMMA NameKept ==
  ASSUME NEW R, NEW e \in Seq(R), NEW k \in Live(e), NEW x \in R, Distinct(e),
         x.name # Empty, UCase(x.name) = UCase(e[k].name)
  PROVE  /\ [e EXCEPT ![k] = x] \in Seq(R) /\ Distinct([e EXCEPT ![k] = x])
         /\ Live([e EXCEPT ![k] = x]) = Live(e)
         /\ Names([e EXCEPT ![k] = x]) = Names(e)
         /\ [e EXCEPT ![k] = x][k] = x
         /\ \A i \in Live(e) \ {k} : [e EXCEPT ![k] = x][i] = e[i] /\ UCase(e[i].name) # UCase(x.name)
<1> DEFINE r == [e EXCEPT ![k] = x]
<1>1. /\ r \in Seq(R) /\ DOMAIN r = DOMAIN e /\ r[k] = x /\ k \in DOMAIN e
      /\ \A i \in DOMAIN e \ {k} : r[i] = e[i]
  BY DEF Live
<1> HIDE DEF r
<1>2. Live(r) = Live(e) /\ \A i \in Live(e) : UCase(r[i].name) = UCase(e[i].name)
  BY <1>1 DEF Live
<1>3. Names(r) = Names(e) /\ Distinct(r)
  BY <1>2 DEF Names, Distinct
<1>4. \A i \in Live(e) \ {k} : r[i] = e[i] /\ UCase(e[i].name) # UCase(x.name)
  BY <1>1 DEF Live, Distinct
<1>5. QED
  BY <1>1, <1>2, <1>3, <1>4 DEF r

\* The record of a name emptied.
PutAt(e, k, x) == [e EXCEPT ![k] = x]

LEMMA NameBlanked ==
  ASSUME NEW R, NEW e \in Seq(R), NEW k \in Live(e), NEW x \in R, Distinct(e), x.name = Empty
  PROVE  /\ PutAt(e, k, x) \in Seq(R) /\ Distinct(PutAt(e, k, x))
         /\ Live(PutAt(e, k, x)) = Live(e) \ {k}
         /\ Names(PutAt(e, k, x)) = Names(e) \ {UCase(e[k].name)}
         /\ \A i \in Live(e) \ {k} : PutAt(e, k, x)[i] = e[i]
<1> DEFINE r == PutAt(e, k, x)
<1>1. /\ r \in Seq(R) /\ DOMAIN r = DOMAIN e /\ r[k] = x /\ k \in DOMAIN e
      /\ \A i \in DOMAIN e \ {k} : r[i] = e[i]
  BY DEF Live, PutAt
<1> HIDE DEF r
<1>2. Live(r) = Live(e) \ {k} /\ \A i \in Live(e) \ {k} : r[i] = e[i]
  BY <1>1 DEF Live
<1>3. Distinct(r)
  BY <1>2 DEF Distinct
<1>4. \A i \in Live(e) \ {k} : UCase(e[i].name) # UCase(e[k].name)
  BY DEF Distinct
<1>5. Names(r) = Names(e) \ {UCase(e[k].name)}
  BY <1>2, <1>4 DEF Names
<1>6. QED
  BY <1>1, <1>2, <1>3, <1>5 DEF r

\* The record of a name removed: the others move, and stay in order.
LEMMA NameRemoved ==
  ASSUME NEW R, NEW e \in Seq(R), NEW k \in Live(e), Distinct(e)
  PROVE  /\ RemoveAt(e, k) \in Seq(R) /\ Distinct(RemoveAt(e, k))
         /\ Names(RemoveAt(e, k)) = Names(e) \ {UCase(e[k].name)}
         /\ \A i \in DOMAIN RemoveAt(e, k) : \E j \in DOMAIN e \ {k} : RemoveAt(e, k)[i] = e[j]
<1> DEFINE r == RemoveAt(e, k)
           From(i) == IF i < k THEN i ELSE i + 1
<1>1. DOMAIN e = 1 .. Len(e) /\ Len(e) \in Nat /\ k \in 1 .. Len(e)
  BY DEF Live
<1>2. r \in Seq(R) /\ DOMAIN r = 1 .. Len(e) - 1 /\ \A i \in 1 .. Len(e) - 1 : r[i] = e[From(i)]
  <2>1. /\ r \in Seq(R) /\ Len(r) = Len(e) - 1
        /\ \A i \in 1 .. Len(e) - 1 : r[i] = e[IF i < k THEN i ELSE i + 1]
    BY <1>1, Removed, Zenon
  <2> HIDE DEF r
  <2>2. QED
    BY <1>1, <2>1, SMTT(30)
<1> HIDE DEF r
<1>3. \A i \in DOMAIN r : From(i) \in DOMAIN e \ {k}
  BY <1>1, <1>2
<1>4. \A i, j \in DOMAIN r : From(i) = From(j) => i = j
  BY <1>1, <1>2
<1>5. \A j \in DOMAIN e \ {k} : \E i \in DOMAIN r : From(i) = j
  <2> TAKE j \in DOMAIN e \ {k}
  <2>1. CASE j < k
    BY <1>1, <1>2, <2>1
  <2>2. CASE j > k
    <3>1. j - 1 \in DOMAIN r /\ From(j - 1) = j
      BY <1>1, <1>2, <2>2
    <3>2. QED
      BY <3>1
  <2>3. QED
    BY <1>1, <2>1, <2>2
<1> HIDE DEF From
<1>6. Distinct(r)
  BY <1>2, <1>3, <1>4 DEF Distinct, Live
<1>7. \A i \in Live(e) \ {k} : UCase(e[i].name) # UCase(e[k].name)
  BY DEF Distinct
<1>8. Names(r) = Names(e) \ {UCase(e[k].name)}
  BY <1>2, <1>3, <1>5, <1>7 DEF Names, Live
<1>9. \A i \in DOMAIN r : \E j \in DOMAIN e \ {k} : r[i] = e[j]
  BY <1>2, <1>3
<1>10. QED
  BY <1>2, <1>6, <1>8, <1>9 DEF r

-----------------------------------------------------------------------------
(* Maps.                                                                      *)

\* A map is what its entries hold, and no other is.
LEMMA OneMap ==
  ASSUME NEW sec, NEW f, NEW g, Stores(sec, f), Stores(sec, g) PROVE f = g
<1>1. ASSUME NEW e, NEW a, NEW b, Holds(e, a), Holds(e, b) PROVE a = b
  <2>1. \A K \in Names(e) : a[K] = b[K]
    BY <1>1 DEF Holds, Names
  <2>2. a = [K \in Names(e) |-> a[K]] /\ b = [K \in Names(e) |-> b[K]]
    BY <1>1 DEF Holds
  <2>3. QED
    BY <2>1, <2>2
<1>2. \A i \in Live(sec) : f[UCase(sec[i].name)] = g[UCase(sec[i].name)]
  BY <1>1 DEF Stores
<1>3. \A S \in Names(sec) : f[S] = g[S]
  BY <1>2 DEF Names
<1>4. f = [S \in Names(sec) |-> f[S]] /\ g = [S \in Names(sec) |-> g[S]]
  BY DEF Stores
<1>5. QED
  BY <1>3, <1>4

\* With and Without, on what entries hold.  WriteEntry appends or overwrites.
LEMMA EntryAppended ==
  ASSUME NEW e \in Seq(EntryType), NEW f, NEW x \in EntryType, Distinct(e), Holds(e, f),
         x.name # Empty, UCase(x.name) \notin Names(e)
  PROVE  /\ Append(e, x) \in Seq(EntryType) /\ Distinct(Append(e, x))
         /\ Holds(Append(e, x), Promise!With(f, UCase(x.name), x.value))
<1> DEFINE r == Append(e, x)
           g == Promise!With(f, UCase(x.name), x.value)
<1>1. r \in Seq(EntryType) /\ Distinct(r) /\ Extends(r, e, x)
  BY NameAppended
<1>2. DOMAIN f = Names(e)
  BY DEF Holds
<1>3. g = [K \in Names(e) \cup {UCase(x.name)} |-> IF K = UCase(x.name) THEN x.value ELSE f[K]]
  BY <1>2 DEF Promise!With
<1> HIDE DEF r, g
<1>4. g = [K \in Names(r) |-> g[K]]
  BY <1>1, <1>3 DEF Extends
<1>5. ASSUME NEW i \in Live(r) PROVE g[UCase(r[i].name)] = r[i].value
  <2>1. CASE i \in Live(e)
    <3>1. UCase(e[i].name) \in Names(e) /\ f[UCase(e[i].name)] = e[i].value
      BY <2>1 DEF Names, Holds
    <3>2. QED
      BY <1>1, <1>3, <2>1, <3>1 DEF Extends
  <2>2. CASE i = Len(e) + 1
    BY <1>1, <1>3, <2>2 DEF Extends
  <2>3. QED
    BY <1>1, <1>5, <2>1, <2>2 DEF Extends
<1>6. QED
  BY <1>1, <1>4, <1>5 DEF Holds, r, g

\* The entry there is gets the new value.
LEMMA EntryOverwritten ==
  ASSUME NEW e \in Seq(EntryType), NEW f, NEW x \in EntryType, NEW k \in Live(e), Distinct(e), Holds(e, f),
         x.name # Empty, UCase(x.name) = UCase(e[k].name)
  PROVE  /\ [e EXCEPT ![k] = x] \in Seq(EntryType) /\ Distinct([e EXCEPT ![k] = x])
         /\ Holds([e EXCEPT ![k] = x], Promise!With(f, UCase(x.name), x.value))
<1> DEFINE r == [e EXCEPT ![k] = x]
           g == Promise!With(f, UCase(x.name), x.value)
<1>1. /\ r \in Seq(EntryType) /\ Distinct(r) /\ Live(r) = Live(e) /\ Names(r) = Names(e) /\ r[k] = x
      /\ \A i \in Live(e) \ {k} : r[i] = e[i] /\ UCase(e[i].name) # UCase(x.name)
  BY NameKept
<1>2. DOMAIN f = Names(e) /\ UCase(x.name) \in Names(e)
  BY DEF Holds, Names
<1>3. g = [K \in Names(e) |-> IF K = UCase(x.name) THEN x.value ELSE f[K]]
  <2>1. Names(e) \cup {UCase(x.name)} = Names(e)
    BY <1>2
  <2>2. QED
    BY <1>2, <2>1 DEF Promise!With
<1> HIDE DEF r, g
<1>4. g = [K \in Names(r) |-> g[K]]
  BY <1>1, <1>3
<1>5. ASSUME NEW i \in Live(r) PROVE g[UCase(r[i].name)] = r[i].value
  <2>1. CASE i # k
    <3>1. UCase(e[i].name) \in Names(e) /\ f[UCase(e[i].name)] = e[i].value
      BY <1>1, <1>5 DEF Names, Holds
    <3>2. QED
      BY <1>1, <1>3, <1>5, <2>1, <3>1
  <2>2. CASE i = k
    BY <1>1, <1>2, <1>3, <2>2
  <2>3. QED
    BY <2>1, <2>2
<1>6. QED
  BY <1>1, <1>4, <1>5 DEF Holds, r, g

\* DeleteEntry empties an entry, MemDeleteEntry removes it: either way r has the other
\* entries of e, and no others.
LEMMA EntryGone ==
  ASSUME NEW e, NEW f, NEW k \in Live(e), NEW r, Holds(e, f), Distinct(e),
         Names(r) = Names(e) \ {UCase(e[k].name)},
         \A i \in Live(r) : \E j \in Live(e) \ {k} : r[i] = e[j]
  PROVE  Holds(r, Promise!Without(f, UCase(e[k].name)))
<1> DEFINE g == Promise!Without(f, UCase(e[k].name))
<1>1. DOMAIN f = Names(e)
  BY DEF Holds
<1>2. g = [K \in Names(r) |-> f[K]]
  BY <1>1 DEF Promise!Without
<1> HIDE DEF g
<1>3. g = [K \in Names(r) |-> g[K]]
  BY <1>2
<1>4. ASSUME NEW i \in Live(r) PROVE g[UCase(r[i].name)] = r[i].value
  <2>1. PICK j \in Live(e) \ {k} : r[i] = e[j]
    BY <1>4
  <2>2. UCase(r[i].name) \in Names(r)
    BY DEF Names
  <2>3. f[UCase(e[j].name)] = e[j].value
    BY DEF Holds
  <2>4. QED
    BY <1>2, <2>1, <2>2, <2>3
<1>5. QED
  BY <1>3, <1>4 DEF Holds, g

\* The same for sections.  AddSection appends an empty one.
LEMMA SectionAppended ==
  ASSUME NEW sec \in Seq(SectionType), NEW f, NEW x \in SectionType, Distinct(sec), Stores(sec, f),
         x.name # Empty, x.entry = <<>>, UCase(x.name) \notin Names(sec)
  PROVE  /\ Append(sec, x) \in Seq(SectionType) /\ Distinct(Append(sec, x))
         /\ Stores(Append(sec, x), Promise!With(f, UCase(x.name), Promise!NoKeys))
<1> DEFINE r == Append(sec, x)
           g == Promise!With(f, UCase(x.name), Promise!NoKeys)
<1>1. r \in Seq(SectionType) /\ Distinct(r) /\ Extends(r, sec, x)
  BY NameAppended
<1>2. DOMAIN f = Names(sec)
  BY DEF Stores
<1>3. g = [S \in Names(sec) \cup {UCase(x.name)} |-> IF S = UCase(x.name) THEN Promise!NoKeys ELSE f[S]]
  BY <1>2 DEF Promise!With
<1>4. Holds(<<>>, Promise!NoKeys)
  <2>1. Live(<<>>) = {}
    BY DEF Live
  <2>2. Names(<<>>) = {}
    BY <2>1 DEF Names
  <2>3. QED
    BY <2>1, <2>2 DEF Holds, Promise!NoKeys
<1> HIDE DEF r, g
<1>5. g = [S \in Names(r) |-> g[S]]
  BY <1>1, <1>3 DEF Extends
<1>6. ASSUME NEW i \in Live(r) PROVE Holds(r[i].entry, g[UCase(r[i].name)])
  <2>1. CASE i \in Live(sec)
    <3>1. UCase(sec[i].name) \in Names(sec) /\ Holds(sec[i].entry, f[UCase(sec[i].name)])
      BY <2>1 DEF Names, Stores
    <3>2. UCase(sec[i].name) # UCase(x.name)
      BY <3>1
    <3>3. r[i] = sec[i] /\ g[UCase(sec[i].name)] = f[UCase(sec[i].name)]
      BY <1>1, <1>3, <2>1, <3>1, <3>2 DEF Extends
    <3>4. QED
      BY <3>1, <3>3
  <2>2. CASE i = Len(sec) + 1
    BY <1>1, <1>3, <1>4, <2>2 DEF Extends
  <2>3. QED
    BY <1>1, <1>6, <2>1, <2>2 DEF Extends
<1>7. QED
  BY <1>1, <1>5, <1>6 DEF Stores, r, g

\* DeleteSection empties a section, MemDeleteSection removes it.
LEMMA SectionGone ==
  ASSUME NEW sec, NEW f, NEW k \in Live(sec), NEW r, Stores(sec, f), Distinct(sec),
         Names(r) = Names(sec) \ {UCase(sec[k].name)},
         \A i \in Live(r) : \E j \in Live(sec) \ {k} : r[i] = sec[j]
  PROVE  Stores(r, Promise!Without(f, UCase(sec[k].name)))
<1> DEFINE g == Promise!Without(f, UCase(sec[k].name))
<1>1. DOMAIN f = Names(sec)
  BY DEF Stores
<1>2. g = [S \in Names(r) |-> f[S]]
  BY <1>1 DEF Promise!Without
<1> HIDE DEF g
<1>3. g = [S \in Names(r) |-> g[S]]
  BY <1>2
<1>4. ASSUME NEW i \in Live(r) PROVE Holds(r[i].entry, g[UCase(r[i].name)])
  <2>1. PICK j \in Live(sec) \ {k} : r[i] = sec[j]
    BY <1>4
  <2>2. UCase(r[i].name) \in Names(r)
    BY DEF Names
  <2>3. Holds(sec[j].entry, f[UCase(sec[j].name)])
    BY DEF Stores
  <2>4. g[UCase(r[i].name)] = f[UCase(r[i].name)]
    BY <1>2, <2>2
  <2>5. QED
    BY <2>1, <2>3, <2>4
<1>5. QED
  BY <1>3, <1>4 DEF Stores, g

\* The entries of one section change: the map changes at its name.
LEMMA SectionChanged ==
  ASSUME NEW sec \in Seq(SectionType), NEW f, NEW s \in Live(sec), NEW e \in Seq(EntryType), NEW h,
         Distinct(sec), Stores(sec, f), Holds(e, h)
  PROVE  /\ [sec EXCEPT ![s].entry = e] \in Seq(SectionType) /\ Distinct([sec EXCEPT ![s].entry = e])
         /\ Stores([sec EXCEPT ![s].entry = e], [f EXCEPT ![UCase(sec[s].name)] = h])
<1> DEFINE x == [sec[s] EXCEPT !.entry = e]
           r == [sec EXCEPT ![s] = x]
           g == [f EXCEPT ![UCase(sec[s].name)] = h]
<1>0. s \in DOMAIN sec /\ sec[s] \in SectionType /\ sec[s].name # Empty
  BY DEF Live
<1>1. x \in SectionType /\ x.name = sec[s].name /\ x.entry = e
  BY <1>0 DEF SectionType
<1>2. /\ r \in Seq(SectionType) /\ Distinct(r) /\ Live(r) = Live(sec) /\ Names(r) = Names(sec) /\ r[s] = x
      /\ \A i \in Live(sec) \ {s} : r[i] = sec[i] /\ UCase(sec[i].name) # UCase(x.name)
  <2> HIDE DEF x
  <2>1. QED
    BY <1>0, <1>1, NameKept
<1>3. [sec EXCEPT ![s].entry = e] = r
  OBVIOUS
<1>4. f = [S \in Names(sec) |-> f[S]] /\ UCase(sec[s].name) \in Names(sec)
  BY DEF Stores, Names
<1>5. g = [S \in Names(sec) |-> IF S = UCase(sec[s].name) THEN h ELSE f[S]]
  BY <1>4
<1> HIDE DEF r, g, x
<1>6. g = [S \in Names(r) |-> g[S]]
  BY <1>2, <1>5
<1>7. ASSUME NEW i \in Live(r) PROVE Holds(r[i].entry, g[UCase(r[i].name)])
  <2>1. CASE i # s
    <3>1. UCase(sec[i].name) \in Names(sec) /\ Holds(sec[i].entry, f[UCase(sec[i].name)])
      BY <1>2, <1>7 DEF Names, Stores
    <3>2. r[i] = sec[i] /\ g[UCase(sec[i].name)] = f[UCase(sec[i].name)]
      BY <1>1, <1>2, <1>5, <1>7, <2>1, <3>1
    <3>3. QED
      BY <3>1, <3>2
  <2>2. CASE i = s
    BY <1>1, <1>2, <1>4, <1>5, <2>2
  <2>3. QED
    BY <2>1, <2>2
<1>8. Stores(r, g)
  BY <1>6, <1>7 DEF Stores
<1>9. QED
  BY <1>2, <1>3, <1>8 DEF g

-----------------------------------------------------------------------------
(* The searches.                                                              *)

\* The least of the places where a name is, which is the only one.
LEMMA OnlyPlace ==
  ASSUME NEW M \in SUBSET Int, NEW i \in M, \A j \in M : j = i PROVE Min(M) = i
<1>1. \A y \in M : i <= y
  OBVIOUS
<1>2. \A x \in M : x = i
  OBVIOUS
<1>3. QED
  BY <1>1, <1>2 DEF Min

\* A dead place has no name that is asked for.
LEMMA NamedAreLive ==
  ASSUME NEW R, NEW e \in Seq(R), NEW name, UCase(name) # UCase(Empty)
  PROVE  \A i \in DOMAIN e : UCase(e[i].name) = UCase(name) => i \in Live(e)
<1>1. ASSUME NEW i \in DOMAIN e, UCase(e[i].name) = UCase(name) PROVE e[i].name # Empty
  BY <1>1
<1>2. QED
  BY <1>1 DEF Live

\* Another hint for the sections.
Hinted(o, i, name) == [o EXCEPT !.lastsec = i, !.strlast = name]

LEMMA HintChanged ==
  ASSUME NEW o \in ObjectType, NEW i \in Int, NEW name \in SectionNames \cup {Empty}
  PROVE  /\ Hinted(o, i, name) \in ObjectType /\ Hinted(o, i, name).sec = o.sec
         /\ Hinted(o, i, name).lastsec = i /\ Hinted(o, i, name).strlast = name
<1>1. o \in [sec : Seq(SectionType), lastsec : Int, strlast : SectionNames \cup {Empty}, lastent : Int]
  BY DEF ObjectType
<1>2. QED
  BY <1>1 DEF ObjectType, Hinted

\* FindSection finds the section of that name, from its hint or by searching.
LEMMA FindsSection ==
  ASSUME NamesAssumption, NEW o, Sound(o), NEW name \in SectionNames
  PROVE  /\ Sound(FindSection(o, name)[1]) /\ FindSection(o, name)[1].sec = o.sec
         /\ FoundIn(o.sec, name, FindSection(o, name)[2])
<1> DEFINE found == {i \in DOMAIN o.sec : UCase(o.sec[i].name) = UCase(name)}
           i == Min(found)
<1>1. UCase(name) # UCase(Empty) /\ name # Empty
  BY DEF NamesAssumption
<1>2. /\ o \in ObjectType /\ o.sec \in Seq(SectionType) /\ Distinct(o.sec)
      /\ DOMAIN o.sec = 1 .. Len(o.sec) /\ Len(o.sec) \in Nat
  BY LenProperties DEF Sound, ObjectType
<1>3. found \subseteq Live(o.sec)
  BY <1>1, <1>2, NamedAreLive
<1>4. CASE name = o.strlast /\ o.lastsec # -1
  <2>1. o.lastsec \in Live(o.sec) /\ o.sec[o.lastsec].name = name
    BY <1>1, <1>4 DEF Sound, Live
  <2>2. FindSection(o, name) = <<o, o.lastsec>>
    BY <1>1, <1>4 DEF FindSection
  <2>3. QED
    BY <2>1, <2>2 DEF FoundIn
<1>5. CASE ~(name = o.strlast /\ o.lastsec # -1) /\ found = {}
  <2> DEFINE p == Hinted(o, -1, Empty)
  <2>1. FindSection(o, name) = <<p, 0>>
    BY <1>1, <1>5 DEF FindSection, Hinted
  <2>2. p \in ObjectType /\ p.sec = o.sec /\ p.lastsec = -1
    <3>1. -1 \in Int /\ Empty \in SectionNames \cup {Empty}
      OBVIOUS
    <3>2. QED
      BY <1>2, <3>1, HintChanged
  <2> HIDE DEF p
  <2>3. Sound(p)
    BY <2>2 DEF Sound
  <2>4. UCase(name) \notin Names(o.sec)
    BY <1>5 DEF Names, Live
  <2>5. QED
    BY <2>1, <2>2, <2>3, <2>4 DEF FoundIn
<1>6. CASE ~(name = o.strlast /\ o.lastsec # -1) /\ found # {}
  <2> DEFINE p == Hinted(o, i, o.sec[i].name)
  <2>1. FindSection(o, name) = <<p, i>>
    BY <1>1, <1>6 DEF FindSection, Hinted
  <2>2. PICK j \in found : TRUE
    BY <1>6
  <2>3. \A k \in found : k = j
    BY <1>2, <1>3 DEF Distinct
  <2>4. i = j
    <3>1. found \in SUBSET Int
      BY <1>2
    <3> HIDE DEF found
    <3>2. QED
      BY <2>2, <2>3, <3>1, OnlyPlace
  <2> HIDE DEF i
  <2>5. i \in Live(o.sec) /\ i \in DOMAIN o.sec /\ i \in Int /\ UCase(o.sec[i].name) = UCase(name)
    BY <1>2, <1>3, <2>2, <2>4
  <2> HIDE DEF found
  <2>6. o.sec[i].name \in SectionNames \cup {Empty}
    <3>1. o.sec[i] \in SectionType
      BY <1>2, <2>5, ElementOfSeq
    <3>2. QED
      BY <3>1 DEF SectionType
  <2>7. p \in ObjectType /\ p.sec = o.sec /\ p.lastsec = i /\ p.strlast = o.sec[i].name
    BY <1>2, <2>5, <2>6, HintChanged
  <2> HIDE DEF p
  <2>8. Sound(p)
    BY <2>5, <2>7 DEF Sound
  <2>9. QED
    BY <2>1, <2>5, <2>7, <2>8 DEF FoundIn
<1>7. QED
  BY <1>4, <1>5, <1>6

\* Another hint for the entries.
Recalled(o, i) == [o EXCEPT !.lastent = i]

LEMMA RecallChanged ==
  ASSUME NEW o, Sound(o), NEW i \in Int PROVE Sound(Recalled(o, i)) /\ Recalled(o, i).sec = o.sec
<1>1. o \in [sec : Seq(SectionType), lastsec : Int, strlast : SectionNames \cup {Empty}, lastent : Int]
  BY DEF Sound, ObjectType
<1>2. /\ Recalled(o, i) \in ObjectType /\ Recalled(o, i).sec = o.sec
      /\ Recalled(o, i).lastsec = o.lastsec /\ Recalled(o, i).strlast = o.strlast
  BY <1>1 DEF ObjectType, Recalled
<1>3. QED
  BY <1>2 DEF Sound

\* A section found has entries with distinct names.
LEMMA EntriesOf ==
  ASSUME NEW o, Sound(o), NEW s \in Live(o.sec)
  PROVE  /\ o.sec \in Seq(SectionType) /\ s \in DOMAIN o.sec /\ s \in Nat \ {0}
         /\ o.sec[s] \in SectionType /\ o.sec[s].entry \in Seq(EntryType) /\ Distinct(o.sec[s].entry)
         /\ DOMAIN o.sec[s].entry = 1 .. Len(o.sec[s].entry) /\ Len(o.sec[s].entry) \in Nat
<1>1. o.sec \in Seq(SectionType) /\ s \in DOMAIN o.sec /\ DOMAIN o.sec = 1 .. Len(o.sec) /\ Len(o.sec) \in Nat
  BY LenProperties DEF Sound, ObjectType, Live
<1>2. o.sec[s] \in SectionType
  BY <1>1, ElementOfSeq
<1>3. o.sec[s].entry \in Seq(EntryType) /\ Distinct(o.sec[s].entry)
  BY <1>1, <1>2 DEF Sound, SectionType
<1>4. QED
  BY <1>1, <1>2, <1>3, LenProperties

\* FindEntry finds the entry of that name in the section of that name, from its hint or by
\* searching.  entry[0], which the hint lets it look at, has no name.
LEMMA FindsEntry ==
  ASSUME NamesAssumption, NEW o0, Sound(o0), NEW section \in SectionNames, NEW name \in EntryNames
  PROVE  LET r == FindEntry(o0, section, name)
             s == FindSection(o0, section)[2]
         IN /\ Sound(r[1]) /\ r[1].sec = o0.sec
            /\ FoundIn(o0.sec, section, s)
            /\ s = 0 => r[2] = 0
            /\ s # 0 => s \in Live(o0.sec) /\ FoundIn(o0.sec[s].entry, name, r[2])
<1> DEFINE o == FindSection(o0, section)[1]
           s == FindSection(o0, section)[2]
           e == o0.sec[s].entry
           u == Len(Entries(o, s))
           near == IF o.lastent = -1 THEN {} ELSE Matching(o, s, name, Near(o, u))
           all == Matching(o, s, name, 1 .. u)
           found == IF near # {} THEN near ELSE all
           r == FindEntry(o0, section, name)
<1>1. Sound(o) /\ o.sec = o0.sec /\ FoundIn(o0.sec, section, s)
  BY FindsSection
<1>2. r = IF s = 0 \/ found = {} THEN <<o, 0>> ELSE <<Recalled(o, Min(found)), Min(found)>>
  BY DEF FindEntry, FoundEntry, Recalled
<1> HIDE DEF o, s, r
<1>3. CASE s = 0
  BY <1>1, <1>2, <1>3 DEF o, s, r
<1>4. CASE s # 0
  <2>1. s \in Live(o0.sec)
    BY <1>1, <1>4 DEF FoundIn
  <2>2. e \in Seq(EntryType) /\ Distinct(e) /\ DOMAIN e = 1 .. Len(e) /\ Len(e) \in Nat
    BY <2>1, EntriesOf
  <2>3. u = Len(e) /\ \A i \in 1 .. u : EntryName(o, s, i) = e[i].name
    BY <1>1, <1>4, <2>2 DEF Entries, EntryName
  <2>4. EntryName(o, s, 0) = Empty /\ UCase(name) # UCase(Empty)
    BY DEF EntryName, NamesAssumption
  <2> HIDE DEF e, u
  <2>5. all = {i \in DOMAIN e : UCase(e[i].name) = UCase(name)} /\ all \subseteq Live(e)
    <3>1. all = {i \in DOMAIN e : UCase(e[i].name) = UCase(name)}
      BY <2>2, <2>3 DEF Matching
    <3>2. QED
      BY <2>2, <2>4, <3>1, NamedAreLive
  <2>6. near \subseteq all
    <3>1. \A i \in Near(o, u) : i = 0 \/ i \in 1 .. u
      BY <2>2, <2>3 DEF Near
    <3>2. QED
      BY <2>4, <3>1 DEF Matching
  <2>7. found \subseteq all /\ (found = {} => all = {})
    BY <2>6
  <2> HIDE DEF near, all, found
  <2>8. CASE found = {}
    <3>1. r = <<o, 0>>
      BY <1>2, <2>8
    <3>2. UCase(name) \notin Names(e)
      BY <2>5, <2>7, <2>8 DEF Names, Live
    <3>3. FoundIn(e, name, r[2])
      BY <3>1, <3>2 DEF FoundIn
    <3>4. QED
      BY <1>1, <1>4, <2>1, <3>1, <3>3 DEF s, r, e
  <2>9. CASE found # {}
    <3>1. PICK i \in found : TRUE
      BY <2>9
    <3>2. \A j \in found : j = i
      <4>1. i \in Live(e) /\ UCase(e[i].name) = UCase(name)
        BY <2>5, <2>7, <3>1
      <4>2. ASSUME NEW j \in found PROVE j \in Live(e) /\ UCase(e[j].name) = UCase(name)
        BY <2>5, <2>7, <4>2
      <4>3. QED
        BY <2>2, <4>1, <4>2 DEF Distinct
    <3>3. found \in SUBSET Int
      BY <2>2, <2>5, <2>7
    <3>4. Min(found) = i
      BY <3>1, <3>2, <3>3, OnlyPlace
    <3>5. i \in Live(e) /\ UCase(e[i].name) = UCase(name) /\ i \in Int
      BY <2>5, <2>7, <3>1, <3>3
    <3>6. r = <<Recalled(o, i), i>>
      BY <1>2, <1>4, <2>9, <3>4
    <3>7. Sound(Recalled(o, i)) /\ Recalled(o, i).sec = o.sec
      BY <1>1, <3>5, RecallChanged
    <3>8. FoundIn(e, name, r[2])
      BY <3>5, <3>6 DEF FoundIn
    <3>9. QED
      BY <1>1, <1>4, <2>1, <3>6, <3>7, <3>8 DEF s, r, e
  <2>10. QED
    BY <2>8, <2>9
<1>5. QED
  BY <1>3, <1>4

-----------------------------------------------------------------------------
(* The operations: each keeps the object sound, and changes the map as the    *)
(* store does.                                                                *)

\* What every operation must show.
Keeps(o, f) == Sound(o) /\ Stores(o.sec, f)

\* The object with other sections, and the hint moved or dropped.
Resectioned(o, sec, i) == [o EXCEPT !.sec = sec, !.lastsec = i]

LEMMA SectionsChanged ==
  ASSUME NEW o, Sound(o), NEW sec \in Seq(SectionType), Distinct(sec), NEW i \in Int,
         \A j \in DOMAIN sec : Distinct(sec[j].entry),
         i # -1 => i \in DOMAIN sec /\ sec[i].name = o.strlast
  PROVE  Sound(Resectioned(o, sec, i)) /\ Resectioned(o, sec, i).sec = sec
<1>1. o \in [sec : Seq(SectionType), lastsec : Int, strlast : SectionNames \cup {Empty}, lastent : Int]
  BY DEF Sound, ObjectType
<1>2. /\ Resectioned(o, sec, i) \in ObjectType /\ Resectioned(o, sec, i).sec = sec
      /\ Resectioned(o, sec, i).lastsec = i /\ Resectioned(o, sec, i).strlast = o.strlast
  BY <1>1 DEF ObjectType, Resectioned
<1>3. QED
  BY <1>2 DEF Sound

\* The object with other entries in a section.
Edited(o, s, e) == [o EXCEPT !.sec[s].entry = e]

LEMMA EntriesChanged ==
  ASSUME NEW o, NEW f, Keeps(o, f), NEW s \in Live(o.sec), NEW e \in Seq(EntryType), Distinct(e),
         NEW h, Holds(e, h)
  PROVE  Keeps(Edited(o, s, e), [f EXCEPT ![UCase(o.sec[s].name)] = h])
<1> DEFINE sec == [o.sec EXCEPT ![s].entry = e]
<1>1. Sound(o) /\ Stores(o.sec, f)
  BY DEF Keeps
<1>2. o \in [sec : Seq(SectionType), lastsec : Int, strlast : SectionNames \cup {Empty}, lastent : Int]
  BY <1>1 DEF Sound, ObjectType
<1>3. o.sec \in Seq(SectionType) /\ Distinct(o.sec) /\ s \in DOMAIN o.sec /\ o.sec[s] \in SectionType
  BY <1>1, EntriesOf DEF Sound
<1>4. /\ sec \in Seq(SectionType) /\ Distinct(sec)
      /\ Stores(sec, [f EXCEPT ![UCase(o.sec[s].name)] = h])
  BY <1>1, <1>3, SectionChanged
<1>5. /\ DOMAIN sec = DOMAIN o.sec
      /\ \A j \in DOMAIN o.sec \ {s} : sec[j] = o.sec[j]
      /\ sec[s].name = o.sec[s].name /\ sec[s].entry = e
  BY <1>3 DEF SectionType
<1>6. Edited(o, s, e) = Resectioned(o, sec, o.lastsec)
  BY <1>2 DEF Edited, Resectioned
<1> HIDE DEF sec
<1>7. \A j \in DOMAIN sec : Distinct(sec[j].entry)
  BY <1>1, <1>5 DEF Sound
<1>8. o.lastsec # -1 => o.lastsec \in DOMAIN sec /\ sec[o.lastsec].name = o.strlast
  BY <1>1, <1>5 DEF Sound
<1>9. o.lastsec \in Int
  BY <1>2
<1>10. Sound(Resectioned(o, sec, o.lastsec)) /\ Resectioned(o, sec, o.lastsec).sec = sec
  BY <1>1, <1>4, <1>7, <1>8, <1>9, SectionsChanged
<1>11. QED
  BY <1>4, <1>6, <1>10 DEF Keeps

\* A name that is not in a map is not taken from it.
LEMMA NothingWithout ==
  ASSUME NEW f, NEW K, f = [y \in DOMAIN f |-> f[y]], K \notin DOMAIN f PROVE Promise!Without(f, K) = f
<1>1. DOMAIN f \ {K} = DOMAIN f
  OBVIOUS
<1>2. QED
  BY <1>1 DEF Promise!Without

\* What a search says about the map.
LEMMA SearchTells ==
  ASSUME NEW sec, NEW f, Stores(sec, f), NEW name, NEW s, FoundIn(sec, name, s), 0 \notin DOMAIN sec
  PROVE  /\ f = [S \in DOMAIN f |-> f[S]] /\ DOMAIN f = Names(sec)
         /\ s = 0 => UCase(name) \notin DOMAIN f
         /\ s # 0 => /\ s \in Live(sec) /\ UCase(sec[s].name) = UCase(name) /\ UCase(name) \in DOMAIN f
                     /\ Holds(sec[s].entry, f[UCase(name)])
<1>1. f = [S \in Names(sec) |-> f[S]]
  BY DEF Stores
<1>2. DOMAIN f = Names(sec)
  BY <1>1
<1>3. CASE s = 0
  BY <1>1, <1>2, <1>3 DEF FoundIn, Live
<1>4. CASE s # 0
  <2>1. s \in Live(sec) /\ UCase(sec[s].name) = UCase(name)
    BY <1>4 DEF FoundIn
  <2>2. UCase(name) \in Names(sec)
    BY <2>1 DEF Names
  <2>3. Holds(sec[s].entry, f[UCase(name)])
    BY <2>1 DEF Stores
  <2>4. QED
    BY <1>1, <1>2, <1>4, <2>1, <2>2, <2>3
<1>5. QED
  BY <1>3, <1>4

LEMMA EntrySearchTells ==
  ASSUME NEW e, NEW f, Holds(e, f), NEW name, NEW i, FoundIn(e, name, i), 0 \notin DOMAIN e
  PROVE  /\ f = [K \in DOMAIN f |-> f[K]] /\ DOMAIN f = Names(e)
         /\ i = 0 => UCase(name) \notin DOMAIN f
         /\ i # 0 => /\ i \in Live(e) /\ UCase(e[i].name) = UCase(name) /\ UCase(name) \in DOMAIN f
                     /\ f[UCase(name)] = e[i].value
<1>1. f = [K \in Names(e) |-> f[K]]
  BY DEF Holds
<1>2. DOMAIN f = Names(e)
  BY <1>1
<1>3. CASE i = 0
  BY <1>1, <1>2, <1>3 DEF FoundIn, Live
<1>4. CASE i # 0
  <2>1. i \in Live(e) /\ UCase(e[i].name) = UCase(name)
    BY <1>4 DEF FoundIn
  <2>2. UCase(name) \in Names(e)
    BY <2>1 DEF Names
  <2>3. f[UCase(name)] = e[i].value
    BY <2>1 DEF Holds
  <2>4. QED
    BY <1>1, <1>2, <1>4, <2>1, <2>2, <2>3
<1>5. QED
  BY <1>3, <1>4

\* No place 0 among the sections.
LEMMA FromOne ==
  ASSUME NEW o, Sound(o) PROVE o.sec \in Seq(SectionType) /\ DOMAIN o.sec = 1 .. Len(o.sec) /\ Len(o.sec) \in Nat
                              /\ 0 \notin DOMAIN o.sec /\ o.lastsec \in Int
<1>1. o.sec \in Seq(SectionType) /\ o.lastsec \in Int
  BY DEF Sound, ObjectType
<1>2. DOMAIN o.sec = 1 .. Len(o.sec) /\ Len(o.sec) \in Nat
  BY <1>1, LenProperties
<1>3. QED
  BY <1>1, <1>2

\* Empty entries.
LEMMA NoEntries ==
  <<>> \in Seq(EntryType) /\ Distinct(<<>>) /\ Live(<<>>) = {} /\ Names(<<>>) = {}
<1>1. <<>> \in Seq(EntryType) /\ Live(<<>>) = {}
  BY DEF Live
<1>2. QED
  BY <1>1 DEF Names, Distinct

\* AddSection appends a section unless there is one of that name.
LEMMA AddSectionKeeps ==
  ASSUME NamesAssumption, NEW o0, NEW f, Keeps(o0, f), NEW name \in SectionNames
  PROVE  Keeps(AddSection(o0, name)[1],
               IF UCase(name) \in DOMAIN f THEN f ELSE Promise!With(f, UCase(name), Promise!NoKeys))
<1> DEFINE o == FindSection(o0, name)[1]
           s == FindSection(o0, name)[2]
           x == [name |-> name, entry |-> <<>>]
           sec == Append(o.sec, x)
<1>1. Sound(o0) /\ Stores(o0.sec, f)
  BY DEF Keeps
<1>2. Sound(o) /\ o.sec = o0.sec /\ FoundIn(o.sec, name, s)
  BY <1>1, FindsSection
<1>3. AddSection(o0, name)[1] = IF s = 0 THEN Resectioned(o, sec, o.lastsec) ELSE o
  <2>1. o \in [sec : Seq(SectionType), lastsec : Int, strlast : SectionNames \cup {Empty}, lastent : Int]
    BY <1>2 DEF Sound, ObjectType
  <2> HIDE DEF o, s
  <2>2. [o EXCEPT !.sec = sec] = Resectioned(o, sec, o.lastsec)
    BY <2>1 DEF Resectioned
  <2>3. QED
    BY <2>2 DEF AddSection, o, s
<1> HIDE DEF o, s
<1>4. o.sec \in Seq(SectionType) /\ DOMAIN o.sec = 1 .. Len(o.sec) /\ Len(o.sec) \in Nat /\ 0 \notin DOMAIN o.sec /\ o.lastsec \in Int
  BY <1>2, FromOne
<1>5. (s = 0 => UCase(name) \notin DOMAIN f) /\ (s # 0 => UCase(name) \in DOMAIN f) /\ DOMAIN f = Names(o.sec)
  BY <1>1, <1>2, <1>4, SearchTells
<1>6. CASE s # 0
  BY <1>1, <1>2, <1>3, <1>5, <1>6 DEF Keeps
<1>7. CASE s = 0
  <2>1. x \in SectionType /\ x.name = name /\ x.entry = <<>> /\ name # Empty
    BY NoEntries DEF SectionType, NamesAssumption
  <2> HIDE DEF x
  <2>2. Distinct(o.sec) /\ UCase(x.name) \notin Names(o.sec)
    BY <1>2, <1>5, <1>7, <2>1 DEF Sound
  <2>3. /\ sec \in Seq(SectionType) /\ Distinct(sec)
        /\ Stores(sec, Promise!With(f, UCase(name), Promise!NoKeys))
    BY <1>1, <1>2, <1>4, <2>1, <2>2, SectionAppended
  <2>4. /\ DOMAIN sec = 1 .. Len(o.sec) + 1 /\ sec[Len(o.sec) + 1] = x
        /\ \A j \in DOMAIN o.sec : sec[j] = o.sec[j]
    BY <1>4, <2>1, Appended
  <2> HIDE DEF sec
  <2>5. \A j \in DOMAIN sec : Distinct(sec[j].entry)
    <3>1. Distinct(x.entry)
      BY <2>1, NoEntries
    <3>2. QED
      BY <1>2, <1>4, <2>4, <3>1 DEF Sound
  <2>6. o.lastsec # -1 => o.lastsec \in DOMAIN sec /\ sec[o.lastsec].name = o.strlast
    BY <1>2, <1>4, <2>4 DEF Sound
  <2>7. Sound(Resectioned(o, sec, o.lastsec)) /\ Resectioned(o, sec, o.lastsec).sec = sec
    BY <1>2, <1>4, <2>3, <2>5, <2>6, SectionsChanged
  <2>8. QED
    BY <1>3, <1>5, <1>7, <2>3, <2>7 DEF Keeps
<1>8. QED
  BY <1>6, <1>7

\* DeleteSection empties the section and drops the hint if it names it.
LEMMA DeleteSectionKeeps ==
  ASSUME NamesAssumption, NEW o0, NEW f, Keeps(o0, f), NEW name \in SectionNames
  PROVE  Keeps(DeleteSection(o0, name), Promise!Without(f, UCase(name)))
<1> DEFINE o == FindSection(o0, name)[1]
           s == FindSection(o0, name)[2]
           x == [name |-> Empty, entry |-> <<>>]
           sec == PutAt(o.sec, s, x)
           hint == IF s = o.lastsec THEN -1 ELSE o.lastsec
<1>1. Sound(o0) /\ Stores(o0.sec, f)
  BY DEF Keeps
<1>2. Sound(o) /\ o.sec = o0.sec /\ FoundIn(o.sec, name, s)
  BY <1>1, FindsSection
<1>3. DeleteSection(o0, name) = IF s = 0 THEN o ELSE Resectioned(o, sec, hint)
  <2>1. o \in [sec : Seq(SectionType), lastsec : Int, strlast : SectionNames \cup {Empty}, lastent : Int]
    BY <1>2 DEF Sound, ObjectType
  <2> HIDE DEF o, s, x
  <2>2. [o EXCEPT !.lastsec = IF s = @ THEN -1 ELSE @, !.sec[s] = x] = Resectioned(o, sec, hint)
    BY <2>1 DEF Resectioned, PutAt
  <2>3. QED
    BY <2>2 DEF DeleteSection, o, s, x
<1> HIDE DEF o, s
<1>4. o.sec \in Seq(SectionType) /\ DOMAIN o.sec = 1 .. Len(o.sec) /\ Len(o.sec) \in Nat /\ 0 \notin DOMAIN o.sec /\ o.lastsec \in Int
  BY <1>2, FromOne
<1>5. /\ f = [S \in DOMAIN f |-> f[S]]
      /\ s = 0 => UCase(name) \notin DOMAIN f
      /\ s # 0 => s \in Live(o.sec) /\ UCase(o.sec[s].name) = UCase(name)
  BY <1>1, <1>2, <1>4, SearchTells
<1>6. CASE s = 0
  BY <1>1, <1>2, <1>3, <1>5, <1>6, NothingWithout DEF Keeps
<1>7. CASE s # 0
  <2>1. x \in SectionType /\ x.name = Empty /\ x.entry = <<>>
    BY NoEntries DEF SectionType
  <2> HIDE DEF x
  <2>2. Distinct(o.sec) /\ s \in Live(o.sec) /\ s \in DOMAIN o.sec
    BY <1>2, <1>5, <1>7 DEF Sound, Live
  <2>3. /\ sec \in Seq(SectionType) /\ Distinct(sec) /\ Live(sec) = Live(o.sec) \ {s}
        /\ Names(sec) = Names(o.sec) \ {UCase(o.sec[s].name)}
        /\ \A i \in Live(o.sec) \ {s} : sec[i] = o.sec[i]
    BY <1>4, <2>1, <2>2, NameBlanked
  <2>4. DOMAIN sec = DOMAIN o.sec /\ sec[s] = x /\ \A j \in DOMAIN o.sec \ {s} : sec[j] = o.sec[j]
    BY <2>2 DEF PutAt
  <2> HIDE DEF sec
  <2>5. \A j \in DOMAIN sec : Distinct(sec[j].entry)
    <3>1. Distinct(x.entry)
      BY <2>1, NoEntries
    <3>2. QED
      BY <1>2, <2>4, <3>1 DEF Sound
  <2>6. hint \in Int /\ (hint # -1 => hint \in DOMAIN sec /\ sec[hint].name = o.strlast)
    BY <1>2, <1>4, <2>4 DEF Sound
  <2> HIDE DEF hint
  <2>7. Sound(Resectioned(o, sec, hint)) /\ Resectioned(o, sec, hint).sec = sec
    BY <1>2, <2>3, <2>5, <2>6, SectionsChanged
  <2>8. \A i \in Live(sec) : \E j \in Live(o.sec) \ {s} : sec[i] = o.sec[j]
    BY <2>3
  <2>9. Stores(sec, Promise!Without(f, UCase(o.sec[s].name)))
    BY <1>1, <1>2, <2>2, <2>3, <2>8, SectionGone
  <2>10. QED
    BY <1>3, <1>5, <1>7, <2>7, <2>9 DEF Keeps
<1>8. QED
  BY <1>6, <1>7

\* MemDeleteSection removes it, which moves the others, and drops the hint.
LEMMA MemDeleteSectionKeeps ==
  ASSUME NamesAssumption, NEW o0, NEW f, Keeps(o0, f), NEW name \in SectionNames
  PROVE  Keeps(MemDeleteSection(o0, name), Promise!Without(f, UCase(name)))
<1> DEFINE o == FindSection(o0, name)[1]
           s == FindSection(o0, name)[2]
           sec == RemoveAt(o.sec, s)
<1>1. Sound(o0) /\ Stores(o0.sec, f)
  BY DEF Keeps
<1>2. Sound(o) /\ o.sec = o0.sec /\ FoundIn(o.sec, name, s)
  BY <1>1, FindsSection
<1>3. MemDeleteSection(o0, name) = IF s = 0 THEN o ELSE Resectioned(o, sec, -1)
  <2>1. o \in [sec : Seq(SectionType), lastsec : Int, strlast : SectionNames \cup {Empty}, lastent : Int]
    BY <1>2 DEF Sound, ObjectType
  <2> HIDE DEF o, s
  <2>2. [o EXCEPT !.lastsec = -1, !.sec = RemoveAt(@, s)] = Resectioned(o, sec, -1)
    BY <2>1 DEF Resectioned
  <2>3. QED
    BY <2>2 DEF MemDeleteSection, o, s
<1> HIDE DEF o, s
<1>4. o.sec \in Seq(SectionType) /\ DOMAIN o.sec = 1 .. Len(o.sec) /\ Len(o.sec) \in Nat /\ 0 \notin DOMAIN o.sec
  BY <1>2, FromOne
<1>5. /\ f = [S \in DOMAIN f |-> f[S]]
      /\ s = 0 => UCase(name) \notin DOMAIN f
      /\ s # 0 => s \in Live(o.sec) /\ UCase(o.sec[s].name) = UCase(name)
  BY <1>1, <1>2, <1>4, SearchTells
<1>6. CASE s = 0
  BY <1>1, <1>2, <1>3, <1>5, <1>6, NothingWithout DEF Keeps
<1>7. CASE s # 0
  <2>1. Distinct(o.sec) /\ s \in Live(o.sec)
    BY <1>2, <1>5, <1>7 DEF Sound
  <2>2. /\ sec \in Seq(SectionType) /\ Distinct(sec)
        /\ Names(sec) = Names(o.sec) \ {UCase(o.sec[s].name)}
        /\ \A i \in DOMAIN sec : \E j \in DOMAIN o.sec \ {s} : sec[i] = o.sec[j]
    <3> DEFINE e == o.sec
    <3>1. e \in Seq(SectionType) /\ s \in Live(e) /\ Distinct(e)
      BY <1>4, <2>1
    <3> HIDE DEF e
    <3>2. /\ RemoveAt(e, s) \in Seq(SectionType) /\ Distinct(RemoveAt(e, s))
          /\ Names(RemoveAt(e, s)) = Names(e) \ {UCase(e[s].name)}
          /\ \A i \in DOMAIN RemoveAt(e, s) : \E j \in DOMAIN e \ {s} : RemoveAt(e, s)[i] = e[j]
      BY <3>1, NameRemoved
    <3>3. QED
      BY <3>2 DEF e
  <2> HIDE DEF sec
  <2>3. \A j \in DOMAIN sec : Distinct(sec[j].entry)
    BY <1>2, <2>2 DEF Sound
  <2>4. Sound(Resectioned(o, sec, -1)) /\ Resectioned(o, sec, -1).sec = sec
    BY <1>2, <2>2, <2>3, SectionsChanged
  <2>5. \A i \in Live(sec) : \E j \in Live(o.sec) \ {s} : sec[i] = o.sec[j]
    BY <2>2 DEF Live
  <2>6. Stores(sec, Promise!Without(f, UCase(o.sec[s].name)))
    BY <1>1, <1>2, <2>1, <2>2, <2>5, SectionGone
  <2>7. QED
    BY <1>3, <1>5, <1>7, <2>4, <2>6 DEF Keeps
<1>8. QED
  BY <1>6, <1>7

\* What the two searches of an entry's operation find: the object after them, the place of the
\* section and that of the entry, and what the map has there.
Looked(o0, o, s, e, section, name, f) ==
  /\ Keeps(o, f) /\ o.sec = o0.sec
  /\ f = [S \in DOMAIN f |-> f[S]]
  /\ s = 0 => e = 0 /\ UCase(section) \notin DOMAIN f
  /\ s # 0 => /\ s \in Live(o.sec) /\ UCase(o.sec[s].name) = UCase(section) /\ UCase(section) \in DOMAIN f
              /\ o.sec[s].entry \in Seq(EntryType) /\ Distinct(o.sec[s].entry)
              /\ 0 \notin DOMAIN o.sec[s].entry
              /\ Holds(o.sec[s].entry, f[UCase(section)])
              /\ FoundIn(o.sec[s].entry, name, e)

LEMMA LooksUp ==
  ASSUME NamesAssumption, NEW o0, NEW f, Keeps(o0, f), NEW section \in SectionNames, NEW name \in EntryNames
  PROVE  Looked(o0, FindEntry(o0, section, name)[1], FindSection(o0, section)[2],
                FindEntry(o0, section, name)[2], section, name, f)
<1> DEFINE o == FindEntry(o0, section, name)[1]
           s == FindSection(o0, section)[2]
           e == FindEntry(o0, section, name)[2]
<1>1. Sound(o0) /\ Stores(o0.sec, f)
  BY DEF Keeps
<1>2. /\ Sound(o) /\ o.sec = o0.sec /\ FoundIn(o0.sec, section, s) /\ (s = 0 => e = 0)
      /\ s # 0 => s \in Live(o0.sec) /\ FoundIn(o0.sec[s].entry, name, e)
  BY <1>1, FindsEntry
<1> HIDE DEF o, s, e
<1>3. 0 \notin DOMAIN o0.sec
  BY <1>1, FromOne
<1>4. /\ f = [S \in DOMAIN f |-> f[S]]
      /\ s = 0 => UCase(section) \notin DOMAIN f
      /\ s # 0 => /\ s \in Live(o0.sec) /\ UCase(o0.sec[s].name) = UCase(section) /\ UCase(section) \in DOMAIN f
                  /\ Holds(o0.sec[s].entry, f[UCase(section)])
  BY <1>1, <1>2, <1>3, SearchTells
<1>5. ASSUME s # 0
      PROVE  o0.sec[s].entry \in Seq(EntryType) /\ Distinct(o0.sec[s].entry) /\ 0 \notin DOMAIN o0.sec[s].entry
  <2>1. s \in Live(o0.sec)
    BY <1>4, <1>5
  <2>2. /\ o0.sec[s].entry \in Seq(EntryType) /\ Distinct(o0.sec[s].entry)
        /\ DOMAIN o0.sec[s].entry = 1 .. Len(o0.sec[s].entry) /\ Len(o0.sec[s].entry) \in Nat
    BY <1>1, <2>1, EntriesOf
  <2>3. QED
    BY <2>2
<1>6. Looked(o0, o, s, e, section, name, f)
  BY <1>1, <1>2, <1>4, <1>5 DEF Looked, Keeps
<1>7. QED
  BY <1>6 DEF o, s, e

\* The map after a value was written.
Put(f, S, K, v) == IF S \in DOMAIN f THEN [f EXCEPT ![S] = Promise!With(@, K, v)] ELSE f

\* WriteEntry appends an entry or overwrites the one there is.
LEMMA WriteEntryKeeps ==
  ASSUME NamesAssumption, NEW o0, NEW f, Keeps(o0, f), NEW section \in SectionNames,
         NEW name \in EntryNames, NEW v \in Values
  PROVE  Keeps(WriteEntry(o0, section, name, v), Put(f, UCase(section), UCase(name), v))
<1> DEFINE o == FindEntry(o0, section, name)[1]
           s == FindSection(o0, section)[2]
           e == FindEntry(o0, section, name)[2]
           new == [name |-> name, value |-> v]
           old == o.sec[s].entry
           r == IF e = 0 THEN Append(old, new) ELSE [old EXCEPT ![e] = new]
           h == Promise!With(f[UCase(section)], UCase(name), v)
<1>1. Looked(o0, o, s, e, section, name, f)
  BY LooksUp, SMTT(30)
<1>2. WriteEntry(o0, section, name, v) = IF s = 0 THEN o ELSE Edited(o, s, r)
  BY DEF WriteEntry, Edited
<1> HIDE DEF o, s, e
<1>3. new \in EntryType /\ new.name = name /\ new.value = v /\ new.name # Empty
  BY DEF EntryType, NamesAssumption
<1> HIDE DEF new
<1>4. CASE s = 0
  <2>1. Put(f, UCase(section), UCase(name), v) = f
    BY <1>1, <1>4 DEF Looked, Put
  <2>2. QED
    BY <1>1, <1>2, <1>4, <2>1 DEF Looked
<1>5. CASE s # 0
  <2>1. /\ Keeps(o, f) /\ s \in Live(o.sec) /\ UCase(o.sec[s].name) = UCase(section) /\ UCase(section) \in DOMAIN f
        /\ old \in Seq(EntryType) /\ Distinct(old) /\ 0 \notin DOMAIN old
        /\ Holds(old, f[UCase(section)]) /\ FoundIn(old, name, e)
    BY <1>1, <1>5 DEF Looked
  <2> HIDE DEF old
  <2>2. /\ e = 0 => UCase(name) \notin Names(old)
        /\ e # 0 => e \in Live(old) /\ UCase(old[e].name) = UCase(name)
    BY <2>1 DEF FoundIn, Live
  <2>3. r \in Seq(EntryType) /\ Distinct(r) /\ Holds(r, h)
    <3>1. CASE e = 0
      BY <1>3, <2>1, <2>2, <3>1, EntryAppended
    <3>2. CASE e # 0
      BY <1>3, <2>1, <2>2, <3>2, EntryOverwritten
    <3>3. QED
      BY <3>1, <3>2
  <2>4. Put(f, UCase(section), UCase(name), v) = [f EXCEPT ![UCase(o.sec[s].name)] = h]
    BY <2>1 DEF Put
  <2> HIDE DEF r, h
  <2>5. Keeps(Edited(o, s, r), [f EXCEPT ![UCase(o.sec[s].name)] = h])
    BY <2>1, <2>3, EntriesChanged
  <2>6. QED
    BY <1>2, <1>5, <2>4, <2>5
<1>6. QED
  BY <1>4, <1>5

\* The two searches find a value where the map has one.
Told(o, s, e, section, name, f) ==
  /\ e # 0 <=> UCase(section) \in DOMAIN f /\ UCase(name) \in DOMAIN f[UCase(section)]
  /\ e # 0 => /\ s # 0 /\ e \in Live(o.sec[s].entry) /\ UCase(o.sec[s].entry[e].name) = UCase(name)
              /\ f[UCase(section)][UCase(name)] = o.sec[s].entry[e].value
  /\ UCase(section) \in DOMAIN f => f[UCase(section)] = [K \in DOMAIN f[UCase(section)] |-> f[UCase(section)][K]]

LEMMA LookupTells ==
  ASSUME NEW o0, NEW o, NEW s, NEW e, NEW section, NEW name, NEW f, Looked(o0, o, s, e, section, name, f)
  PROVE  Told(o, s, e, section, name, f)
<1>1. CASE s = 0
  BY <1>1 DEF Looked, Told
<1>2. CASE s # 0
  <2> DEFINE old == o.sec[s].entry
             h == f[UCase(section)]
  <2>1. /\ UCase(section) \in DOMAIN f /\ 0 \notin DOMAIN old /\ Holds(old, h) /\ FoundIn(old, name, e)
    BY <1>2 DEF Looked
  <2> HIDE DEF old, h
  <2>2. /\ h = [K \in DOMAIN h |-> h[K]]
        /\ e = 0 => UCase(name) \notin DOMAIN h
        /\ e # 0 => /\ e \in Live(old) /\ UCase(old[e].name) = UCase(name) /\ UCase(name) \in DOMAIN h
                    /\ h[UCase(name)] = old[e].value
    BY <2>1, EntrySearchTells
  <2>3. QED
    BY <1>2, <2>1, <2>2 DEF old, h, Told
<1>3. QED
  BY <1>1, <1>2

\* InitEntry writes only what is not there.
LEMMA InitEntryKeeps ==
  ASSUME NamesAssumption, NEW o0, NEW f, Keeps(o0, f), NEW section \in SectionNames,
         NEW name \in EntryNames, NEW v \in Values
  PROVE  Keeps(InitEntry(o0, section, name, v),
               IF UCase(section) \in DOMAIN f /\ UCase(name) \in DOMAIN f[UCase(section)]
               THEN f ELSE Put(f, UCase(section), UCase(name), v))
<1> DEFINE o == FindEntry(o0, section, name)[1]
           s == FindSection(o0, section)[2]
           e == FindEntry(o0, section, name)[2]
<1>1. Looked(o0, o, s, e, section, name, f)
  BY LooksUp
<1>2. InitEntry(o0, section, name, v) = IF e = 0 THEN WriteEntry(o, section, name, v) ELSE o
  BY DEF InitEntry
<1> HIDE DEF o, s, e
<1>3. e # 0 <=> UCase(section) \in DOMAIN f /\ UCase(name) \in DOMAIN f[UCase(section)]
  BY <1>1, LookupTells, ZenonT(60) DEF Told
<1>4. Keeps(o, f)
  BY <1>1 DEF Looked
<1>5. Keeps(WriteEntry(o, section, name, v), Put(f, UCase(section), UCase(name), v))
  BY <1>4, WriteEntryKeeps
<1>6. QED
  BY <1>2, <1>3, <1>4, <1>5

\* GetEntry returns what the map has, or nothing.
LEMMA GetEntryTells ==
  ASSUME NamesAssumption, NEW o0, NEW f, Keeps(o0, f), NEW section \in SectionNames, NEW name \in EntryNames
  PROVE  LET S == UCase(section)
             K == UCase(name)
         IN /\ Keeps(GetEntry(o0, section, name)[1], f)
            /\ GetEntry(o0, section, name)[2] = IF S \in DOMAIN f /\ K \in DOMAIN f[S] THEN f[S][K] ELSE Empty
<1> DEFINE o == FindEntry(o0, section, name)[1]
           s == FindSection(o0, section)[2]
           e == FindEntry(o0, section, name)[2]
<1>1. Looked(o0, o, s, e, section, name, f)
  BY LooksUp
<1>2. /\ GetEntry(o0, section, name)[1] = o
      /\ GetEntry(o0, section, name)[2] = IF e = 0 THEN Empty ELSE o.sec[s].entry[e].value
  BY DEF GetEntry
<1> HIDE DEF o, s, e
<1>3. /\ e # 0 <=> UCase(section) \in DOMAIN f /\ UCase(name) \in DOMAIN f[UCase(section)]
      /\ e # 0 => f[UCase(section)][UCase(name)] = o.sec[s].entry[e].value
  <2>1. Told(o, s, e, section, name, f)
    BY <1>1, LookupTells
  <2>2. QED
    BY <2>1 DEF Told
<1>4. Keeps(o, f)
  BY <1>1 DEF Looked
<1>5. QED
  BY <1>2, <1>3, <1>4

\* The map after a value was deleted.
Dropped(f, S, K) == [T \in DOMAIN f |-> IF T = S THEN Promise!Without(f[T], K) ELSE f[T]]

\* Both deletions find the entry and replace the entries of its section, by r, or find none.
LEMMA DroppedFrom ==
  ASSUME NEW o0, NEW o, NEW s, NEW e, NEW section, NEW name, NEW f, Looked(o0, o, s, e, section, name, f),
         NEW r, e # 0 => r \in Seq(EntryType) /\ Distinct(r)
                         /\ Names(r) = Names(o.sec[s].entry) \ {UCase(o.sec[s].entry[e].name)}
                         /\ \A i \in Live(r) : \E j \in Live(o.sec[s].entry) \ {e} : r[i] = o.sec[s].entry[j]
  PROVE  Keeps(IF e = 0 THEN o ELSE Edited(o, s, r), Dropped(f, UCase(section), UCase(name)))
<1> DEFINE S == UCase(section)
           K == UCase(name)
           old == o.sec[s].entry
           h == Promise!Without(f[S], K)
<1>1. Keeps(o, f) /\ f = [T \in DOMAIN f |-> f[T]]
  BY DEF Looked
<1>2. /\ e # 0 <=> S \in DOMAIN f /\ K \in DOMAIN f[S]
      /\ e # 0 => s # 0 /\ e \in Live(old) /\ UCase(old[e].name) = K
      /\ S \in DOMAIN f => f[S] = [x \in DOMAIN f[S] |-> f[S][x]]
  BY LookupTells DEF Told
<1>3. CASE e = 0
  <2>1. S \in DOMAIN f => h = f[S]
    BY <1>2, <1>3, NothingWithout
  <2> HIDE DEF h
  <2>2. Dropped(f, S, K) = f
    BY <1>1, <2>1 DEF Dropped, h
  <2>3. QED
    BY <1>1, <1>3, <2>2
<1>4. CASE e # 0
  <2>1. /\ s \in Live(o.sec) /\ UCase(o.sec[s].name) = S /\ S \in DOMAIN f
        /\ Distinct(old) /\ Holds(old, f[S]) /\ e \in Live(old) /\ UCase(old[e].name) = K
    BY <1>2, <1>4 DEF Looked
  <2>2. r \in Seq(EntryType) /\ Distinct(r) /\ Names(r) = Names(old) \ {UCase(old[e].name)}
        /\ \A i \in Live(r) : \E j \in Live(old) \ {e} : r[i] = old[j]
    BY <1>4
  <2> HIDE DEF old
  <2>3. Holds(r, Promise!Without(f[S], UCase(old[e].name)))
    BY <2>1, <2>2, EntryGone
  <2>4. Holds(r, h)
    BY <2>1, <2>3
  <2> HIDE DEF h
  <2>5. Keeps(Edited(o, s, r), [f EXCEPT ![UCase(o.sec[s].name)] = h])
    BY <1>1, <2>1, <2>2, <2>4, EntriesChanged
  <2>6. Dropped(f, S, K) = [f EXCEPT ![S] = h]
    BY <1>1, <2>1 DEF Dropped, h
  <2>7. QED
    BY <1>4, <2>1, <2>5, <2>6
<1>5. QED
  BY <1>3, <1>4

\* DeleteEntry empties the entry.
LEMMA DeleteEntryKeeps ==
  ASSUME NamesAssumption, NEW o0, NEW f, Keeps(o0, f), NEW section \in SectionNames, NEW name \in EntryNames
  PROVE  Keeps(DeleteEntry(o0, section, name), Dropped(f, UCase(section), UCase(name)))
<1> DEFINE o == FindEntry(o0, section, name)[1]
           s == FindSection(o0, section)[2]
           e == FindEntry(o0, section, name)[2]
           x == [name |-> Empty, value |-> Empty]
           old == o.sec[s].entry
           r == PutAt(old, e, x)
<1>1. Looked(o0, o, s, e, section, name, f)
  BY LooksUp
<1>2. DeleteEntry(o0, section, name) = IF e = 0 THEN o ELSE Edited(o, s, r)
  <2>1. o \in [sec : Seq(SectionType), lastsec : Int, strlast : SectionNames \cup {Empty}, lastent : Int]
    BY <1>1 DEF Looked, Keeps, Sound, ObjectType
  <2> HIDE DEF o, s, e, x
  <2>2. [o EXCEPT !.sec[s].entry[e] = x] = Edited(o, s, r)
    BY <2>1 DEF Edited, PutAt
  <2>3. QED
    BY <2>2 DEF DeleteEntry, o, s, e, x
<1> HIDE DEF o, s, e
<1>3. x \in EntryType /\ x.name = Empty
  BY DEF EntryType
<1>4. ASSUME e # 0
      PROVE  r \in Seq(EntryType) /\ Distinct(r) /\ Names(r) = Names(old) \ {UCase(old[e].name)}
             /\ \A i \in Live(r) : \E j \in Live(old) \ {e} : r[i] = old[j]
  <2>1. s # 0 /\ e \in Live(old)
    <3>1. Told(o, s, e, section, name, f)
      BY <1>1, LookupTells
    <3>2. QED
      BY <1>4, <3>1 DEF Told
  <2>2. old \in Seq(EntryType) /\ Distinct(old)
    BY <1>1, <2>1 DEF Looked
  <2> HIDE DEF old, x
  <2>3. /\ r \in Seq(EntryType) /\ Distinct(r) /\ Live(r) = Live(old) \ {e}
        /\ Names(r) = Names(old) \ {UCase(old[e].name)}
        /\ \A i \in Live(old) \ {e} : r[i] = old[i]
    BY <1>3, <2>1, <2>2, NameBlanked
  <2>4. QED
    BY <2>3
<1> HIDE DEF r
<1>5. QED
  BY <1>1, <1>2, <1>4, DroppedFrom, SMTT(30)

\* MemDeleteEntry removes it, which moves the others.
LEMMA MemDeleteEntryKeeps ==
  ASSUME NamesAssumption, NEW o0, NEW f, Keeps(o0, f), NEW section \in SectionNames, NEW name \in EntryNames
  PROVE  Keeps(MemDeleteEntry(o0, section, name), Dropped(f, UCase(section), UCase(name)))
<1> DEFINE o == FindEntry(o0, section, name)[1]
           s == FindSection(o0, section)[2]
           e == FindEntry(o0, section, name)[2]
           old == o.sec[s].entry
           r == RemoveAt(old, e)
<1>1. Looked(o0, o, s, e, section, name, f)
  BY LooksUp
<1>2. MemDeleteEntry(o0, section, name) = IF e = 0 THEN o ELSE Edited(o, s, r)
  <2>1. o \in [sec : Seq(SectionType), lastsec : Int, strlast : SectionNames \cup {Empty}, lastent : Int]
    BY <1>1 DEF Looked, Keeps, Sound, ObjectType
  <2> HIDE DEF o, s, e
  <2>2. [o EXCEPT !.sec[s].entry = RemoveAt(@, e)] = Edited(o, s, r)
    BY <2>1 DEF Edited
  <2>3. QED
    BY <2>2 DEF MemDeleteEntry, o, s, e
<1> HIDE DEF o, s, e
<1>3. ASSUME e # 0
      PROVE  r \in Seq(EntryType) /\ Distinct(r) /\ Names(r) = Names(old) \ {UCase(old[e].name)}
             /\ \A i \in Live(r) : \E j \in Live(old) \ {e} : r[i] = old[j]
  <2>1. s # 0 /\ e \in Live(old)
    <3>1. Told(o, s, e, section, name, f)
      BY <1>1, LookupTells
    <3>2. QED
      BY <1>3, <3>1 DEF Told
  <2>2. old \in Seq(EntryType) /\ Distinct(old)
    BY <1>1, <2>1 DEF Looked
  <2> HIDE DEF old
  <2>3. /\ RemoveAt(old, e) \in Seq(EntryType) /\ Distinct(RemoveAt(old, e))
        /\ Names(RemoveAt(old, e)) = Names(old) \ {UCase(old[e].name)}
        /\ \A i \in DOMAIN RemoveAt(old, e) : \E j \in DOMAIN old \ {e} : RemoveAt(old, e)[i] = old[j]
    BY <2>1, <2>2, NameRemoved
  <2> HIDE DEF r
  <2>4. /\ r \in Seq(EntryType) /\ Distinct(r) /\ Names(r) = Names(old) \ {UCase(old[e].name)}
        /\ \A i \in DOMAIN r : \E j \in DOMAIN old \ {e} : r[i] = old[j]
    BY <2>3 DEF r
  <2>5. \A i \in Live(r) : \E j \in Live(old) \ {e} : r[i] = old[j]
    BY <2>4 DEF Live
  <2>6. QED
    BY <2>4, <2>5
<1> HIDE DEF r
<1>4. QED
  BY <1>1, <1>2, <1>3, DroppedFrom

\* An object without sections.
LEMMA NewKeeps ==
  ASSUME NEW o \in ObjectType PROVE Keeps(NewObject, Promise!NoSections) /\ Keeps(ResetCache(o), Promise!NoSections)
<1>1. ASSUME NEW p \in ObjectType, p.sec = <<>>, p.lastsec = -1 PROVE Keeps(p, Promise!NoSections)
  <2>1. Live(<<>>) = {} /\ Names(<<>>) = {} /\ Distinct(<<>>)
    BY NoEntries
  <2>2. Sound(p)
    BY <1>1, <2>1 DEF Sound
  <2>3. Stores(p.sec, Promise!NoSections)
    BY <1>1, <2>1 DEF Stores, Promise!NoSections
  <2>4. QED
    BY <2>2, <2>3 DEF Keeps
<1>2. NewObject \in ObjectType /\ NewObject.sec = <<>> /\ NewObject.lastsec = -1
  <2>1. <<>> \in Seq(SectionType)
    OBVIOUS
  <2>2. QED
    BY <2>1 DEF NewObject, ObjectType
<1>3. ResetCache(o) \in ObjectType /\ ResetCache(o).sec = <<>> /\ ResetCache(o).lastsec = -1
  <2>1. <<>> \in Seq(SectionType) /\ o.strlast \in SectionNames \cup {Empty}
    BY DEF ObjectType
  <2>2. ResetCache(o) = [sec |-> <<>>, lastsec |-> -1, strlast |-> o.strlast, lastent |-> -1]
    BY DEF ResetCache, NewObject
  <2>3. QED
    BY <2>1, <2>2 DEF ObjectType
<1>4. QED
  BY <1>1, <1>2, <1>3

-----------------------------------------------------------------------------
(* The lists.                                                                 *)

\* Named, element by element.
LEMMA NamedUnrolls ==
  ASSUME NEW R, NEW N, NEW e \in Seq(R), \A x \in R : x.name \in N
  PROVE  \E a : /\ a[0] = <<>> /\ a[Len(e)] = Named(e)
                /\ \A j \in 1 .. Len(e) : a[j] = IF e[j].name = Empty THEN a[j - 1] ELSE Append(a[j - 1], e[j].name)
<1> DEFINE A == Seq(N)
           T == [p \in A \X R |-> IF p[2].name = Empty THEN p[1] ELSE Append(p[1], p[2].name)]
           D == DOMAIN e
           Is(f) == f = [s \in SUBSET D |-> IF s = {} THEN <<>>
                                            ELSE LET x == Max(s)
                                                 IN IF e[x].name = Empty THEN f[s \ {x}] ELSE Append(f[s \ {x}], e[x].name)]
           g == CHOOSE f : Is(f)
<1>1. Named(e) = g[D]
  BY DEF Named, FoldLeft, MapThenFoldSet
<1>2. T \in [A \X R -> A] /\ <<>> \in A
  OBVIOUS
<1> HIDE DEF T, A
<1>3. (\E f \in [SUBSET D -> A] : FoldsBy(T, <<>>, e, D, f)) /\ TopsIn(R, e, D)
  BY <1>2, FoldExists
<1>4. \E f : Is(f)
  <2>1. PICK f \in [SUBSET D -> A] : FoldsBy(T, <<>>, e, D, f)
    BY <1>3
  <2>2. \A s \in SUBSET D : s # {} => f[s \ {Max(s)}] \in A /\ e[Max(s)] \in R
    BY <1>3, <2>1 DEF TopsIn
  <2>3. \A s \in SUBSET D : f[s] = IF s = {} THEN <<>> ELSE IF e[Max(s)].name = Empty
                                   THEN f[s \ {Max(s)}] ELSE Append(f[s \ {Max(s)}], e[Max(s)].name)
    BY <2>1, <2>2, Zenon DEF FoldsBy, T
  <2>4. QED
    BY <2>3
<1>5. Is(g)
  BY <1>4, Zenon
<1>6. D = 1 .. Len(e) /\ Len(e) \in Nat
  BY LenProperties
<1> HIDE DEF g
<1>7. PICK a : Climbs(g, a, Len(e))
  BY <1>6, FoldClimbs
<1>8. a[0] = <<>> /\ a[Len(e)] = Named(e)
  BY <1>1, <1>5, <1>6, <1>7 DEF Climbs
<1>9. ASSUME NEW j \in 1 .. Len(e)
      PROVE  a[j] = IF e[j].name = Empty THEN a[j - 1] ELSE Append(a[j - 1], e[j].name)
  <2>1. 1 .. j \in SUBSET D /\ ClimbsTo(j, g, a)
    BY <1>6, <1>7 DEF Climbs
  <2>2. 1 .. j # {} /\ Max(1 .. j) = j /\ (1 .. j) \ {j} = 1 .. j - 1
    BY <2>1 DEF ClimbsTo
  <2>3. \A s \in SUBSET D : s # {} => g[s] = IF e[Max(s)].name = Empty THEN g[s \ {Max(s)}]
                                             ELSE Append(g[s \ {Max(s)}], e[Max(s)].name)
    BY <1>5
  <2>4. g[1 .. j] = IF e[j].name = Empty THEN g[1 .. j - 1] ELSE Append(g[1 .. j - 1], e[j].name)
    BY <2>1, <2>2, <2>3
  <2>5. QED
    BY <2>1, <2>4 DEF ClimbsTo
<1>10. QED
  BY <1>8, <1>9

\* The names of the first k places that are not deleted.
FirstNames(e, k) == {UCase(e[i].name) : i \in {i \in Live(e) : i <= k}}

\* One more place.
LEMMA NextName ==
  ASSUME NEW R, NEW e \in Seq(R), NEW j \in 1 .. Len(e)
  PROVE  /\ j \notin Live(e) => FirstNames(e, j) = FirstNames(e, j - 1)
         /\ j \in Live(e) => FirstNames(e, j) = FirstNames(e, j - 1) \cup {UCase(e[j].name)}
         /\ j \in Live(e) /\ Distinct(e) => UCase(e[j].name) \notin FirstNames(e, j - 1)
<1>1. DOMAIN e = 1 .. Len(e) /\ Len(e) \in Nat
  BY LenProperties
<1>2. \A i \in Live(e) : i \in Int /\ (i <= j <=> i <= j - 1 \/ i = j) /\ (i <= j - 1 => i # j)
  BY <1>1 DEF Live
<1>3. j \notin Live(e) => {i \in Live(e) : i <= j} = {i \in Live(e) : i <= j - 1}
  BY <1>2
<1>4. j \in Live(e) => {i \in Live(e) : i <= j} = {i \in Live(e) : i <= j - 1} \cup {j}
  BY <1>2
<1>5. ASSUME j \in Live(e), Distinct(e), UCase(e[j].name) \in FirstNames(e, j - 1) PROVE FALSE
  <2>1. PICK i \in Live(e) : i <= j - 1 /\ UCase(e[i].name) = UCase(e[j].name)
    BY <1>5 DEF FirstNames
  <2>2. i = j
    BY <1>5, <2>1 DEF Distinct
  <2>3. QED
    BY <1>2, <2>1, <2>2
<1>6. QED
  BY <1>3, <1>4, <1>5 DEF FirstNames

\* None, and all.
LEMMA EveryName ==
  ASSUME NEW R, NEW e \in Seq(R)
  PROVE  FirstNames(e, 0) = {} /\ FirstNames(e, Len(e)) = Names(e)
<1>1. DOMAIN e = 1 .. Len(e) /\ Len(e) \in Nat
  BY LenProperties
<1>2. {i \in Live(e) : i <= 0} = {} /\ {i \in Live(e) : i <= Len(e)} = Live(e)
  BY <1>1 DEF Live
<1>3. QED
  BY <1>2 DEF FirstNames, Names

\* An enumeration has each name once.
LEMMA NamedLists ==
  ASSUME NEW R, NEW N, NEW e \in Seq(R), \A x \in R : x.name \in N, Distinct(e)
  PROVE  Lists(Named(e), Names(e))
<1> DEFINE Lists1(names, keys) ==
             /\ names \in Seq(N)
             /\ {UCase(names[i]) : i \in 1 .. Len(names)} = keys
             /\ \A i, j \in 1 .. Len(names) : UCase(names[i]) = UCase(names[j]) => i = j
<1>1. PICK a : /\ a[0] = <<>> /\ a[Len(e)] = Named(e)
               /\ \A j \in 1 .. Len(e) : a[j] = IF e[j].name = Empty THEN a[j - 1] ELSE Append(a[j - 1], e[j].name)
  BY NamedUnrolls
<1> DEFINE P == {k \in 0 .. Len(e) : Lists1(a[k], FirstNames(e, k))}
<1>2. DOMAIN e = 1 .. Len(e) /\ Len(e) \in Nat /\ \A j \in 1 .. Len(e) : e[j].name \in N
  BY LenProperties, ElementOfSeq
<1>3. Lists1(a[0], FirstNames(e, 0))
  <2>1. a[0] = <<>> /\ FirstNames(e, 0) = {}
    BY <1>1, EveryName
  <2>2. Len(<<>>) = 0 /\ 1 .. 0 = {} /\ <<>> \in Seq(N)
    OBVIOUS
  <2>3. 1 .. Len(a[0]) = {}
    BY ONLY <2>1, <2>2
  <2>4. QED
    BY <2>1, <2>2, <2>3
<1>4. ASSUME NEW j \in 1 .. Len(e), Lists1(a[j - 1], FirstNames(e, j - 1)) PROVE Lists1(a[j], FirstNames(e, j))
  <2>1. PICK old, new : old = a[j - 1] /\ new = a[j]
    OBVIOUS
  <2>2. Lists1(old, FirstNames(e, j - 1))
    BY <1>4, <2>1
  <2>3. CASE j \notin Live(e)
    <3>1. new = old /\ FirstNames(e, j) = FirstNames(e, j - 1)
      BY <1>1, <1>2, <2>1, <2>3, NextName DEF Live
    <3>2. QED
      BY <2>1, <2>2, <3>1
  <2>4. CASE j \in Live(e)
    <3>1. new = Append(old, e[j].name)
      BY <1>1, <2>1, <2>4 DEF Live
    <3>2. PICK x \in N : x = e[j].name
      BY <1>2
    <3>3. /\ new \in Seq(N) /\ Len(new) = Len(old) + 1 /\ Len(old) \in Nat
          /\ \A i \in 1 .. Len(old) : new[i] = old[i]
          /\ new[Len(old) + 1] = x
      BY <2>2, <3>1, <3>2, Appended
    <3>4. PICK first, first1 : first = FirstNames(e, j - 1) /\ first1 = FirstNames(e, j)
      OBVIOUS
    <3>5. first1 = first \cup {UCase(x)} /\ UCase(x) \notin first
      BY <2>4, <3>2, <3>4, NextName
    <3>6. 1 .. Len(new) = (1 .. Len(old)) \cup {Len(old) + 1}
      BY <3>3
    <3>7. /\ {UCase(old[i]) : i \in 1 .. Len(old)} = first
          /\ \A i, k \in 1 .. Len(old) : UCase(old[i]) = UCase(old[k]) => i = k
      BY <2>2, <3>4
    <3>8. {UCase(new[i]) : i \in 1 .. Len(new)} = first1
      BY <3>3, <3>5, <3>6, <3>7
    <3>9. \A i \in 1 .. Len(old) : UCase(new[i]) # UCase(x)
      BY <3>3, <3>5, <3>7
    <3>10. \A i, k \in 1 .. Len(new) : UCase(new[i]) = UCase(new[k]) => i = k
      BY <3>3, <3>6, <3>7, <3>9
    <3>11. QED
      BY <2>1, <3>3, <3>4, <3>8, <3>10
  <2>5. QED
    BY <2>3, <2>4
<1> HIDE DEF Lists1
<1>5. 0 \in P /\ \A j \in 1 .. Len(e) : j - 1 \in P => j \in P
  BY <1>2, <1>3, <1>4
<1> HIDE DEF P
<1>6. 0 .. Len(e) \subseteq P
  BY <1>2, <1>5, UpTo
<1>7. Len(e) \in P
  BY <1>2, <1>6
<1>8. Lists1(Named(e), Names(e))
  BY <1>1, <1>7, EveryName DEF P
<1>9. DOMAIN Named(e) = 1 .. Len(Named(e))
  BY <1>8, LenProperties DEF Lists1
<1>10. QED
  BY <1>8, <1>9 DEF Lists1, Lists

-----------------------------------------------------------------------------
(* The file.  What it says is what LoadFromString makes of it: a line more is *)
(* one call more.                                                             *)

LineType == [section : {TRUE}, text : SectionNames] \cup [section : {FALSE}, text : EntryNames \X (Values \cup {Empty})]

\* Types, for any object.
LEMMA FindSectionTyped ==
  ASSUME NEW o \in ObjectType, NEW name \in SectionNames
  PROVE  /\ FindSection(o, name)[1] \in ObjectType /\ FindSection(o, name)[1].sec = o.sec
         /\ FindSection(o, name)[2] \in Int
<1> DEFINE found == {i \in DOMAIN o.sec : UCase(o.sec[i].name) = UCase(name)}
           i == Min(found)
<1>1. o.sec \in Seq(SectionType) /\ DOMAIN o.sec = 1 .. Len(o.sec) /\ Len(o.sec) \in Nat /\ o.lastsec \in Int
  BY LenProperties DEF ObjectType
<1>2. /\ Hinted(o, -1, Empty) \in ObjectType /\ Hinted(o, -1, Empty).sec = o.sec
  BY HintChanged
<1>3. ASSUME found # {} PROVE i \in Int /\ Hinted(o, i, o.sec[i].name) \in ObjectType /\ Hinted(o, i, o.sec[i].name).sec = o.sec
  <2>1. found \subseteq 1 .. Len(o.sec)
    BY <1>1
  <2>2. i \in 1 .. Len(o.sec)
    <3> HIDE DEF found
    <3>1. found \subseteq Nat
      BY <2>1
    <3>2. QED
      BY <1>3, <2>1, <3>1, LeastPlace
  <2> HIDE DEF i
  <2>3. o.sec[i] \in SectionType
    BY <1>1, <2>2, ElementOfSeq
  <2>4. i \in Int /\ o.sec[i].name \in SectionNames \cup {Empty}
    BY <2>2, <2>3 DEF SectionType
  <2>5. QED
    BY <2>4, HintChanged
<1>4. FindSection(o, name) = IF name = Empty THEN <<o, 0>>
                             ELSE IF name = o.strlast /\ o.lastsec # -1 THEN <<o, o.lastsec>>
                             ELSE IF found = {} THEN <<Hinted(o, -1, Empty), 0>>
                             ELSE <<Hinted(o, i, o.sec[i].name), i>>
  BY DEF FindSection, Hinted
<1> HIDE DEF i, found
<1>5. QED
  BY <1>1, <1>2, <1>3, <1>4

LEMMA AddSectionTyped ==
  ASSUME NEW o0 \in ObjectType, NEW name \in SectionNames
  PROVE  AddSection(o0, name)[1] \in ObjectType /\ AddSection(o0, name)[2] \in Int
<1> DEFINE o == FindSection(o0, name)[1]
           s == FindSection(o0, name)[2]
           x == [name |-> name, entry |-> <<>>]
           sec == Append(o.sec, x)
<1>1. o \in ObjectType /\ s \in Int
  BY FindSectionTyped
<1>2. AddSection(o0, name) = IF s = 0 THEN <<[o EXCEPT !.sec = sec], Len(o.sec) + 1>> ELSE <<o, s>>
  BY DEF AddSection
<1>3. x \in SectionType
  BY NoEntries DEF SectionType
<1> HIDE DEF o, s, x
<1>4. o.sec \in Seq(SectionType) /\ Len(o.sec) \in Nat
  BY <1>1, LenProperties DEF ObjectType
<1>5. sec \in Seq(SectionType)
  BY <1>3, <1>4, Appended
<1> HIDE DEF sec
<1>6. [o EXCEPT !.sec = sec] \in ObjectType
  BY <1>1, <1>5 DEF ObjectType
<1>7. QED
  BY <1>1, <1>2, <1>4, <1>6

\* The loading of a file: the object, and the section its lines belong to.
AccType == [obj : ObjectType, cur : Int]
Step(acc, line) == LoadedLine(acc, line, TRUE)
Start(o) == [obj |-> ResetCache(o), cur |-> -1]
Load(o, file) == FoldLeft(LAMBDA acc, line : LoadedLine(acc, line, TRUE), Start(o), file)

\* A line of each kind.
LEMMA LineSteps ==
  ASSUME NEW acc \in AccType, NEW line \in LineType
  PROVE  /\ line.section => Step(acc, line) = [obj |-> AddSection(acc.obj, line.text)[1], cur |-> AddSection(acc.obj, line.text)[2]]
         /\ ~line.section /\ acc.cur = -1 => Step(acc, line) = acc
         /\ ~line.section /\ acc.cur # -1 =>
              Step(acc, line) = [obj |-> Edited(acc.obj, acc.cur, Append(acc.obj.sec[acc.cur].entry, [name |-> line.text[1], value |-> line.text[2]])),
                                 cur |-> acc.cur]
<1> DEFINE x == [name |-> line.text[1], value |-> line.text[2]]
<1>1. LoadedEntry(line.text, TRUE) = x
  BY DEF LoadedEntry
<1>2. PICK y : y = x
  OBVIOUS
<1>3. acc = [obj |-> acc.obj, cur |-> acc.cur] /\ acc.obj \in [sec : Seq(SectionType), lastsec : Int, strlast : SectionNames \cup {Empty}, lastent : Int]
  BY DEF AccType, ObjectType
<1>4. [acc EXCEPT !.obj.sec[acc.cur].entry = Append(@, y)]
        = [obj |-> Edited(acc.obj, acc.cur, Append(acc.obj.sec[acc.cur].entry, y)), cur |-> acc.cur]
  <2>1. PICK o, k : o = acc.obj /\ k = acc.cur
    OBVIOUS
  <2>2. acc = [obj |-> o, cur |-> k]
    BY <1>3, <2>1
  <2>3. [o EXCEPT !.sec[k].entry = Append(@, y)] = Edited(o, k, Append(o.sec[k].entry, y))
    BY <1>3, <2>1 DEF Edited
  <2>4. [acc EXCEPT !.obj.sec[k].entry = Append(@, y)] = [obj |-> [o EXCEPT !.sec[k].entry = Append(@, y)], cur |-> k]
    BY <2>2
  <2>5. QED
    BY <2>1, <2>3, <2>4
<1>5. Step(acc, line) = IF line.section
                        THEN [obj |-> AddSection(acc.obj, line.text)[1], cur |-> AddSection(acc.obj, line.text)[2]]
                        ELSE IF acc.cur = -1 THEN acc
                        ELSE [acc EXCEPT !.obj.sec[acc.cur].entry = Append(@, y)]
  BY <1>1, <1>2 DEF Step, LoadedLine
<1> HIDE DEF x
<1>6. QED
  BY <1>2, <1>4, <1>5 DEF x

LEMMA StepTyped ==
  ASSUME NEW acc \in AccType, NEW line \in LineType
  PROVE  Step(acc, line) \in AccType
<1>1. acc.obj \in ObjectType /\ acc.cur \in Int
  BY DEF AccType
<1>2. CASE line.section
  <2>1. line.text \in SectionNames
    BY <1>2 DEF LineType
  <2>2. AddSection(acc.obj, line.text)[1] \in ObjectType /\ AddSection(acc.obj, line.text)[2] \in Int
    BY <1>1, <2>1, AddSectionTyped
  <2>3. PICK o, s : o = AddSection(acc.obj, line.text)[1] /\ s = AddSection(acc.obj, line.text)[2]
    OBVIOUS
  <2>4. Step(acc, line) = [obj |-> o, cur |-> s]
    BY <1>2, <2>3, LineSteps
  <2>5. QED
    BY <2>2, <2>3, <2>4 DEF AccType
<1>3. CASE ~line.section /\ acc.cur # -1
  <2> DEFINE x == [name |-> line.text[1], value |-> line.text[2]]
  <2>1. PICK o, s, y : o = acc.obj /\ s = acc.cur /\ y = x
    OBVIOUS
  <2>2. y \in EntryType
    BY <1>3, <2>1 DEF LineType, EntryType
  <2>3. Edited(o, s, Append(o.sec[s].entry, y)) \in ObjectType
    <3>1. o \in [sec : Seq(SectionType), lastsec : Int, strlast : SectionNames \cup {Empty}, lastent : Int]
      BY <1>1, <2>1 DEF ObjectType
    <3>2. DOMAIN o.sec = 1 .. Len(o.sec) /\ Len(o.sec) \in Nat
      BY <3>1, LenProperties
    <3>3. CASE s \in DOMAIN o.sec
      <4>1. o.sec[s] \in SectionType
        BY <3>1, <3>2, <3>3, ElementOfSeq
      <4>2. Append(o.sec[s].entry, y) \in Seq(EntryType)
        BY <2>2, <4>1, Appended DEF SectionType
      <4>3. PICK e \in Seq(EntryType) : e = Append(o.sec[s].entry, y)
        BY <4>2
      <4>4. [o.sec EXCEPT ![s].entry = e] \in Seq(SectionType)
        <5>1. [o.sec[s] EXCEPT !.entry = e] \in SectionType
          BY <4>1 DEF SectionType
        <5>2. [o.sec EXCEPT ![s].entry = e] = [o.sec EXCEPT ![s] = [o.sec[s] EXCEPT !.entry = e]]
          OBVIOUS
        <5>3. QED
          BY <3>1, <3>3, <5>1, <5>2, ExceptSeq
      <4>5. QED
        BY <3>1, <4>3, <4>4 DEF Edited, ObjectType
    <3>4. CASE s \notin DOMAIN o.sec
      <4>1. \A e : [o.sec EXCEPT ![s].entry = e] = o.sec
        BY <3>1, <3>4
      <4>2. QED
        BY <3>1, <4>1 DEF Edited, ObjectType
    <3>5. QED
      BY <3>3, <3>4
  <2>4. Step(acc, line) = [obj |-> Edited(o, s, Append(o.sec[s].entry, y)), cur |-> s]
    BY <1>3, <2>1, LineSteps
  <2>5. QED
    BY <1>1, <2>1, <2>3, <2>4 DEF AccType
<1>4. CASE ~line.section /\ acc.cur = -1
  BY <1>4, LineSteps, ZenonT(60)
<1>5. QED
  BY <1>2, <1>3, <1>4

\* Line by line.
LEMMA LoadUnrolls ==
  ASSUME NEW o \in ObjectType, NEW q \in Seq(LineType)
  PROVE  \E a : /\ a[0] = Start(o) /\ a[Len(q)] = Load(o, q)
                /\ \A j \in 1 .. Len(q) : a[j] = Step(a[j - 1], q[j])
<1> DEFINE T == [p \in AccType \X LineType |-> Step(p[1], p[2])]
           D == DOMAIN q
           Is(f) == f = [s \in SUBSET D |-> IF s = {} THEN Start(o)
                                            ELSE LET x == Max(s) IN LoadedLine(f[s \ {x}], q[x], TRUE)]
           g == CHOOSE f : Is(f)
<1>1. Load(o, q) = g[D]
  BY DEF Load, FoldLeft, MapThenFoldSet
<1>2. T \in [AccType \X LineType -> AccType]
  BY StepTyped
<1>3. Start(o) \in AccType
  <2>1. ResetCache(o) \in ObjectType
    BY NewKeeps DEF Keeps, Sound
  <2>2. QED
    BY <2>1 DEF Start, AccType
<1> HIDE DEF T
<1>4. (\E f \in [SUBSET D -> AccType] : FoldsBy(T, Start(o), q, D, f)) /\ TopsIn(LineType, q, D)
  BY <1>2, <1>3, FoldExists
<1>5. \E f : Is(f)
  <2>1. PICK f \in [SUBSET D -> AccType] : FoldsBy(T, Start(o), q, D, f)
    BY <1>4
  <2>2. \A s \in SUBSET D : s # {} => f[s \ {Max(s)}] \in AccType /\ q[Max(s)] \in LineType
    BY <1>4, <2>1 DEF TopsIn
  <2>3. \A s \in SUBSET D : f[s] = IF s = {} THEN Start(o) ELSE LoadedLine(f[s \ {Max(s)}], q[Max(s)], TRUE)
    BY <2>1, <2>2 DEF FoldsBy, T, Step
  <2>4. QED
    BY <2>3
<1>6. Is(g)
  BY <1>5
<1>7. D = 1 .. Len(q) /\ Len(q) \in Nat
  BY LenProperties
<1> HIDE DEF g
<1>8. PICK a : Climbs(g, a, Len(q))
  BY <1>7, FoldClimbs
<1>9. a[0] = Start(o) /\ a[Len(q)] = Load(o, q)
  BY <1>1, <1>6, <1>7, <1>8 DEF Climbs
<1>10. ASSUME NEW j \in 1 .. Len(q) PROVE a[j] = Step(a[j - 1], q[j])
  <2>1. 1 .. j \in SUBSET D /\ ClimbsTo(j, g, a)
    BY <1>7, <1>8 DEF Climbs
  <2>2. 1 .. j # {} /\ Max(1 .. j) = j /\ (1 .. j) \ {j} = 1 .. j - 1
    BY <2>1 DEF ClimbsTo
  <2>3. \A s \in SUBSET D : s # {} => g[s] = LoadedLine(g[s \ {Max(s)}], q[Max(s)], TRUE)
    BY <1>6
  <2>4. g[1 .. j] = LoadedLine(g[1 .. j - 1], q[j], TRUE)
    BY <2>1, <2>2, <2>3
  <2>5. QED
    BY <2>1, <2>4 DEF ClimbsTo, Step
<1>11. QED
  BY <1>9, <1>10

\* Nothing from no lines; one step more for a line more.
LEMMA LoadsMore ==
  ASSUME NEW o \in ObjectType, NEW q \in Seq(LineType), NEW x \in LineType
  PROVE  /\ Load(o, <<>>) = Start(o) /\ Load(o, q) \in AccType
         /\ Load(o, Append(q, x)) = Step(Load(o, q), x)
<1>1. Load(o, <<>>) = Start(o)
  <2>1. <<>> \in Seq(LineType) /\ Len(<<>>) = 0
    OBVIOUS
  <2>2. PICK a : a[0] = Start(o) /\ a[Len(<<>>)] = Load(o, <<>>)
    BY <2>1, LoadUnrolls
  <2>3. QED
    BY <2>1, <2>2
<1>2. PICK a : /\ a[0] = Start(o) /\ a[Len(q)] = Load(o, q)
               /\ \A j \in 1 .. Len(q) : a[j] = Step(a[j - 1], q[j])
  BY LoadUnrolls
<1>3. PICK r : r = Append(q, x)
  OBVIOUS
<1>4. /\ r \in Seq(LineType) /\ Len(r) = Len(q) + 1 /\ Len(q) \in Nat /\ r[Len(q) + 1] = x
      /\ \A i \in 1 .. Len(q) : r[i] = q[i] /\ q[i] \in LineType
  BY <1>3, Appended, ElementOfSeq
<1>5. PICK b : /\ b[0] = Start(o) /\ b[Len(r)] = Load(o, r)
               /\ \A j \in 1 .. Len(r) : b[j] = Step(b[j - 1], r[j])
  BY <1>4, LoadUnrolls
<1>6. Start(o) \in AccType
  <2>1. ResetCache(o) \in ObjectType
    BY NewKeeps DEF Keeps, Sound
  <2>2. QED
    BY <2>1 DEF Start, AccType
<1> DEFINE P == {k \in 0 .. Len(q) : b[k] = a[k] /\ a[k] \in AccType}
<1>7. 0 \in P
  BY <1>2, <1>4, <1>5, <1>6
<1>8. ASSUME NEW j \in 1 .. Len(q), j - 1 \in P PROVE j \in P
  <2>1. b[j - 1] = a[j - 1] /\ a[j - 1] \in AccType
    BY <1>8
  <2>2. j \in 1 .. Len(r) /\ r[j] = q[j] /\ q[j] \in LineType
    BY <1>4
  <2>3. b[j] = a[j] /\ a[j] = Step(a[j - 1], q[j])
    BY <1>2, <1>5, <2>1, <2>2
  <2>4. a[j] \in AccType
    BY <2>1, <2>2, <2>3, StepTyped
  <2>5. QED
    BY <2>3, <2>4
<1> HIDE DEF P
<1>9. 0 .. Len(q) \subseteq P
  BY <1>4, <1>7, <1>8, UpTo
<1>10. b[Len(q)] = a[Len(q)] /\ a[Len(q)] \in AccType
  BY <1>4, <1>9 DEF P
<1>11. b[Len(q) + 1] = Step(b[Len(q)], x)
  <2>1. Len(q) + 1 \in 1 .. Len(r) /\ Len(q) + 1 - 1 = Len(q)
    BY <1>4
  <2>2. QED
    BY <1>4, <1>5, <2>1
<1>12. QED
  BY <1>1, <1>2, <1>3, <1>4, <1>5, <1>10, <1>11

\* While a section is read: the object keeps g, and the entries to come belong to the section S.
OnSection(acc, g, S) ==
  /\ acc \in AccType /\ Keeps(acc.obj, g)
  /\ acc.cur \in Live(acc.obj.sec) /\ UCase(acc.obj.sec[acc.cur].name) = S

\* A new section is the one at the end.
LEMMA AddSectionPlace ==
  ASSUME NamesAssumption, NEW o0, NEW f, Keeps(o0, f), NEW name \in SectionNames, UCase(name) \notin DOMAIN f
  PROVE  /\ AddSection(o0, name)[2] \in Live(AddSection(o0, name)[1].sec)
         /\ UCase(AddSection(o0, name)[1].sec[AddSection(o0, name)[2]].name) = UCase(name)
<1> DEFINE o == FindSection(o0, name)[1]
           s == FindSection(o0, name)[2]
           x == [name |-> name, entry |-> <<>>]
           sec == Append(o.sec, x)
<1>1. Sound(o0) /\ Stores(o0.sec, f)
  BY DEF Keeps
<1>2. Sound(o) /\ o.sec = o0.sec /\ FoundIn(o.sec, name, s)
  BY <1>1, FindsSection
<1>3. AddSection(o0, name) = IF s = 0 THEN <<Resectioned(o, sec, o.lastsec), Len(o.sec) + 1>> ELSE <<o, s>>
  <2>1. o \in [sec : Seq(SectionType), lastsec : Int, strlast : SectionNames \cup {Empty}, lastent : Int]
    BY <1>2 DEF Sound, ObjectType
  <2> HIDE DEF o, s
  <2>2. [o EXCEPT !.sec = sec] = Resectioned(o, sec, o.lastsec)
    BY <2>1 DEF Resectioned
  <2>3. QED
    BY <2>2 DEF AddSection, o, s
<1> HIDE DEF o, s
<1>4. o \in [sec : Seq(SectionType), lastsec : Int, strlast : SectionNames \cup {Empty}, lastent : Int]
  BY <1>2 DEF Sound, ObjectType
<1>5. 0 \notin DOMAIN o.sec
  BY <1>2, FromOne
<1>6. s = 0
  BY <1>1, <1>2, <1>5, SearchTells
<1>7. x \in SectionType /\ x.name = name /\ name # Empty
  BY NoEntries DEF SectionType, NamesAssumption
<1> HIDE DEF x
<1>8. DOMAIN sec = 1 .. Len(o.sec) + 1 /\ sec[Len(o.sec) + 1] = x /\ Len(o.sec) \in Nat
  BY <1>4, <1>7, Appended
<1> HIDE DEF sec
<1>9. Resectioned(o, sec, o.lastsec).sec = sec
  BY <1>4 DEF Resectioned
<1>10. Len(o.sec) + 1 \in Live(sec)
  BY <1>7, <1>8 DEF Live
<1>11. QED
  BY <1>3, <1>6, <1>7, <1>8, <1>9, <1>10

\* The line of a section not met before: it is there, and empty.
LEMMA SectionLineKeeps ==
  ASSUME NamesAssumption, NEW acc \in AccType, NEW g, Keeps(acc.obj, g), NEW name \in SectionNames, UCase(name) \notin DOMAIN g
  PROVE  /\ SectionLine(name) \in LineType
         /\ OnSection(Step(acc, SectionLine(name)), Promise!With(g, UCase(name), Promise!NoKeys), UCase(name))
<1>1. SectionLine(name) \in LineType /\ SectionLine(name).section /\ SectionLine(name).text = name
  BY DEF SectionLine, LineType
<1>2. PICK o, s : o = AddSection(acc.obj, name)[1] /\ s = AddSection(acc.obj, name)[2]
  OBVIOUS
<1>3. PICK after : after = Step(acc, SectionLine(name))
  OBVIOUS
<1>4. after = [obj |-> o, cur |-> s] /\ after \in AccType
  BY <1>1, <1>2, <1>3, LineSteps, StepTyped, ZenonT(60)
<1>5. Keeps(o, Promise!With(g, UCase(name), Promise!NoKeys))
  BY <1>2, AddSectionKeeps
<1>6. s \in Live(o.sec) /\ UCase(o.sec[s].name) = UCase(name)
  BY <1>2, AddSectionPlace
<1>7. after.obj = o /\ after.cur = s
  BY <1>4
<1>8. OnSection(after, Promise!With(g, UCase(name), Promise!NoKeys), UCase(name))
  BY <1>4, <1>5, <1>6, <1>7 DEF OnSection
<1>9. QED
  BY <1>1, <1>3, <1>8

\* The line of an entry not met before in its section: it is there, with its value.
LEMMA EntryLineKeeps ==
  ASSUME NamesAssumption, NEW acc, NEW g, NEW S, OnSection(acc, g, S), NEW x \in EntryType, x.name # Empty,
         UCase(x.name) \notin DOMAIN g[S]
  PROVE  /\ EntryLine(x, TRUE) \in LineType
         /\ OnSection(Step(acc, EntryLine(x, TRUE)), [g EXCEPT ![S] = Promise!With(g[S], UCase(x.name), x.value)], S)
<1>1. PICK line : line = EntryLine(x, TRUE)
  OBVIOUS
<1>2. line \in LineType /\ ~line.section /\ line.text[1] = x.name /\ line.text[2] = x.value
  BY <1>1 DEF EntryLine, LineType, EntryType
<1>3. PICK o, s : o = acc.obj /\ s = acc.cur
  OBVIOUS
<1>4. acc \in AccType /\ Keeps(o, g) /\ s \in Live(o.sec) /\ UCase(o.sec[s].name) = S
  BY <1>3 DEF OnSection
<1>5. x = [name |-> line.text[1], value |-> line.text[2]]
  BY <1>2 DEF EntryType
<1>6. Sound(o) /\ Stores(o.sec, g) /\ o.sec \in Seq(SectionType) /\ s \in 1 .. Len(o.sec)
  BY <1>4, FromOne DEF Keeps, Live
<1>7. s # -1
  BY <1>6
<1>8. PICK e : e = o.sec[s].entry
  OBVIOUS
<1>9. e \in Seq(EntryType) /\ Distinct(e) /\ Holds(e, g[S])
  <2>1. o.sec[s] \in SectionType
    BY <1>6, ElementOfSeq
  <2>2. QED
    BY <1>4, <1>6, <1>8, <2>1 DEF SectionType, Sound, Stores, Live
<1>10. UCase(x.name) \notin Names(e)
  BY <1>9 DEF Holds
<1>11. PICK h : h = Promise!With(g[S], UCase(x.name), x.value)
  OBVIOUS
<1>12. PICK f : f = Append(e, x)
  OBVIOUS
<1>13. f \in Seq(EntryType) /\ Distinct(f) /\ Holds(f, h)
  BY <1>9, <1>10, <1>11, <1>12, EntryAppended
<1>14. Keeps(Edited(o, s, f), [g EXCEPT ![UCase(o.sec[s].name)] = h])
  BY <1>4, <1>13, EntriesChanged
<1>15. PICK after : after = Step(acc, line)
  OBVIOUS
<1>16. after = [obj |-> Edited(o, s, f), cur |-> s] /\ after \in AccType
  BY <1>2, <1>3, <1>4, <1>5, <1>7, <1>8, <1>12, <1>15, LineSteps, StepTyped
<1>17. PICK p : p = Edited(o, s, f)
  OBVIOUS
<1>18. s \in Live(p.sec) /\ p.sec[s].name = o.sec[s].name
  <2>1. o \in [sec : Seq(SectionType), lastsec : Int, strlast : SectionNames \cup {Empty}, lastent : Int]
    BY <1>6 DEF Sound, ObjectType
  <2>2. p.sec = [o.sec EXCEPT ![s].entry = f]
    BY <1>17, <2>1 DEF Edited
  <2>3. o.sec[s] \in SectionType /\ s \in DOMAIN o.sec /\ o.sec[s].name # Empty
    BY <1>4, <1>6, ElementOfSeq DEF Live
  <2>4. p.sec[s].name = o.sec[s].name /\ s \in DOMAIN p.sec
    BY <2>2, <2>3 DEF SectionType
  <2>5. QED
    BY <2>3, <2>4 DEF Live
<1>19. after.obj = p /\ after.cur = s
  BY <1>16, <1>17
<1>20. OnSection(after, [g EXCEPT ![S] = h], S)
  BY <1>4, <1>14, <1>16, <1>17, <1>18, <1>19 DEF OnSection
<1>21. QED
  BY <1>1, <1>2, <1>11, <1>15, <1>20

\* What the lines q say, whatever the object was before; the last of them in the section S.
Loads(q, g) == q \in Seq(LineType) /\ \A o \in ObjectType : Keeps(Load(o, q).obj, g)
LoadsIn(q, g, S) == q \in Seq(LineType) /\ \A o \in ObjectType : OnSection(Load(o, q), g, S)

\* However few of the lines q there are, they say part of m.
PartsLoad(q, m) == \A k \in 0 .. Len(q) : \E g : Promise!PartOf(g, m) /\ Loads(SubSeq(q, 1, k), g)

LEMMA InSectionLoads ==
  ASSUME NEW q, NEW g, NEW S, LoadsIn(q, g, S) PROVE Loads(q, g)
BY DEF LoadsIn, Loads, OnSection

LEMMA NoLinesLoad == Loads(<<>>, Promise!NoSections)
<1>1. <<>> \in Seq(LineType)
  OBVIOUS
<1>2. ASSUME NEW o \in ObjectType PROVE Keeps(Load(o, <<>>).obj, Promise!NoSections)
  <2>1. PICK a : a[0] = Start(o) /\ a[Len(<<>>)] = Load(o, <<>>)
    BY <1>1, LoadUnrolls
  <2>2. Len(<<>>) = 0
    OBVIOUS
  <2>3. Load(o, <<>>) = Start(o)
    BY <2>1, <2>2
  <2>4. QED
    BY <2>3, NewKeeps DEF Start
<1>3. QED
  BY <1>1, <1>2 DEF Loads

LEMMA SectionMore ==
  ASSUME NamesAssumption, NEW q, NEW g, Loads(q, g), NEW name \in SectionNames, UCase(name) \notin DOMAIN g
  PROVE  /\ SectionLine(name) \in LineType
         /\ LoadsIn(Append(q, SectionLine(name)), Promise!With(g, UCase(name), Promise!NoKeys), UCase(name))
<1>1. q \in Seq(LineType) /\ \A o \in ObjectType : Keeps(Load(o, q).obj, g)
  BY DEF Loads
<1>2. SectionLine(name) \in LineType
  BY DEF SectionLine, LineType
<1>3. PICK line \in LineType : line = SectionLine(name)
  BY <1>2
<1>4. ASSUME NEW o \in ObjectType
      PROVE  OnSection(Load(o, Append(q, line)), Promise!With(g, UCase(name), Promise!NoKeys), UCase(name))
  <2>1. Load(o, q) \in AccType /\ Load(o, Append(q, line)) = Step(Load(o, q), line)
    BY <1>1, LoadsMore
  <2>2. PICK acc \in AccType : acc = Load(o, q)
    BY <2>1
  <2>3. Keeps(acc.obj, g)
    BY <1>1, <2>2
  <2>4. QED
    BY <1>3, <2>1, <2>2, <2>3, SectionLineKeeps
<1>5. Append(q, line) \in Seq(LineType)
  BY <1>1, Appended
<1>6. QED
  BY <1>2, <1>3, <1>4, <1>5 DEF LoadsIn

LEMMA EntryMore ==
  ASSUME NamesAssumption, NEW q, NEW g, NEW S, LoadsIn(q, g, S), NEW x \in EntryType, x.name # Empty,
         UCase(x.name) \notin DOMAIN g[S]
  PROVE  /\ EntryLine(x, TRUE) \in LineType
         /\ LoadsIn(Append(q, EntryLine(x, TRUE)), [g EXCEPT ![S] = Promise!With(g[S], UCase(x.name), x.value)], S)
<1>1. q \in Seq(LineType) /\ \A o \in ObjectType : OnSection(Load(o, q), g, S)
  BY DEF LoadsIn
<1>2. EntryLine(x, TRUE) \in LineType
  BY DEF EntryLine, LineType, EntryType
<1>3. PICK line \in LineType : line = EntryLine(x, TRUE)
  BY <1>2
<1>4. PICK r : r = [g EXCEPT ![S] = Promise!With(g[S], UCase(x.name), x.value)]
  OBVIOUS
<1>5. ASSUME NEW o \in ObjectType PROVE OnSection(Load(o, Append(q, line)), r, S)
  <2>1. Load(o, Append(q, line)) = Step(Load(o, q), line)
    BY <1>1, LoadsMore
  <2>2. PICK acc : acc = Load(o, q)
    OBVIOUS
  <2>3. OnSection(acc, g, S)
    BY <1>1, <2>2
  <2>4. OnSection(Step(acc, line), r, S)
    BY <1>3, <1>4, <2>3, EntryLineKeeps
  <2>5. QED
    BY <2>1, <2>2, <2>4
<1>6. Append(q, line) \in Seq(LineType)
  BY <1>1, Appended
<1>7. QED
  BY <1>2, <1>3, <1>4, <1>5, <1>6 DEF LoadsIn

\* One line more that says part of m.
LEMMA PartsMore ==
  ASSUME NEW m, NEW q \in Seq(LineType), PartsLoad(q, m), NEW x \in LineType,
         NEW g, Promise!PartOf(g, m), Loads(Append(q, x), g)
  PROVE  PartsLoad(Append(q, x), m)
<1>1. PICK r : r = Append(q, x)
  OBVIOUS
<1>2. /\ r \in Seq(LineType) /\ Len(r) = Len(q) + 1 /\ Len(q) \in Nat
      /\ \A i \in 1 .. Len(q) : r[i] = q[i]
  BY <1>1, Appended
<1>3. ASSUME NEW k \in 0 .. Len(r) PROVE \E c : Promise!PartOf(c, m) /\ Loads(SubSeq(r, 1, k), c)
  <2>1. CASE k = Len(r)
    <3>1. SubSeq(r, 1, k) = r
      BY <1>2, <2>1, SubSeqFull
    <3>2. QED
      BY <1>1, <3>1
  <2>2. CASE k # Len(r)
    <3>1. k \in 0 .. Len(q)
      BY <1>2, <2>2
    <3>2. /\ SubSeq(r, 1, k) \in Seq(LineType) /\ Len(SubSeq(r, 1, k)) = k
          /\ SubSeq(q, 1, k) \in Seq(LineType) /\ Len(SubSeq(q, 1, k)) = k
          /\ \A i \in 1 .. k : SubSeq(r, 1, k)[i] = r[i] /\ SubSeq(q, 1, k)[i] = q[i]
      <4>1. ASSUME NEW s \in Seq(LineType), k <= Len(s)
            PROVE  SubSeq(s, 1, k) \in Seq(LineType) /\ Len(SubSeq(s, 1, k)) = k /\ \A i \in 1 .. k : SubSeq(s, 1, k)[i] = s[i]
        <5>1. \A i \in 1 .. k : s[i] \in LineType
          BY <3>1, <4>1, ElementOfSeq, LenProperties
        <5>2. SubSeq(s, 1, k) \in Seq(LineType) /\ Len(SubSeq(s, 1, k)) = IF 1 <= k THEN k - 1 + 1 ELSE 0
          BY <1>2, <3>1, <4>1, <5>1, SubSeqProperties
        <5>3. \A i \in 1 .. k - 1 + 1 : SubSeq(s, 1, k)[i] = s[1 + i - 1]
          BY <1>2, <3>1, <4>1, <5>1, SubSeqProperties
        <5>4. QED
          BY <1>2, <3>1, <5>2, <5>3
      <4>2. k <= Len(r) /\ k <= Len(q)
        BY <1>2, <3>1
      <4>3. QED
        BY <1>2, <4>1, <4>2
    <3>3. \A i \in 1 .. k : SubSeq(r, 1, k)[i] = SubSeq(q, 1, k)[i]
      BY <1>2, <3>1, <3>2
    <3>4. SubSeq(r, 1, k) = SubSeq(q, 1, k)
      BY <3>2, <3>3, SeqEqual
    <3>5. QED
      BY <3>1, <3>4 DEF PartsLoad
  <2>3. QED
    BY <2>1, <2>2
<1>4. QED
  BY <1>1, <1>3 DEF PartsLoad

-----------------------------------------------------------------------------
(* The save.  Its lines say what the object keeps, and a file that broke off  *)
(* says part of it.                                                           *)

\* The entries of a section, and the sections, written one after the other.
LEMMA EntriesUnroll ==
  ASSUME NEW file \in Seq(LineType), NEW e \in Seq(EntryType)
  PROVE  \E a : /\ a[0] = file /\ a[Len(e)] = SavedEntries(file, e, TRUE) /\ SavedEntries(file, e, TRUE) \in Seq(LineType)
                /\ \A j \in 1 .. Len(e) : a[j] = IF e[j].name = Empty THEN a[j - 1] ELSE Append(a[j - 1], EntryLine(e[j], TRUE))
<1> DEFINE A == Seq(LineType)
           T == [p \in A \X EntryType |-> IF p[2].name = Empty THEN p[1] ELSE Append(p[1], EntryLine(p[2], TRUE))]
           D == DOMAIN e
           Is(f) == f = [s \in SUBSET D |-> IF s = {} THEN file
                                            ELSE LET x == Max(s)
                                                 IN IF e[x].name = Empty THEN f[s \ {x}] ELSE Append(f[s \ {x}], EntryLine(e[x], TRUE))]
           g == CHOOSE f : Is(f)
<1>1. SavedEntries(file, e, TRUE) = g[D]
  BY DEF SavedEntries, FoldLeft, MapThenFoldSet
<1>2. T \in [A \X EntryType -> A] /\ file \in A
  <2>1. ASSUME NEW q \in A, NEW x \in EntryType, x.name # Empty PROVE Append(q, EntryLine(x, TRUE)) \in A
    <3>1. EntryLine(x, TRUE) \in LineType
      BY <2>1 DEF EntryLine, LineType, EntryType
    <3>2. PICK line \in LineType : line = EntryLine(x, TRUE)
      BY <3>1
    <3>3. Append(q, line) \in Seq(LineType)
      BY Appended
    <3>4. QED
      BY <3>2, <3>3
  <2> HIDE DEF A
  <2>2. \A q \in A, x \in EntryType : (IF x.name = Empty THEN q ELSE Append(q, EntryLine(x, TRUE))) \in A
    BY <2>1
  <2>3. file \in A
    BY DEF A
  <2>4. QED
    BY <2>2, <2>3
<1> HIDE DEF T, A
<1>3. (\E f \in [SUBSET D -> A] : FoldsBy(T, file, e, D, f)) /\ TopsIn(EntryType, e, D)
  BY <1>2, FoldExists
<1>4. PICK f \in [SUBSET D -> A] : FoldsBy(T, file, e, D, f)
  BY <1>3
<1>5. Is(f)
  <2>1. \A s \in SUBSET D : s # {} => f[s \ {Max(s)}] \in A /\ e[Max(s)] \in EntryType
    BY <1>3, <1>4 DEF TopsIn
  <2>2. \A s \in SUBSET D : f[s] = IF s = {} THEN file ELSE IF e[Max(s)].name = Empty
                                   THEN f[s \ {Max(s)}] ELSE Append(f[s \ {Max(s)}], EntryLine(e[Max(s)], TRUE))
    BY <1>4, <2>1, Zenon DEF FoldsBy, T
  <2>3. QED
    BY <1>4, <2>2
<1>6. Is(g)
  BY <1>5, Zenon
<1>7. D = 1 .. Len(e) /\ Len(e) \in Nat
  BY LenProperties
<1> HIDE DEF g
<1>8. PICK a : Climbs(g, a, Len(e))
  BY <1>7, FoldClimbs
<1>9. a[0] = file /\ a[Len(e)] = SavedEntries(file, e, TRUE)
  BY <1>1, <1>6, <1>7, <1>8 DEF Climbs
<1>10. ASSUME NEW j \in 1 .. Len(e)
       PROVE  a[j] = IF e[j].name = Empty THEN a[j - 1] ELSE Append(a[j - 1], EntryLine(e[j], TRUE))
  <2>1. 1 .. j \in SUBSET D /\ ClimbsTo(j, g, a)
    BY <1>7, <1>8 DEF Climbs
  <2>2. 1 .. j # {} /\ Max(1 .. j) = j /\ (1 .. j) \ {j} = 1 .. j - 1
    BY <2>1 DEF ClimbsTo
  <2>3. \A s \in SUBSET D : s # {} => g[s] = IF e[Max(s)].name = Empty THEN g[s \ {Max(s)}]
                                             ELSE Append(g[s \ {Max(s)}], EntryLine(e[Max(s)], TRUE))
    BY <1>6
  <2>4. g[1 .. j] = IF e[j].name = Empty THEN g[1 .. j - 1] ELSE Append(g[1 .. j - 1], EntryLine(e[j], TRUE))
    BY <2>1, <2>2, <2>3
  <2>5. QED
    BY <2>1, <2>4 DEF ClimbsTo
<1> DEFINE P == {k \in 0 .. Len(e) : a[k] \in A}
<1>11. 0 \in P
  BY <1>2, <1>7, <1>9
<1>12. ASSUME NEW j \in 1 .. Len(e), j - 1 \in P PROVE j \in P
  <2>1. a[j - 1] \in A /\ e[j] \in EntryType
    BY <1>12, ElementOfSeq
  <2>2. a[j] = T[a[j - 1], e[j]]
    BY <1>10, <2>1 DEF T
  <2>3. a[j] \in A
    BY <1>2, <2>1, <2>2
  <2>4. QED
    BY <1>7, <2>3
<1> HIDE DEF P
<1>13. 0 .. Len(e) \subseteq P
  BY <1>7, <1>11, <1>12, UpTo
<1>14. a[Len(e)] \in A
  BY <1>7, <1>13 DEF P
<1>15. QED
  BY <1>9, <1>10, <1>14 DEF A

LEMMA SaveUnrolls ==
  ASSUME NEW o, o.sec \in Seq(SectionType)
  PROVE  \E b : /\ b[0] = <<>> /\ b[Len(o.sec)] = SaveToString(o, TRUE)
                /\ \A k \in 1 .. Len(o.sec) :
                     b[k] = IF o.sec[k].name = Empty THEN b[k - 1]
                            ELSE SavedEntries(Append(b[k - 1], SectionLine(o.sec[k].name)), o.sec[k].entry, TRUE)
<1> DEFINE A == Seq(LineType)
           Saves(q, x) == IF x.name = Empty THEN q ELSE SavedEntries(Append(q, SectionLine(x.name)), x.entry, TRUE)
           T == [p \in A \X SectionType |-> Saves(p[1], p[2])]
           sec == o.sec
           D == DOMAIN sec
           Is(f) == f = [s \in SUBSET D |-> IF s = {} THEN <<>> ELSE LET x == Max(s) IN Saves(f[s \ {x}], sec[x])]
           g == CHOOSE f : Is(f)
<1>1. SaveToString(o, TRUE) = g[D]
  BY DEF SaveToString, FoldLeft, MapThenFoldSet
<1>2. T \in [A \X SectionType -> A] /\ <<>> \in A
  <2>1. ASSUME NEW q \in A, NEW x \in SectionType PROVE Saves(q, x) \in A
    <3>1. CASE x.name # Empty
      <4>1. SectionLine(x.name) \in LineType /\ x.entry \in Seq(EntryType)
        BY <3>1 DEF SectionLine, LineType, SectionType
      <4>2. PICK r : r = Append(q, SectionLine(x.name))
        OBVIOUS
      <4>3. r \in Seq(LineType)
        BY <4>1, <4>2, Appended
      <4>4. SavedEntries(r, x.entry, TRUE) \in Seq(LineType)
        BY <4>1, <4>3, EntriesUnroll
      <4>5. QED
        BY <3>1, <4>2, <4>4
    <3>2. QED
      BY <3>1
  <2> HIDE DEF Saves
  <2>2. QED
    BY <2>1
<1> HIDE DEF T, A, Saves
<1>3. sec \in Seq(SectionType)
  OBVIOUS
<1> HIDE DEF sec
<1>4. (\E f \in [SUBSET D -> A] : FoldsBy(T, <<>>, sec, D, f)) /\ TopsIn(SectionType, sec, D)
  BY <1>2, <1>3, FoldExists
<1>5. PICK f \in [SUBSET D -> A] : FoldsBy(T, <<>>, sec, D, f)
  BY <1>4
<1>6. Is(f)
  <2>1. \A s \in SUBSET D : s # {} => f[s \ {Max(s)}] \in A /\ sec[Max(s)] \in SectionType
    BY <1>4, <1>5 DEF TopsIn
  <2>2. \A s \in SUBSET D : f[s] = IF s = {} THEN <<>> ELSE Saves(f[s \ {Max(s)}], sec[Max(s)])
    BY <1>5, <2>1 DEF FoldsBy, T
  <2>3. QED
    BY <1>5, <2>2
<1>7. Is(g)
  BY <1>6
<1>8. D = 1 .. Len(sec) /\ Len(sec) \in Nat
  BY <1>3, LenProperties
<1> HIDE DEF g
<1>9. PICK b : Climbs(g, b, Len(sec))
  BY <1>8, FoldClimbs
<1>10. b[0] = <<>> /\ b[Len(sec)] = SaveToString(o, TRUE)
  BY <1>1, <1>7, <1>8, <1>9 DEF Climbs
<1>11. ASSUME NEW k \in 1 .. Len(sec) PROVE b[k] = Saves(b[k - 1], sec[k])
  <2>1. 1 .. k \in SUBSET D /\ ClimbsTo(k, g, b)
    BY <1>8, <1>9 DEF Climbs
  <2>2. 1 .. k # {} /\ Max(1 .. k) = k /\ (1 .. k) \ {k} = 1 .. k - 1
    BY <2>1 DEF ClimbsTo
  <2>3. \A s \in SUBSET D : s # {} => g[s] = Saves(g[s \ {Max(s)}], sec[Max(s)])
    BY <1>7
  <2>4. g[1 .. k] = Saves(g[1 .. k - 1], sec[k])
    BY <2>1, <2>2, <2>3
  <2>5. QED
    BY <2>1, <2>4 DEF ClimbsTo
<1>12. QED
  BY <1>10, <1>11 DEF Saves, sec

\* The map f at the names N only.
Only(f, N) == [y \in N |-> f[y]]

LEMMA OnlyMore ==
  ASSUME NEW f, NEW N, NEW y, y \notin N
  PROVE  Promise!With(Only(f, N), y, f[y]) = Only(f, N \cup {y})
<1>1. DOMAIN Only(f, N) = N
  BY DEF Only
<1>2. QED
  BY <1>1 DEF Promise!With, Only

\* The sections N of m, and of one section more the entries M.
LEMMA PartsOnly ==
  ASSUME NEW m, NEW N, N \subseteq DOMAIN m
  PROVE  /\ Promise!PartOf(Only(m, N), m)
         /\ \A S \in DOMAIN m : \A M \in SUBSET DOMAIN m[S] : Promise!PartOf(Promise!With(Only(m, N), S, Only(m[S], M)), m)
<1>1. Promise!PartOf(Only(m, N), m)
  BY DEF Promise!PartOf, Only
<1>2. ASSUME NEW S \in DOMAIN m, NEW M \in SUBSET DOMAIN m[S]
      PROVE  Promise!PartOf(Promise!With(Only(m, N), S, Only(m[S], M)), m)
  <2>1. PICK c : c = Promise!With(Only(m, N), S, Only(m[S], M))
    OBVIOUS
  <2>2. PICK d : d = Only(m[S], M)
    OBVIOUS
  <2>3. DOMAIN c = N \cup {S} /\ c[S] = d /\ \A R \in N \ {S} : c[R] = m[R]
    BY <2>1, <2>2 DEF Promise!With, Only
  <2>4. DOMAIN d = M /\ \A K \in M : d[K] = m[S][K]
    BY <2>2 DEF Only
  <2>5. \A R \in DOMAIN c : DOMAIN c[R] \subseteq DOMAIN m[R] /\ \A K \in DOMAIN c[R] : c[R][K] = m[R][K]
    BY <2>3, <2>4
  <2>6. Promise!PartOf(c, m)
    BY <2>3, <2>5 DEF Promise!PartOf
  <2>7. QED
    BY <2>1, <2>6
<1>3. QED
  BY <1>1, <1>2

\* Entry by entry: the section S of the file has those written.
LEMMA EntriesSaved ==
  ASSUME NamesAssumption, NEW e \in Seq(EntryType), Distinct(e), NEW h, Holds(e, h), NEW file, NEW g, NEW S, NEW m,
         LoadsIn(file, Promise!With(g, S, Promise!NoKeys), S), PartsLoad(file, m),
         \A M \in SUBSET Names(e) : Promise!PartOf(Promise!With(g, S, Only(h, M)), m)
  PROVE  LoadsIn(SavedEntries(file, e, TRUE), Promise!With(g, S, h), S) /\ PartsLoad(SavedEntries(file, e, TRUE), m)
<1>1. file \in Seq(LineType)
  BY DEF LoadsIn
<1>2. PICK a : /\ a[0] = file /\ a[Len(e)] = SavedEntries(file, e, TRUE) /\ SavedEntries(file, e, TRUE) \in Seq(LineType)
               /\ \A j \in 1 .. Len(e) : a[j] = IF e[j].name = Empty THEN a[j - 1] ELSE Append(a[j - 1], EntryLine(e[j], TRUE))
  BY <1>1, EntriesUnroll
<1>3. DOMAIN e = 1 .. Len(e) /\ Len(e) \in Nat
  BY LenProperties
<1> DEFINE So(j) == Promise!With(g, S, Only(h, FirstNames(e, j)))
           P == {j \in 0 .. Len(e) : LoadsIn(a[j], So(j), S) /\ PartsLoad(a[j], m)}
<1>4. 0 \in P
  <2>1. FirstNames(e, 0) = {}
    BY EveryName
  <2>2. Only(h, {}) = Promise!NoKeys
    BY DEF Only, Promise!NoKeys
  <2>3. QED
    BY <1>2, <1>3, <2>1, <2>2
<1>5. ASSUME NEW j \in 1 .. Len(e), j - 1 \in P PROVE j \in P
  <2>1. PICK q, r, N, c : q = a[j - 1] /\ r = a[j] /\ N = FirstNames(e, j - 1) /\ c = So(j - 1)
    OBVIOUS
  <2>2. LoadsIn(q, c, S) /\ PartsLoad(q, m)
    BY <1>5, <2>1
  <2>3. CASE j \notin Live(e)
    <3>1. FirstNames(e, j) = FirstNames(e, j - 1) /\ r = q
      BY <1>2, <1>3, <2>1, <2>3, NextName DEF Live
    <3>2. So(j) = c
      BY <2>1, <3>1
    <3> HIDE DEF So
    <3>3. LoadsIn(r, So(j), S) /\ PartsLoad(r, m)
      BY <2>2, <3>1, <3>2
    <3>4. QED
      BY <1>3, <2>1, <3>3
  <2>4. CASE j \in Live(e)
    <3>1. PICK x \in EntryType : x = e[j]
      BY ElementOfSeq
    <3>2. x.name # Empty /\ r = Append(q, EntryLine(x, TRUE)) /\ h[UCase(x.name)] = x.value
      BY <1>2, <2>1, <2>4, <3>1 DEF Live, Holds
    <3>3. UCase(x.name) \notin N /\ FirstNames(e, j) = N \cup {UCase(x.name)}
      BY <2>1, <2>4, <3>1, NextName
    <3>4. PICK K : K = UCase(x.name)
      OBVIOUS
    <3>5. c = Promise!With(g, S, Only(h, N))
      BY <2>1
    <3>6. c[S] = Only(h, N) /\ DOMAIN c[S] = N
      BY <3>5 DEF Promise!With, Only
    <3>7. [c EXCEPT ![S] = Promise!With(c[S], K, x.value)] = Promise!With(g, S, Only(h, N \cup {K}))
      <4>1. Promise!With(c[S], K, x.value) = Only(h, N \cup {K})
        BY <3>2, <3>3, <3>4, <3>6, OnlyMore
      <4>2. PICK d : d = Only(h, N \cup {K})
        OBVIOUS
      <4>3. [c EXCEPT ![S] = d] = Promise!With(g, S, d)
        BY <3>5 DEF Promise!With
      <4>4. QED
        BY <4>1, <4>2, <4>3
    <3>8. EntryLine(x, TRUE) \in LineType /\ LoadsIn(r, [c EXCEPT ![S] = Promise!With(c[S], UCase(x.name), x.value)], S)
      BY <2>2, <3>2, <3>3, <3>6, EntryMore
    <3>9. LoadsIn(r, So(j), S)
      BY <3>3, <3>4, <3>7, <3>8
    <3>10. Promise!PartOf(So(j), m)
      <4>1. FirstNames(e, j) \subseteq Names(e)
        BY DEF FirstNames, Names
      <4>2. QED
        BY <4>1
    <3> HIDE DEF So
    <3>11. PartsLoad(r, m)
      <4>1. PICK line \in LineType : line = EntryLine(x, TRUE)
        BY <3>8
      <4>2. q \in Seq(LineType)
        BY <2>2 DEF LoadsIn
      <4>3. PICK d : d = So(j)
        OBVIOUS
      <4>4. Loads(Append(q, line), d) /\ Promise!PartOf(d, m)
        BY <3>2, <3>9, <3>10, <4>1, <4>3, InSectionLoads
      <4>5. PartsLoad(Append(q, line), m)
        BY <2>2, <4>2, <4>4, PartsMore
      <4>6. QED
        BY <3>2, <4>1, <4>5
    <3>12. QED
      BY <1>3, <2>1, <3>9, <3>11
  <2>5. QED
    BY <2>3, <2>4
<1> HIDE DEF P
<1>6. 0 .. Len(e) \subseteq P
  BY <1>3, <1>4, <1>5, UpTo
<1>7. LoadsIn(a[Len(e)], So(Len(e)), S) /\ PartsLoad(a[Len(e)], m)
  BY <1>3, <1>6 DEF P
<1>8. Only(h, FirstNames(e, Len(e))) = h
  <2>1. h = [K \in Names(e) |-> h[K]]
    BY DEF Holds
  <2>2. QED
    BY <2>1, EveryName DEF Only
<1>9. QED
  BY <1>2, <1>7, <1>8

\* Section by section: what SaveToString returns says all that the object keeps, and its beginnings
\* say parts of it.
LEMMA SaysAll ==
  ASSUME NamesAssumption, NEW o, NEW m, Keeps(o, m)
  PROVE  Loads(SaveToString(o, TRUE), m) /\ PartsLoad(SaveToString(o, TRUE), m)
<1>1. PICK sec : sec = o.sec
  OBVIOUS
<1>2. Sound(o) /\ Stores(sec, m) /\ sec \in Seq(SectionType) /\ DOMAIN sec = 1 .. Len(sec) /\ Len(sec) \in Nat /\ Distinct(sec)
  BY <1>1, FromOne DEF Keeps, Sound
<1>3. PICK b : /\ b[0] = <<>> /\ b[Len(sec)] = SaveToString(o, TRUE)
               /\ \A k \in 1 .. Len(sec) :
                    b[k] = IF sec[k].name = Empty THEN b[k - 1]
                           ELSE SavedEntries(Append(b[k - 1], SectionLine(sec[k].name)), sec[k].entry, TRUE)
  BY <1>1, <1>2, SaveUnrolls
<1>4. m = [S \in Names(sec) |-> m[S]] /\ DOMAIN m = Names(sec)
  BY <1>2 DEF Stores
<1> DEFINE So(k) == Only(m, FirstNames(sec, k))
           P == {k \in 0 .. Len(sec) : Loads(b[k], So(k)) /\ PartsLoad(b[k], m)}
<1>5. 0 \in P
  <2>1. So(0) = Promise!NoSections
    <3>1. FirstNames(sec, 0) = {}
      BY <1>2, EveryName
    <3>2. QED
      BY <3>1 DEF Only, Promise!NoSections
  <2>2. Loads(<<>>, Promise!NoSections)
    BY NoLinesLoad
  <2>3. PartsLoad(<<>>, m)
    <3>1. Promise!PartOf(Promise!NoSections, m)
      BY DEF Promise!PartOf, Promise!NoSections
    <3>2. Len(<<>>) = 0 /\ <<>> \in Seq(LineType)
      OBVIOUS
    <3>3. 0 .. Len(<<>>) = {0}
      BY <3>2
    <3>4. SubSeq(<<>>, 1, Len(<<>>)) = <<>>
      BY <3>2, SubSeqFull
    <3>5. SubSeq(<<>>, 1, 0) = <<>>
      BY <3>2, <3>4
    <3>6. QED
      BY <2>2, <3>1, <3>3, <3>5 DEF PartsLoad
  <2>4. QED
    BY <1>2, <1>3, <2>1, <2>2, <2>3
<1>6. ASSUME NEW k \in 1 .. Len(sec), k - 1 \in P PROVE k \in P
  <2>1. PICK q, r, N, c : q = b[k - 1] /\ r = b[k] /\ N = FirstNames(sec, k - 1) /\ c = So(k - 1)
    OBVIOUS
  <2>2. Loads(q, c) /\ PartsLoad(q, m) /\ c = Only(m, N)
    BY <1>6, <2>1
  <2>3. CASE k \notin Live(sec)
    <3>1. FirstNames(sec, k) = FirstNames(sec, k - 1) /\ r = q
      BY <1>2, <1>3, <2>1, <2>3, NextName DEF Live
    <3>2. So(k) = c
      BY <2>1, <3>1
    <3> HIDE DEF So
    <3>3. Loads(r, So(k)) /\ PartsLoad(r, m)
      BY <2>2, <3>1, <3>2
    <3>4. QED
      BY <1>2, <2>1, <3>3
  <2>4. CASE k \in Live(sec)
    <3>1. sec[k] \in SectionType
      BY <1>2, ElementOfSeq
    <3>2. PICK name, e : name = sec[k].name /\ e = sec[k].entry
      OBVIOUS
    <3>3. name \in SectionNames /\ e \in Seq(EntryType)
      BY <2>4, <3>1, <3>2 DEF SectionType, Live
    <3>4. PICK S : S = UCase(name)
      OBVIOUS
    <3>5. Distinct(e) /\ Holds(e, m[S]) /\ S \in DOMAIN m
      BY <1>1, <1>2, <1>4, <2>4, <3>2, <3>4 DEF Sound, Stores, Live, Names
    <3>6. S \notin N /\ FirstNames(sec, k) = N \cup {S}
      BY <1>2, <2>1, <2>4, <3>2, <3>4, NextName
    <3>7. PICK line : line = SectionLine(name)
      OBVIOUS
    <3>8. r = SavedEntries(Append(q, line), e, TRUE)
      BY <1>3, <2>1, <2>4, <3>2, <3>7 DEF Live
    <3>9. DOMAIN c = N
      BY <2>2 DEF Only
    <3>10. line \in LineType /\ LoadsIn(Append(q, line), Promise!With(c, S, Promise!NoKeys), S)
      BY <2>2, <3>3, <3>4, <3>6, <3>7, <3>9, SectionMore
    <3>11. DOMAIN m[S] = Names(e) /\ m[S] = [K \in Names(e) |-> m[S][K]]
      BY <3>5 DEF Holds
    <3>12. N \subseteq DOMAIN m
      BY <1>4, <2>1 DEF FirstNames, Names
    <3>13. \A M \in SUBSET Names(e) : Promise!PartOf(Promise!With(c, S, Only(m[S], M)), m)
      BY <2>2, <3>5, <3>11, <3>12, PartsOnly
    <3>14. PICK file : file = Append(q, line)
      OBVIOUS
    <3>15. PartsLoad(file, m)
      <4>1. q \in Seq(LineType)
        BY <2>2 DEF Loads
      <4>2. PICK d : d = Promise!With(c, S, Promise!NoKeys)
        OBVIOUS
      <4>3. Loads(Append(q, line), d)
        BY <3>10, <4>2, InSectionLoads
      <4>4. Only(m[S], {}) = Promise!NoKeys
        BY DEF Only, Promise!NoKeys
      <4>5. Promise!PartOf(d, m)
        BY <3>13, <4>2, <4>4
      <4>6. QED
        BY <2>2, <3>10, <3>14, <4>1, <4>3, <4>5, PartsMore
    <3>16. PICK h : h = m[S]
      OBVIOUS
    <3>17. LoadsIn(SavedEntries(file, e, TRUE), Promise!With(c, S, h), S) /\ PartsLoad(SavedEntries(file, e, TRUE), m)
      BY <3>3, <3>5, <3>10, <3>13, <3>14, <3>15, <3>16, EntriesSaved
    <3>18. Promise!With(c, S, h) = So(k)
      BY <2>2, <3>6, <3>16, OnlyMore
    <3>19. Loads(r, So(k)) /\ PartsLoad(r, m)
      BY <3>8, <3>14, <3>17, <3>18, InSectionLoads
    <3> HIDE DEF So
    <3>20. QED
      BY <1>2, <2>1, <3>19
  <2>5. QED
    BY <2>3, <2>4
<1> HIDE DEF P
<1>7. 0 .. Len(sec) \subseteq P
  BY <1>2, <1>5, <1>6, UpTo
<1>8. Loads(b[Len(sec)], So(Len(sec))) /\ PartsLoad(b[Len(sec)], m)
  BY <1>2, <1>7 DEF P
<1>9. So(Len(sec)) = m
  BY <1>2, <1>4, EveryName DEF Only
<1>10. QED
  BY <1>3, <1>8, <1>9

-----------------------------------------------------------------------------
(* The object beside the store.                                               *)

\* The values of the entries e, as Contents reads them.
ValuesOf(e) ==
  LET here == {x \in Range(e) : x.name # Empty}
  IN [K \in {UCase(x.name) : x \in here} |-> (CHOOSE x \in here : UCase(x.name) = K).value]

LEMMA EntriesHold ==
  ASSUME NEW e, Distinct(e) PROVE Holds(e, ValuesOf(e))
<1> DEFINE here == {x \in Range(e) : x.name # Empty}
           f == ValuesOf(e)
<1>1. here = {e[i] : i \in Live(e)}
  BY DEF Range, Live
<1>2. f = [K \in {UCase(x.name) : x \in here} |-> (CHOOSE x \in here : UCase(x.name) = K).value]
  BY DEF ValuesOf
<1> HIDE DEF here, f
<1>3. {UCase(x.name) : x \in here} = Names(e)
  BY <1>1 DEF Names
<1>4. f = [K \in Names(e) |-> f[K]]
  BY <1>2, <1>3
<1>5. ASSUME NEW i \in Live(e) PROVE f[UCase(e[i].name)] = e[i].value
  <2> DEFINE K == UCase(e[i].name)
             y == CHOOSE x \in here : UCase(x.name) = K
  <2>1. K \in Names(e) /\ e[i] \in here
    BY <1>1 DEF Names
  <2>2. f[K] = y.value
    BY <1>2, <1>3, <2>1
  <2>3. y \in here /\ UCase(y.name) = K
    BY <2>1
  <2> HIDE DEF y
  <2>4. PICK j \in Live(e) : y = e[j]
    BY <1>1, <2>3
  <2>5. i = j
    BY <2>3, <2>4 DEF Distinct
  <2>6. QED
    BY <2>2, <2>4, <2>5
<1>6. QED
  BY <1>4, <1>5 DEF Holds, f

\* Contents is the map that a sound object stores.
LEMMA ContentsAreStored ==
  ASSUME NEW o, Sound(o) PROVE Stores(o.sec, Contents(o))
<1> DEFINE named == {i \in DOMAIN o.sec : o.sec[i].name # Empty}
           at(S) == CHOOSE i \in named : UCase(o.sec[i].name) = S
           f == Contents(o)
<1>1. named = Live(o.sec) /\ {UCase(o.sec[i].name) : i \in named} = Names(o.sec)
  BY DEF Live, Names
<1>2. f = [S \in {UCase(o.sec[i].name) : i \in named} |-> ValuesOf(o.sec[at(S)].entry)]
  BY DEF Contents, ValuesOf
<1> HIDE DEF named, f
<1>3. f = [S \in Names(o.sec) |-> f[S]]
  BY <1>1, <1>2
<1>4. ASSUME NEW i \in Live(o.sec) PROVE Holds(o.sec[i].entry, f[UCase(o.sec[i].name)])
  <2>1. UCase(o.sec[i].name) \in Names(o.sec) /\ i \in named
    BY <1>1 DEF Names
  <2>2. at(UCase(o.sec[i].name)) \in named /\ UCase(o.sec[at(UCase(o.sec[i].name))].name) = UCase(o.sec[i].name)
    BY <2>1
  <2>3. at(UCase(o.sec[i].name)) = i
    <3> HIDE DEF at
    <3>1. QED
      BY <1>1, <2>1, <2>2 DEF Sound, Distinct
  <2>4. f[UCase(o.sec[i].name)] = ValuesOf(o.sec[i].entry)
    BY <1>1, <1>2, <2>1, <2>3
  <2>5. Distinct(o.sec[i].entry)
    BY DEF Sound, Live
  <2>6. QED
    BY <2>4, <2>5, EntriesHold
<1>5. QED
  BY <1>3, <1>4 DEF Stores, f

\* So an object keeps a map exactly if it is sound and has these contents.
LEMMA KeepsContents ==
  ASSUME NEW o, NEW f PROVE Keeps(o, f) <=> Sound(o) /\ Contents(o) = f
<1>1. ASSUME Keeps(o, f) PROVE Contents(o) = f
  <2>1. Stores(o.sec, f) /\ Stores(o.sec, Contents(o))
    BY <1>1, ContentsAreStored DEF Keeps
  <2>2. QED
    BY <2>1, OneMap
<1>2. QED
  BY <1>1, ContentsAreStored DEF Keeps

LEMMA LoadingSays ==
  ASSUME NEW q, NEW g, Loads(q, g), NEW o \in ObjectType PROVE Keeps(LoadFromString(o, q, TRUE), g)
<1>1. LoadFromString(o, q, TRUE) = Load(o, q).obj
  BY DEF LoadFromString, Load, Start
<1>2. QED
  BY <1>1 DEF Loads

\* The object is the store in memory, and the file says what is saved.
FileInv == IF saving THEN saved = {} ELSE \E g : saved = {g} /\ Loads(disk, g)
IniInv == Keeps(obj, map) /\ answer = promised /\ FileInv

\* What every step must show: a restart in the middle of a save finds part of what the object kept.
Kept == IniInv' /\ (saved = {} => map' = map \/ Promise!PartOf(map', map))

LEMMA IniStart == Init => IniInv
<1> SUFFICES ASSUME Init PROVE IniInv
  OBVIOUS
<1>1. NewObject \in ObjectType
  <2>1. <<>> \in Seq(SectionType)
    OBVIOUS
  <2>2. QED
    BY <2>1 DEF NewObject, ObjectType
<1>2. Keeps(NewObject, Promise!NoSections)
  BY <1>1, NewKeeps
<1>3. FileInv
  BY NoLinesLoad DEF Init, Promise!Init, FileInv
<1>4. QED
  BY <1>2, <1>3 DEF Init, IniInv, Promise!Init

\* The calls leave the file alone.
LEMMA CallKept ==
  ASSUME IniInv, ~saving, UNCHANGED <<disk, saving, saved>>, Keeps(obj', map'), answer' = promised' PROVE Kept
<1>1. PICK g : saved = {g} /\ Loads(disk, g)
  BY DEF IniInv, FileInv
<1>2. saved # {}
  BY <1>1
<1>3. FileInv'
  BY <1>1 DEF FileInv
<1>4. QED
  BY <1>2, <1>3 DEF Kept, IniInv

LEMMA SectionCallKept == ASSUME NamesAssumption, IniInv, SectionCall PROVE Kept
<1>1. Keeps(obj, map) /\ answer = promised
  BY DEF IniInv
<1>2. PICK s \in SectionNames :
        \/ Returns(AddSection(obj, s)[1]) /\ Promise!AddSection(UCase(s))
        \/ Returns(DeleteSection(obj, s)) /\ Promise!DropSection(UCase(s))
        \/ Returns(MemDeleteSection(obj, s)) /\ Promise!DropSection(UCase(s))
  BY DEF SectionCall
<1>3. answer' = answer
  BY DEF SectionCall
<1>4. ~saving /\ UNCHANGED <<disk, saving, saved>> /\ promised' = promised
  BY <1>2 DEF Returns, Promise!AddSection, Promise!DropSection
<1>5. Keeps(obj', map')
  <2>1. CASE Returns(AddSection(obj, s)[1]) /\ Promise!AddSection(UCase(s))
    BY <1>1, <2>1, AddSectionKeeps DEF Returns, Promise!AddSection
  <2>2. CASE Returns(DeleteSection(obj, s)) /\ Promise!DropSection(UCase(s))
    BY <1>1, <2>2, DeleteSectionKeeps DEF Returns, Promise!DropSection
  <2>3. CASE Returns(MemDeleteSection(obj, s)) /\ Promise!DropSection(UCase(s))
    BY <1>1, <2>3, MemDeleteSectionKeeps DEF Returns, Promise!DropSection
  <2>4. QED
    BY <1>2, <2>1, <2>2, <2>3
<1>6. QED
  BY <1>1, <1>3, <1>4, <1>5, CallKept

LEMMA EntryCallKept == ASSUME NamesAssumption, IniInv, EntryCall PROVE Kept
<1>1. Keeps(obj, map) /\ answer = promised
  BY DEF IniInv
<1>2. PICK s \in SectionNames, n \in EntryNames :
        \/ \E v \in Values : Returns(WriteEntry(obj, s, n, v)) /\ Promise!Put(UCase(s), UCase(n), v)
        \/ \E v \in Values : Returns(InitEntry(obj, s, n, v)) /\ Promise!PutNew(UCase(s), UCase(n), v)
        \/ Returns(DeleteEntry(obj, s, n)) /\ Promise!Drop(UCase(s), UCase(n))
        \/ Returns(MemDeleteEntry(obj, s, n)) /\ Promise!Drop(UCase(s), UCase(n))
  BY DEF EntryCall
<1>3. answer' = answer
  BY DEF EntryCall
<1>4. ~saving /\ UNCHANGED <<disk, saving, saved>> /\ promised' = promised
  BY <1>2 DEF Returns, Promise!Put, Promise!PutNew, Promise!Drop, Promise!vars
<1>5. Keeps(obj', map')
  <2>1. ASSUME NEW v \in Values, Returns(WriteEntry(obj, s, n, v)), Promise!Put(UCase(s), UCase(n), v)
        PROVE  Keeps(obj', map')
    <3>1. obj' = WriteEntry(obj, s, n, v) /\ map' = Put(map, UCase(s), UCase(n), v)
      BY <2>1 DEF Returns, Promise!Put, Put
    <3>2. QED
      BY <1>1, <3>1, WriteEntryKeeps
  <2>2. ASSUME NEW v \in Values, Returns(InitEntry(obj, s, n, v)), Promise!PutNew(UCase(s), UCase(n), v)
        PROVE  Keeps(obj', map')
    <3>1. /\ obj' = InitEntry(obj, s, n, v)
          /\ map' = IF UCase(s) \in DOMAIN map /\ UCase(n) \in DOMAIN map[UCase(s)] THEN map
                    ELSE Put(map, UCase(s), UCase(n), v)
      BY <2>2 DEF Returns, Promise!PutNew, Promise!Put, Promise!vars, Put
    <3>2. QED
      BY <1>1, <3>1, InitEntryKeeps
  <2>3. ASSUME Returns(DeleteEntry(obj, s, n)), Promise!Drop(UCase(s), UCase(n)) PROVE Keeps(obj', map')
    <3>1. obj' = DeleteEntry(obj, s, n) /\ map' = Dropped(map, UCase(s), UCase(n))
      BY <2>3 DEF Returns, Promise!Drop, Dropped
    <3>2. QED
      BY <1>1, <3>1, DeleteEntryKeeps
  <2>4. ASSUME Returns(MemDeleteEntry(obj, s, n)), Promise!Drop(UCase(s), UCase(n)) PROVE Keeps(obj', map')
    <3>1. obj' = MemDeleteEntry(obj, s, n) /\ map' = Dropped(map, UCase(s), UCase(n))
      BY <2>4 DEF Returns, Promise!Drop, Dropped
    <3>2. QED
      BY <1>1, <3>1, MemDeleteEntryKeeps
  <2>5. QED
    BY <1>2, <2>1, <2>2, <2>3, <2>4
<1>6. QED
  BY <1>1, <1>3, <1>4, <1>5, CallKept

LEMMA GetKept == ASSUME NamesAssumption, IniInv, Get PROVE Kept
<1>1. Keeps(obj, map) /\ answer = promised
  BY DEF IniInv
<1>2. PICK s \in SectionNames, n \in EntryNames :
        Returns(GetEntry(obj, s, n)[1]) /\ answer' = GetEntry(obj, s, n)[2] /\ Promise!Get(UCase(s), UCase(n))
  BY DEF Get
<1>3. ~saving /\ UNCHANGED <<disk, saving, saved>> /\ map' = map /\ obj' = GetEntry(obj, s, n)[1]
  BY <1>2 DEF Returns, Promise!Get
<1>4. /\ Keeps(GetEntry(obj, s, n)[1], map)
      /\ GetEntry(obj, s, n)[2] =
           IF UCase(s) \in DOMAIN map /\ UCase(n) \in DOMAIN map[UCase(s)] THEN map[UCase(s)][UCase(n)] ELSE Empty
  BY <1>1, GetEntryTells
<1>5. Keeps(obj', map') /\ answer' = promised'
  BY <1>2, <1>3, <1>4 DEF Promise!Get
<1>6. QED
  BY <1>3, <1>5, CallKept

LEMMA EnumerateKept == ASSUME NamesAssumption, IniInv, Enumerate PROVE Kept
<1>1. Keeps(obj, map) /\ answer = promised
  BY DEF IniInv
<1>2. PICK s \in SectionNames : Returns(EnumEntries(obj, s)[1]) /\ UNCHANGED <<map, saved, promised, answer>>
  BY DEF Enumerate
<1>3. ~saving /\ UNCHANGED <<disk, saving, saved>> /\ map' = map /\ answer' = promised' /\ obj' = FindSection(obj, s)[1]
  BY <1>1, <1>2 DEF Returns, EnumEntries
<1>4. Keeps(FindSection(obj, s)[1], map)
  <2>1. Sound(FindSection(obj, s)[1]) /\ FindSection(obj, s)[1].sec = obj.sec
    BY <1>1, FindsSection DEF Keeps
  <2>2. QED
    BY <1>1, <2>1 DEF Keeps
<1>5. QED
  BY <1>3, <1>4, CallKept

LEMMA FileKept == ASSUME NamesAssumption, IniInv, File PROVE Kept
<1>1. Keeps(obj, map) /\ answer = promised /\ FileInv /\ obj \in ObjectType
  BY DEF IniInv, Keeps, Sound
<1>2. answer' = answer
  BY DEF File
<1>3. NewObject \in ObjectType
  <2>1. <<>> \in Seq(SectionType)
    OBVIOUS
  <2>2. QED
    BY <2>1 DEF NewObject, ObjectType
<1>4. CASE SaveCreates /\ Promise!SaveBegins
  <2>1. ~saving /\ saving' /\ saved' = {} /\ UNCHANGED <<obj, map, promised>>
    BY <1>4 DEF SaveCreates, Promise!SaveBegins
  <2>2. Keeps(obj', map')
    BY <1>1, <2>1
  <2>3. QED
    BY <1>1, <1>2, <2>1, <2>2 DEF Kept, IniInv, FileInv
<1>5. CASE SaveWrites(TRUE) /\ Promise!SaveEnds
  <2>1. ~saving' /\ saved' = {map} /\ disk' = SaveToString(obj, TRUE) /\ UNCHANGED <<obj, map, promised>>
    BY <1>5 DEF SaveWrites, Promise!SaveEnds
  <2>2. Keeps(obj', map') /\ Loads(disk', map)
    BY <1>1, <2>1, SaysAll
  <2>3. FileInv'
    BY <2>1, <2>2 DEF FileInv
  <2>4. QED
    BY <1>1, <1>2, <2>1, <2>2, <2>3 DEF Kept, IniInv
<1>6. CASE Open(TRUE) /\ Promise!Reload
  <2>1. /\ ~saving /\ obj' = LoadFromString(obj, disk, TRUE) /\ UNCHANGED <<disk, saving, saved>>
        /\ map' \in saved /\ promised' = promised
    BY <1>6 DEF Open, Promise!Reload
  <2>2. PICK g : saved = {g} /\ Loads(disk, g)
    BY <1>1, <2>1 DEF FileInv
  <2>3. map' = g
    BY <2>1, <2>2
  <2>4. Keeps(obj', map')
    BY <1>1, <2>1, <2>2, <2>3, LoadingSays
  <2>5. QED
    BY <1>1, <1>2, <2>1, <2>4, CallKept
<1>7. CASE New /\ Promise!New
  <2>1. /\ ~saving /\ obj' = ResetCache(obj) /\ UNCHANGED <<disk, saving, saved>>
        /\ map' = Promise!NoSections /\ promised' = promised
    BY <1>7 DEF New, Promise!New
  <2>2. Keeps(obj', map')
    BY <1>1, <2>1, NewKeeps
  <2>3. QED
    BY <1>1, <1>2, <2>1, <2>2, CallKept
<1>8. CASE saving /\ Crash(TRUE) /\ Promise!RestartInSave(Contents(obj'))
  <2>1. PICK k \in 0 .. Len(SaveToString(obj, TRUE)) : disk' = SubSeq(SaveToString(obj, TRUE), 1, k)
    BY <1>8 DEF Crash
  <2>2. /\ ~saving' /\ obj' = LoadFromString(NewObject, disk', TRUE) /\ map' = Contents(obj') /\ saved' = {map'}
        /\ promised' = promised
    BY <1>8 DEF Crash, Promise!RestartInSave
  <2>3. PICK g : Promise!PartOf(g, map) /\ Loads(disk', g)
    BY <1>1, <2>1, SaysAll DEF PartsLoad
  <2>4. Keeps(obj', g)
    <3>1. PICK q : q = disk'
      OBVIOUS
    <3>2. Keeps(LoadFromString(NewObject, q, TRUE), g)
      BY <1>3, <2>3, <3>1, LoadingSays
    <3>3. QED
      BY <2>2, <3>1, <3>2
  <2>5. map' = g
    <3>1. PICK o : o = obj'
      OBVIOUS
    <3>2. Contents(o) = g
      BY <2>4, <3>1, KeepsContents
    <3>3. QED
      BY <2>2, <3>1, <3>2
  <2>6. FileInv' /\ Keeps(obj', map') /\ Promise!PartOf(map', map)
    BY <2>2, <2>3, <2>4, <2>5 DEF FileInv
  <2>7. QED
    BY <1>1, <1>2, <2>2, <2>6 DEF Kept, IniInv
<1>9. CASE ~saving /\ Crash(TRUE) /\ Promise!Reload
  <2>1. /\ ~saving' /\ disk' = disk /\ obj' = LoadFromString(NewObject, disk', TRUE) /\ saved' = saved
        /\ map' \in saved /\ promised' = promised
    BY <1>9 DEF Crash, Promise!Reload
  <2>2. PICK g : saved = {g} /\ Loads(disk, g)
    BY <1>1, <1>9 DEF FileInv
  <2>3. map' = g
    BY <2>1, <2>2
  <2>4. Keeps(LoadFromString(NewObject, disk, TRUE), g)
    BY <1>3, <2>2, LoadingSays
  <2>5. Keeps(obj', map')
    BY <2>1, <2>3, <2>4
  <2>6. FileInv' /\ saved # {}
    BY <2>1, <2>2 DEF FileInv
  <2>7. QED
    BY <1>1, <1>2, <2>1, <2>5, <2>6 DEF Kept, IniInv
<1>10. QED
  BY <1>4, <1>5, <1>6, <1>7, <1>8, <1>9 DEF File

LEMMA IniStep == ASSUME NamesAssumption, IniInv, [Next]_iniVars PROVE Kept
<1>1. CASE UNCHANGED iniVars
  <2>1. IniInv' /\ map' = map
    BY <1>1 DEF iniVars, IniInv, FileInv
  <2>2. QED
    BY <2>1 DEF Kept
<1>2. QED
  BY <1>1, SectionCallKept, EntryCallKept, GetKept, EnumerateKept, FileKept DEF Next

\* What is kept is what is enumerated: every name once.
LEMMA Enumerated == ASSUME NamesAssumption, Keeps(obj, map) PROVE EnumTells
<1>1. Sound(obj) /\ Stores(obj.sec, map)
  BY DEF Keeps
<1>2. obj.sec \in Seq(SectionType) /\ DOMAIN obj.sec = 1 .. Len(obj.sec) /\ 0 \notin DOMAIN obj.sec /\ Distinct(obj.sec)
  BY <1>1, FromOne DEF Sound
<1>3. Lists(EnumSections(obj), DOMAIN map)
  <2>1. DOMAIN map = Names(obj.sec)
    BY <1>1 DEF Stores
  <2>2. \A x \in SectionType : x.name \in SectionNames \cup {Empty}
    BY DEF SectionType
  <2>3. Lists(Named(obj.sec), Names(obj.sec))
    BY <1>2, <2>2, NamedLists
  <2>4. QED
    BY <2>1, <2>3 DEF EnumSections
<1>4. ASSUME NEW name \in SectionNames
      PROVE  Lists(EnumEntries(obj, name)[2], IF UCase(name) \in DOMAIN map THEN DOMAIN map[UCase(name)] ELSE {})
  <2>1. PICK o, s : o = FindSection(obj, name)[1] /\ s = FindSection(obj, name)[2]
    OBVIOUS
  <2>2. Sound(o) /\ o.sec = obj.sec /\ FoundIn(o.sec, name, s)
    BY <1>1, <2>1, FindsSection
  <2>3. PICK e : e = Entries(o, s)
    OBVIOUS
  <2>4. EnumEntries(obj, name)[2] = Named(e)
    BY <2>1, <2>3 DEF EnumEntries
  <2>5. /\ e \in Seq(EntryType) /\ Distinct(e)
        /\ Names(e) = IF UCase(name) \in DOMAIN map THEN DOMAIN map[UCase(name)] ELSE {}
    <3>1. CASE s = 0
      <4>1. UCase(name) \notin DOMAIN map
        BY <1>1, <1>2, <2>2, <3>1, SearchTells
      <4>2. e = <<>>
        BY <2>3, <3>1 DEF Entries
      <4>3. QED
        BY <4>1, <4>2, NoEntries
    <3>2. CASE s # 0
      <4>1. s \in Live(o.sec) /\ UCase(name) \in DOMAIN map /\ Holds(o.sec[s].entry, map[UCase(name)])
        BY <1>1, <1>2, <2>2, <3>2, SearchTells
      <4>2. e = o.sec[s].entry /\ s \in DOMAIN o.sec
        BY <2>3, <3>2, <4>1 DEF Entries, Live
      <4>3. o.sec[s] \in SectionType
        BY <1>2, <2>2, <4>2, ElementOfSeq
      <4>4. QED
        BY <2>2, <4>1, <4>2, <4>3 DEF SectionType, Sound, Holds
    <3>3. QED
      BY <3>1, <3>2
  <2>6. \A x \in EntryType : x.name \in EntryNames \cup {Empty}
    BY DEF EntryType
  <2>7. Lists(Named(e), Names(e))
    BY <2>5, <2>6, NamedLists
  <2>8. QED
    BY <2>4, <2>5, <2>7
<1>5. QED
  BY <1>3, <1>4 DEF EnumTells

\* And the file has the last save, unless it is just being written.
LEMMA FileHas ==
  ASSUME FileInv
  PROVE  saved = IF saving THEN {} ELSE {Contents(LoadFromString(NewObject, disk, TRUE))}
<1>1. CASE saving
  BY <1>1 DEF FileInv
<1>2. CASE ~saving
  <2>1. PICK g : saved = {g} /\ Loads(disk, g)
    BY <1>2 DEF FileInv
  <2>2. NewObject \in ObjectType
    <3>1. <<>> \in Seq(SectionType)
      OBVIOUS
    <3>2. QED
      BY <3>1 DEF NewObject, ObjectType
  <2>3. PICK o : o = LoadFromString(NewObject, disk, TRUE)
    OBVIOUS
  <2>4. Contents(o) = g
    BY <2>1, <2>2, <2>3, LoadingSays, KeepsContents
  <2>5. QED
    BY <1>2, <2>1, <2>3, <2>4
<1>3. QED
  BY <1>1, <1>2

\* Whatever calls are made, saved, read back and interrupted, for any names, values and number of
\* calls: the object has the sections, entries and values of the store, every GetEntry returned the
\* value stored last, the enumerations list each name once, the file has the last save, and a restart
\* in the middle of a save loses entries but never makes one up or changes its value.
THEOREM ObjectIsStore ==
  ASSUME NamesAssumption PROVE Spec => KeepsItsPromise
<1> DEFINE Now == /\ Sound(obj) /\ Contents(obj) = map
                  /\ answer = promised /\ EnumTells
                  /\ saved = IF saving THEN {} ELSE {Contents(LoadFromString(NewObject, disk, TRUE))}
           Lost == saved = {} => map' = map \/ Promise!PartOf(map', map)
<1>1. IniInv /\ [Next]_iniVars => IniInv' /\ Lost
  BY IniStep DEF Kept
<1>2. IniInv => Now
  BY Enumerated, FileHas, KeepsContents DEF IniInv
<1> HIDE DEF Now, Lost
<1>3. Spec => []Now /\ [][Lost]_iniVars
  BY <1>1, <1>2, IniStart, PTL DEF Spec
<1>4. QED
  BY <1>3, PTL DEF KeepsItsPromise, Now, Lost

-----------------------------------------------------------------------------
(* Refinement.  By what they say, the object and the file alone implement the *)
(* store: the variables map, saved and promised only helped to show it.       *)

InObject == Contents(obj)
InFile == IF saving THEN {} ELSE {Contents(LoadFromString(NewObject, disk, TRUE))}

Stored == INSTANCE Store WITH Sections <- {UCase(s) : s \in SectionNames}, Keys <- {UCase(n) : n \in EntryNames},
                              Data <- Values, None <- Empty, map <- InObject, saved <- InFile

\* Only values are stored.
Valued(f) == \A S \in DOMAIN f : \A K \in DOMAIN f[S] : f[S][K] \in Values
ValuedInv == Valued(map) /\ \A g \in saved : Valued(g)

LEMMA PutValued ==
  ASSUME NEW f, Valued(f), NEW S, NEW K, NEW v \in Values PROVE Valued(Put(f, S, K, v))
<1>1. CASE S \notin DOMAIN f
  BY <1>1 DEF Put
<1>2. CASE S \in DOMAIN f
  <2>1. PICK h : h = Promise!With(f[S], K, v)
    OBVIOUS
  <2>2. DOMAIN h = DOMAIN f[S] \cup {K} /\ \A L \in DOMAIN h : h[L] = IF L = K THEN v ELSE f[S][L]
    BY <2>1 DEF Promise!With
  <2>3. PICK g : g = [f EXCEPT ![S] = h]
    OBVIOUS
  <2>4. g = Put(f, S, K, v)
    BY <1>2, <2>1, <2>3 DEF Put
  <2>5. DOMAIN g = DOMAIN f /\ g[S] = h /\ \A T \in DOMAIN f \ {S} : g[T] = f[T]
    BY <1>2, <2>3
  <2>6. Valued(g)
    BY <1>2, <2>2, <2>5 DEF Valued
  <2>7. QED
    BY <2>4, <2>6
<1>3. QED
  BY <1>1, <1>2

LEMMA RestValued ==
  ASSUME NEW f, Valued(f)
  PROVE  /\ \A S : Valued(Promise!With(f, S, Promise!NoKeys)) /\ Valued(Promise!Without(f, S))
         /\ \A S, K : Valued(Dropped(f, S, K))
         /\ \A g : Promise!PartOf(g, f) => Valued(g)
<1>1. ASSUME NEW S PROVE Valued(Promise!With(f, S, Promise!NoKeys))
  <2>1. PICK h : h = Promise!NoKeys
    OBVIOUS
  <2>2. DOMAIN h = {}
    BY <2>1 DEF Promise!NoKeys
  <2>3. PICK g : g = Promise!With(f, S, h)
    OBVIOUS
  <2>4. DOMAIN g = DOMAIN f \cup {S} /\ \A T \in DOMAIN g : g[T] = IF T = S THEN h ELSE f[T]
    BY <2>3 DEF Promise!With
  <2>5. Valued(g)
    BY <2>2, <2>4 DEF Valued
  <2>6. QED
    BY <2>1, <2>3, <2>5
<1>2. ASSUME NEW S PROVE Valued(Promise!Without(f, S))
  BY DEF Valued, Promise!Without
<1>3. ASSUME NEW S, NEW K PROVE Valued(Dropped(f, S, K))
  <2>1. PICK h : h = Promise!Without(f[S], K)
    OBVIOUS
  <2>2. DOMAIN h \subseteq DOMAIN f[S] /\ \A L \in DOMAIN h : h[L] = f[S][L]
    BY <2>1 DEF Promise!Without
  <2>3. PICK g : g = Dropped(f, S, K)
    OBVIOUS
  <2>4. DOMAIN g = DOMAIN f /\ \A T \in DOMAIN f : g[T] = IF T = S THEN h ELSE f[T]
    BY <2>1, <2>3 DEF Dropped
  <2>5. Valued(g)
    BY <2>2, <2>4 DEF Valued
  <2>6. QED
    BY <2>3, <2>5
<1>4. ASSUME NEW g, Promise!PartOf(g, f) PROVE Valued(g)
  BY <1>4 DEF Valued, Promise!PartOf
<1>5. QED
  BY <1>1, <1>2, <1>3, <1>4

\* A restart in the middle of a save finds one of the parts that the store allows.
LEMMA OneOfTheParts ==
  ASSUME NEW o, NEW g, Keeps(o, g), Valued(g), NEW m, Promise!PartOf(g, m)
  PROVE  g \in Promise!PartsOf(m)
<1>1. PICK sec : sec = o.sec
  OBVIOUS
<1>2. Stores(sec, g) /\ sec \in Seq(SectionType) /\ DOMAIN sec = 1 .. Len(sec)
  BY <1>1, FromOne DEF Keeps
<1> DEFINE Keys == {UCase(n) : n \in EntryNames}
           Sections == {UCase(s) : s \in SectionNames}
           Lows == UNION {[B -> Values] : B \in SUBSET Keys}
<1>3. Names(sec) \in SUBSET Sections
  <2>1. \A i \in Live(sec) : sec[i].name \in SectionNames
    <3>1. \A i \in Live(sec) : sec[i] \in SectionType /\ sec[i].name # Empty
      BY <1>2, ElementOfSeq DEF Live
    <3>2. QED
      BY <3>1 DEF SectionType
  <2>2. QED
    BY <2>1 DEF Names
<1>4. ASSUME NEW S \in Names(sec) PROVE g[S] \in Lows
  <2>1. PICK i \in Live(sec) : S = UCase(sec[i].name)
    BY DEF Names
  <2>2. PICK e : e = sec[i].entry
    OBVIOUS
  <2>3. Holds(e, g[S]) /\ i \in 1 .. Len(sec)
    BY <1>2, <2>1, <2>2 DEF Stores, Live
  <2>4. e \in Seq(EntryType)
    <3>1. sec[i] \in SectionType
      BY <1>2, <2>3, ElementOfSeq
    <3>2. QED
      BY <2>2, <3>1 DEF SectionType
  <2>5. Names(e) \in SUBSET Keys
    <3>1. \A j \in Live(e) : e[j] \in EntryType /\ e[j].name # Empty
      BY <2>4, ElementOfSeq, LenProperties DEF Live
    <3>2. \A j \in Live(e) : e[j].name \in EntryNames
      BY <3>1 DEF EntryType
    <3>3. QED
      BY <3>2 DEF Names
  <2>6. g[S] = [K \in Names(e) |-> g[S][K]] /\ S \in DOMAIN g
    BY <1>2, <2>3 DEF Holds, Stores
  <2>7. DOMAIN g[S] = Names(e)
    BY <2>6
  <2>8. \A K \in Names(e) : g[S][K] \in Values
    BY <2>6, <2>7 DEF Valued
  <2>9. g[S] \in [Names(e) -> Values]
    BY <2>6, <2>8
  <2>10. QED
    BY <2>5, <2>9
<1> HIDE DEF Lows
<1>5. g = [S \in Names(sec) |-> g[S]]
  BY <1>2 DEF Stores
<1>6. g \in [Names(sec) -> Lows]
  BY <1>4, <1>5
<1>7. g \in UNION {[A -> Lows] : A \in SUBSET Sections}
  <2> HIDE DEF Sections
  <2>1. QED
    BY <1>3, <1>6
<1>8. Promise!PartsOf(m) = {c \in UNION {[A -> Lows] : A \in SUBSET Sections} : Promise!PartOf(c, m)}
  BY DEF Promise!PartsOf, Lows
<1>9. QED
  BY <1>7, <1>8

\* Every call is a step of the store, and so is a restart.
LEMMA StoreSteps ==
  ASSUME NamesAssumption, IniInv, ValuedInv, [Next]_iniVars PROVE [Promise!Next]_Promise!vars
<1> DEFINE Sections == {UCase(s) : s \in SectionNames}
           Keys == {UCase(n) : n \in EntryNames}
<1>1. Kept
  BY IniStep
<1>2. CASE UNCHANGED iniVars \/ Enumerate
  BY <1>2 DEF iniVars, Enumerate, Promise!vars
<1>3. CASE SectionCall
  <2>1. PICK s \in SectionNames : Promise!AddSection(UCase(s)) \/ Promise!DropSection(UCase(s))
    BY <1>3 DEF SectionCall
  <2>2. UCase(s) \in Sections
    OBVIOUS
  <2>3. QED
    BY <2>1, <2>2 DEF Promise!Next
<1>4. ASSUME NEW s \in SectionNames, NEW n \in EntryNames,
             \/ Promise!Drop(UCase(s), UCase(n)) \/ Promise!Get(UCase(s), UCase(n))
             \/ \E v \in Values : Promise!Put(UCase(s), UCase(n), v) \/ Promise!PutNew(UCase(s), UCase(n), v)
      PROVE  Promise!Next
  <2>1. UCase(s) \in Sections /\ UCase(n) \in Keys
    OBVIOUS
  <2>2. QED
    BY <1>4, <2>1 DEF Promise!Next
<1>5. CASE EntryCall
  BY <1>4, <1>5 DEF EntryCall
<1>6. CASE Get
  BY <1>4, <1>6 DEF Get
<1>7. CASE File
  <2>1. CASE saving /\ Crash(TRUE) /\ Promise!RestartInSave(Contents(obj'))
    <3>1. PICK rest : rest = map'
      OBVIOUS
    <3>2. map' = Contents(obj') /\ saved = {}
      BY <2>1 DEF Promise!RestartInSave
    <3>3. Promise!RestartInSave(rest)
      BY <2>1, <3>1, <3>2 DEF Promise!RestartInSave
    <3>4. PICK o : o = obj'
      OBVIOUS
    <3>5. Keeps(o, rest)
      BY <1>1, <3>1, <3>4 DEF Kept, IniInv
    <3>6. CASE Promise!PartOf(rest, map)
      <4>1. Valued(rest)
        BY <3>6, RestValued DEF ValuedInv
      <4>2. rest \in Promise!PartsOf(map)
        BY <3>5, <3>6, <4>1, OneOfTheParts
      <4>3. QED
        BY <3>3, <4>2 DEF Promise!Next
    <3>7. CASE rest = map
      <4>1. Promise!PartOf(map, map)
        BY DEF Promise!PartOf
      <4>2. rest \in Promise!PartsOf(map)
        BY <3>5, <3>7, <4>1, OneOfTheParts DEF ValuedInv
      <4>3. QED
        BY <3>3, <4>2 DEF Promise!Next
    <3>8. rest = map \/ Promise!PartOf(rest, map)
      BY <1>1, <3>1, <3>2 DEF Kept
    <3>9. QED
      BY <3>6, <3>7, <3>8
  <2>2. CASE Promise!SaveBegins \/ Promise!SaveEnds \/ Promise!Reload \/ Promise!New
    BY <2>2 DEF Promise!Next
  <2>3. QED
    BY <1>7, <2>1, <2>2 DEF File
<1>8. QED
  BY <1>2, <1>3, <1>5, <1>6, <1>7 DEF Next

LEMMA ValuedStep ==
  ASSUME ValuedInv, [Promise!Next]_Promise!vars PROVE ValuedInv'
<1>1. Valued(map) /\ \A g \in saved : Valued(g)
  BY DEF ValuedInv
<1>2. ASSUME UNCHANGED saved, Valued(map') PROVE ValuedInv'
  BY <1>1, <1>2 DEF ValuedInv
<1>3. CASE UNCHANGED Promise!vars
  BY <1>1, <1>2, <1>3 DEF Promise!vars
<1>4. ASSUME NEW S, NEW K, NEW v \in Values, Promise!Put(S, K, v) PROVE ValuedInv'
  <2>1. map' = Put(map, S, K, v) /\ saved' = saved
    BY <1>4 DEF Promise!Put, Put
  <2>2. QED
    BY <1>1, <1>2, <2>1, PutValued
<1>5. ASSUME NEW S, NEW K, Promise!Drop(S, K) PROVE ValuedInv'
  <2>1. map' = Dropped(map, S, K) /\ saved' = saved
    BY <1>5 DEF Promise!Drop, Dropped
  <2>2. QED
    BY <1>1, <1>2, <2>1, RestValued
<1>6. ASSUME NEW S, Promise!AddSection(S) \/ Promise!DropSection(S) PROVE ValuedInv'
  BY <1>1, <1>2, <1>6, RestValued DEF Promise!AddSection, Promise!DropSection
<1>7. ASSUME NEW S, NEW K, Promise!Get(S, K) PROVE ValuedInv'
  BY <1>1, <1>2, <1>7 DEF Promise!Get
<1>8. CASE Promise!SaveBegins \/ Promise!SaveEnds
  <2>1. map' = map /\ saved' \subseteq {map}
    BY <1>8 DEF Promise!SaveBegins, Promise!SaveEnds
  <2>2. QED
    BY <1>1, <2>1 DEF ValuedInv
<1>9. CASE Promise!Reload
  BY <1>1, <1>2, <1>9 DEF Promise!Reload
<1>10. CASE Promise!New
  <2>1. Valued(Promise!NoSections)
    BY DEF Valued, Promise!NoSections
  <2>2. QED
    BY <1>2, <1>10, <2>1 DEF Promise!New
<1>11. ASSUME NEW rest \in Promise!PartsOf(map), Promise!RestartInSave(rest) PROVE ValuedInv'
  <2>1. Promise!PartOf(rest, map)
    BY DEF Promise!PartsOf
  <2>2. Valued(rest)
    BY <1>1, <2>1, RestValued
  <2>3. map' = rest /\ saved' = {rest}
    BY <1>11 DEF Promise!RestartInSave
  <2>4. QED
    BY <2>2, <2>3 DEF ValuedInv
<1>12. ASSUME NEW S, NEW K, NEW v \in Values, Promise!PutNew(S, K, v) PROVE ValuedInv'
  BY <1>3, <1>4, <1>12 DEF Promise!PutNew
<1>13. QED
  BY <1>3, <1>4, <1>5, <1>6, <1>7, <1>8, <1>9, <1>10, <1>11, <1>12 DEF Promise!Next

\* The two agree on what there is, so that a step of the one is a step of the other.
Agree == InObject = map /\ InFile = saved /\ answer = promised

LEMMA SameSteps ==
  ASSUME Agree, Agree', [Promise!Next]_Promise!vars PROVE [Stored!Next]_Stored!vars
<1> DEFINE Sections == {UCase(s) : s \in SectionNames}
           Keys == {UCase(n) : n \in EntryNames}
<1>1. InObject = map /\ InFile = saved /\ answer = promised /\ InObject' = map' /\ InFile' = saved' /\ answer' = promised'
  BY DEF Agree
<1> HIDE DEF InObject, InFile
<1>2. \A f, g : Stored!PartOf(f, g) <=> Promise!PartOf(f, g)
  BY DEF Stored!PartOf, Promise!PartOf
<1>3. Stored!PartsOf(InObject) = Promise!PartsOf(map)
  BY <1>1 DEF Stored!PartsOf, Promise!PartsOf, Stored!PartOf, Promise!PartOf
<1>4. CASE UNCHANGED Promise!vars
  BY <1>1, <1>4 DEF Promise!vars, Stored!vars
<1>5. ASSUME NEW S \in Sections, Promise!AddSection(S) PROVE Stored!AddSection(S)
  BY <1>1, <1>5 DEF Promise!AddSection, Stored!AddSection, Promise!With, Stored!With, Promise!NoKeys, Stored!NoKeys
<1>6. ASSUME NEW S \in Sections, Promise!DropSection(S) PROVE Stored!DropSection(S)
  BY <1>1, <1>6 DEF Promise!DropSection, Stored!DropSection, Promise!Without, Stored!Without
<1>7. ASSUME NEW S \in Sections, NEW K \in Keys, Promise!Drop(S, K) PROVE Stored!Drop(S, K)
  BY <1>1, <1>7 DEF Promise!Drop, Stored!Drop, Promise!Without, Stored!Without
<1>8. ASSUME NEW S \in Sections, NEW K \in Keys, Promise!Get(S, K) PROVE Stored!Get(S, K)
  BY <1>1, <1>8 DEF Promise!Get, Stored!Get
<1>9. ASSUME NEW S \in Sections, NEW K \in Keys, NEW v \in Values, Promise!Put(S, K, v) PROVE Stored!Put(S, K, v)
  BY <1>1, <1>9 DEF Promise!Put, Stored!Put, Promise!With, Stored!With
<1>10. ASSUME NEW S \in Sections, NEW K \in Keys, NEW v \in Values, Promise!PutNew(S, K, v) PROVE Stored!PutNew(S, K, v)
  BY <1>1, <1>9, <1>10 DEF Promise!PutNew, Stored!PutNew, Promise!vars, Stored!vars
<1>11. CASE Promise!SaveBegins \/ Promise!SaveEnds \/ Promise!Reload \/ Promise!New
  <2>1. Stored!SaveBegins \/ Stored!SaveEnds \/ Stored!Reload \/ Stored!New
    BY <1>1, <1>11 DEF Promise!SaveBegins, Promise!SaveEnds, Promise!Reload, Promise!New, Promise!NoSections,
         Stored!SaveBegins, Stored!SaveEnds, Stored!Reload, Stored!New, Stored!NoSections
  <2>2. QED
    BY <2>1 DEF Stored!Next
<1>12. ASSUME NEW rest \in Promise!PartsOf(map), Promise!RestartInSave(rest) PROVE Stored!Next
  <2>1. Stored!RestartInSave(rest) /\ rest \in Stored!PartsOf(InObject)
    BY <1>1, <1>3, <1>12 DEF Promise!RestartInSave, Stored!RestartInSave
  <2>2. QED
    BY <2>1 DEF Stored!Next
<1>13. ASSUME NEW S \in Sections,
              \/ Promise!AddSection(S) \/ Promise!DropSection(S)
              \/ \E K \in Keys : Promise!Drop(S, K) \/ Promise!Get(S, K) \/ \E v \in Values : Promise!Put(S, K, v) \/ Promise!PutNew(S, K, v)
       PROVE  Stored!Next
  <2>1. \/ Stored!AddSection(S) \/ Stored!DropSection(S)
        \/ \E K \in Keys : Stored!Drop(S, K) \/ Stored!Get(S, K) \/ \E v \in Values : Stored!Put(S, K, v) \/ Stored!PutNew(S, K, v)
    BY <1>5, <1>6, <1>7, <1>8, <1>9, <1>10, <1>13
  <2>2. QED
    BY <2>1 DEF Stored!Next
<1>14. CASE Promise!Next
  BY <1>11, <1>12, <1>13, <1>14 DEF Promise!Next
<1>15. QED
  BY <1>4, <1>14

\* Every behaviour of an Inifile object and its file, seen through what they say, is one of the
\* store: each call does what the store does, a save replaces the copy in two steps, and a restart
\* finds the copy, or part of it (SaveToString, LoadFromString, Save).
THEOREM ImplementsStore ==
  ASSUME NamesAssumption PROVE Spec => Stored!Spec
<1>1. Init => ValuedInv
  BY DEF Init, Promise!Init, Promise!NoSections, ValuedInv, Valued
<1>2. IniInv => Agree
  BY FileHas, KeepsContents DEF IniInv, Agree, InObject, InFile
<1>3. Init => Stored!Init
  <2> SUFFICES ASSUME Init PROVE Stored!Init
    OBVIOUS
  <2>1. Agree
    BY <1>2, IniStart
  <2>2. QED
    BY <2>1 DEF Agree, Init, Promise!Init, Stored!Init, Promise!NoSections, Stored!NoSections
<1>4. IniInv /\ ValuedInv /\ [Next]_iniVars => IniInv' /\ ValuedInv' /\ [Promise!Next]_Promise!vars
  BY IniStep, StoreSteps, ValuedStep DEF Kept
<1>5. Agree /\ Agree' /\ [Promise!Next]_Promise!vars => [Stored!Next]_Stored!vars
  BY SameSteps
<1>6. QED
  BY <1>1, <1>2, <1>3, <1>4, <1>5, IniStart, PTL DEF Spec, Stored!Spec

-----------------------------------------------------------------------------
(* LogFile.  A line is appended under a name of its own, or replaces one that   *)
(* bears the time alone; the file has each section and entry in its place, so   *)
(* that what is loaded is the object with the counters taken off.               *)

\* Days, times and counters are digits with points or colons, which have no upper case.
Blank == ""
LogPart == DOMAIN LogUpper \ {Blank}
LogAssumption ==
  /\ Blank \in DOMAIN LogUpper /\ \A a, b \in DOMAIN LogUpper : LogUpper[a] = LogUpper[b] => a = b
  /\ Days \in Seq(LogPart) /\ Days # <<>> /\ Times \in Seq(LogPart) /\ Len(Times) = Len(Days)
  /\ Counters \in Seq(LogPart)

\* The clock of the machine is not put back.
ClockAssumption ==
  /\ \A i, j \in DOMAIN Days : Days[i] = Days[j] /\ Times[i] = Times[j] => i = j
  /\ \A i, j, k \in DOMAIN Days : i < j /\ j < k /\ Days[i] = Days[k] => Days[j] = Days[k]

\* What is written and loaded: a line under the time and a counter, or under the time alone.
Alone == {<<t>> : t \in LogPart}
AnyLine == [id : Nat, mark : BOOLEAN]
OtherLine == [id : Nat, mark : {FALSE}]
Counted == [name : LogPart \X LogPart, value : {<<l>> : l \in OtherLine}]
Bare == [name : Alone, value : {<<l>> : l \in AnyLine} \cup (LogPart \X OtherLine)]
LogEntry == Counted \cup Bare
LogSection == [name : Alone, entry : Seq(LogEntry)]
LogObject == [sec : Seq(LogSection), lastsec : Int, strlast : Alone \cup {Log!Empty}, lastent : Int]

Time(x) == x.name[1]
Says(x) == x.value[Len(x.value)]

\* An object whose searches can be trusted.
OneOfEach(sec) == \A s, t \in DOMAIN sec : sec[s].name = sec[t].name => s = t
LogSound(o) ==
  /\ o \in LogObject /\ OneOfEach(o.sec)
  /\ o.lastsec # -1 => o.lastsec \in DOMAIN o.sec /\ o.sec[o.lastsec].name = o.strlast

LogRead(q) == Log!LoadFromString(Log!NewObject, q, FALSE)
LogText == [section : {TRUE}, text : Alone]
           \cup [section : {FALSE}, text : (LogPart \X AnyLine) \cup (LogPart \X LogPart \X OtherLine)]

\* A line that must be there, and is.
KeptLine == [id : Nat, mark : BOOLEAN, day : Alone, time : LogPart, bare : BOOLEAN]
Bears(x, k) == Time(x) = k.time /\ Says(x).id = k.id /\ (~k.bare => x \in Counted)
IsThere(sec, k) == \E s \in DOMAIN sec : sec[s].name = k.day /\ \E e \in DOMAIN sec[s].entry : Bears(sec[s].entry[e], k)
AllThere(sec, K) == \A k \in K : k \in KeptLine /\ IsThere(sec, k)

LogInv ==
  /\ clock \in DOMAIN Days /\ written \in Nat
  /\ log_disk \in Seq(LogText)
  /\ log_saving \in BOOLEAN /\ (log_saving => up /\ inFile = {})
  /\ up => LogSound(log_obj) /\ AllThere(log_obj.sec, kept)
  /\ \A k \in inFile : k \in KeptLine /\ IsThere(LogRead(log_disk).sec, [k EXCEPT !.bare = TRUE])

-----------------------------------------------------------------------------
(* The order in the log is that of time.                                        *)

IsSecond(i, day, time) == i \in DOMAIN Days /\ <<Days[i]>> = day /\ Times[i] = time

DaysOrdered(sec, now) ==
  /\ \A s \in DOMAIN sec : \E i \in 1 .. now : <<Days[i]>> = sec[s].name
  /\ \A s, t \in DOMAIN sec : s < t =>
       \A i, j \in DOMAIN Days : <<Days[i]>> = sec[s].name /\ <<Days[j]>> = sec[t].name => i < j
TimesOrdered(sec, now) ==
  \A s \in DOMAIN sec :
    /\ \A e \in DOMAIN sec[s].entry : \E i \in 1 .. now : IsSecond(i, sec[s].name, Time(sec[s].entry[e]))
    /\ \A e, f \in DOMAIN sec[s].entry : e < f =>
         \A i, j \in DOMAIN Days :
           IsSecond(i, sec[s].name, Time(sec[s].entry[e])) /\ IsSecond(j, sec[s].name, Time(sec[s].entry[f])) => i <= j
Ordered(sec, now) == DaysOrdered(sec, now) /\ TimesOrdered(sec, now)

\* The first line of a second is a mark, or has a counter.
FirstIsMark(sec, day, time) ==
  \A s \in DOMAIN sec : sec[s].name = day =>
    \A e \in DOMAIN sec[s].entry :
      Time(sec[s].entry[e]) = time /\ (\A f \in 1 .. e - 1 : Time(sec[s].entry[f]) # time) =>
        Says(sec[s].entry[e]).mark \/ sec[s].entry[e] \in Counted

Shares(K, k) == \E l \in K : ~l.mark /\ l.day = k.day /\ l.time = k.time

\* A mark is the first of its second, or not alone; and no mark has come after the last one.
MarksFirst(sec, K) == \A k \in K : k.mark => FirstIsMark(sec, k.day, k.time) \/ Shares(K, k)
MarksLast(sec, K) ==
  \A s \in DOMAIN sec : \A e \in DOMAIN sec[s].entry : Says(sec[s].entry[e]).mark =>
    \A k \in K, i, j \in DOMAIN Days :
      IsSecond(i, sec[s].name, Time(sec[s].entry[e])) /\ IsSecond(j, k.day, k.time) /\ j < i => \E y \in K : y.mark /\ y.id > k.id

CountedKept(sec, K) ==
  \A s \in DOMAIN sec : \A e \in DOMAIN sec[s].entry : sec[s].entry[e] \in Counted =>
    \E l \in K : ~l.mark /\ ~l.bare /\ l.day = sec[s].name /\ l.time = Time(sec[s].entry[e])

\* How the log in memory, and that in the file, look at a second when so many lines have been written.
Ids(K, n) == \A k \in K : k.id <= n /\ (k.mark => k.bare)
FileOrdered(sec, K, now, n) == Ordered(sec, now) /\ MarksFirst(sec, K) /\ MarksLast(sec, K) /\ Ids(K, n)
LogOrdered(sec, K, now, n) ==
  FileOrdered(sec, K, now, n) /\ CountedKept(sec, K) /\ FirstIsMark(sec, <<Days[now]>>, Times[now])

OrderInv ==
  /\ up => LogOrdered(log_obj.sec, kept, clock, written)
  /\ FileOrdered(LogRead(log_disk).sec, inFile, clock, written)

-----------------------------------------------------------------------------
(* The searches in the log.                                                    *)

LogName == Alone \cup (LogPart \X LogPart)

LEMMA EmptyIsBlank == Log!Empty = <<Blank>>
BY Zenon DEF Log!Empty, Blank

\* No two names are the same in upper case, and none is empty.
LEMMA NamesDiffer ==
  ASSUME LogAssumption, NEW n \in LogName, NEW m \in LogName \cup {Log!Empty}, Log!UCase(n) = Log!UCase(m)
  PROVE  n = m
<1>1. /\ DOMAIN Log!UCase(n) = DOMAIN n /\ \A i \in DOMAIN n : Log!UCase(n)[i] = LogUpper[n[i]]
      /\ DOMAIN Log!UCase(m) = DOMAIN m /\ \A i \in DOMAIN m : Log!UCase(m)[i] = LogUpper[m[i]]
  BY DEF Log!UCase
<1>2. DOMAIN n = DOMAIN m /\ \A i \in DOMAIN n : LogUpper[n[i]] = LogUpper[m[i]]
  BY <1>1
<1>3. \A a, b \in DOMAIN LogUpper : LogUpper[a] = LogUpper[b] => a = b
  BY DEF LogAssumption
<1>4. Blank \in DOMAIN LogUpper /\ Log!Empty = <<Blank>>
  BY EmptyIsBlank DEF LogAssumption
<1>5. (\A x \in Alone \cup {Log!Empty} : DOMAIN x = 1 .. 1) /\ (\A x \in LogPart \X LogPart : DOMAIN x = 1 .. 2)
  BY <1>4 DEF Alone
<1>6. CASE n \in Alone /\ m \in Alone \cup {Log!Empty}
  <2>1. PICK t \in LogPart : n = <<t>>
    BY <1>6 DEF Alone
  <2>2. PICK u \in DOMAIN LogUpper : m = <<u>>
    BY <1>4, <1>6 DEF Alone, LogPart
  <2>3. 1 \in DOMAIN n
    BY <1>5, <1>6
  <2>4. LogUpper[n[1]] = LogUpper[m[1]]
    BY <1>2, <2>3
  <2>5. QED
    BY <1>3, <2>1, <2>2, <2>4 DEF LogPart
<1>7. CASE n \in LogPart \X LogPart /\ m \in LogPart \X LogPart
  <2>1. 1 \in DOMAIN n /\ 2 \in DOMAIN n
    BY <1>5, <1>7
  <2>2. LogUpper[n[1]] = LogUpper[m[1]] /\ LogUpper[n[2]] = LogUpper[m[2]]
    BY <1>2, <2>1
  <2>3. n[1] \in DOMAIN LogUpper /\ n[2] \in DOMAIN LogUpper /\ m[1] \in DOMAIN LogUpper /\ m[2] \in DOMAIN LogUpper
    BY <1>7 DEF LogPart
  <2>4. n[1] = m[1] /\ n[2] = m[2]
    BY <1>3, <2>2, <2>3
  <2>5. PICK A : A = LogPart
    OBVIOUS
  <2>6. n \in A \X A /\ m \in A \X A
    BY <1>7, <2>5
  <2>7. QED
    BY <2>4, <2>6
<1>8. CASE ~(n \in Alone /\ m \in Alone \cup {Log!Empty}) /\ ~(n \in LogPart \X LogPart /\ m \in LogPart \X LogPart)
  <2>1. 1 .. 1 # 1 .. 2
    <3>1. 2 \in 1 .. 2 /\ 2 \notin 1 .. 1
      OBVIOUS
    <3>2. QED
      BY <3>1
  <2>2. QED
    BY <1>2, <1>5, <1>8, <2>1 DEF LogName
<1>9. QED
  BY <1>6, <1>7, <1>8

LEMMA NamesFull ==
  ASSUME NEW n \in LogName
  PROVE  n # Log!Empty
<1>1. CASE n \in Alone
  <2>1. PICK t \in LogPart : n = <<t>>
    BY <1>1 DEF Alone
  <2>2. t # Blank
    BY DEF LogPart
  <2>3. QED
    BY <2>1, <2>2, EmptyIsBlank
<1>2. CASE n \in LogPart \X LogPart
  <2>1. DOMAIN n = 1 .. 2 /\ DOMAIN Log!Empty = 1 .. 1 /\ 2 \in 1 .. 2
    BY <1>2, EmptyIsBlank
  <2>2. QED
    BY <2>1
<1>3. QED
  BY <1>1, <1>2 DEF LogName

\* What there is in an object.
LEMMA SectionsOf ==
  ASSUME NEW o \in LogObject
  PROVE  /\ o.sec \in Seq(LogSection) /\ DOMAIN o.sec = 1 .. Len(o.sec) /\ Len(o.sec) \in Nat
         /\ \A s \in DOMAIN o.sec : o.sec[s] \in LogSection
<1>1. o.sec \in Seq(LogSection)
  BY DEF LogObject
<1>2. QED
  BY <1>1, LenProperties, ElementOfSeq

LEMMA EntriesIn ==
  ASSUME NEW sec \in Seq(LogSection), NEW s \in DOMAIN sec
  PROVE  /\ sec[s] \in LogSection /\ sec[s].name \in Alone /\ sec[s].entry \in Seq(LogEntry)
         /\ sec[s] = [name |-> sec[s].name, entry |-> sec[s].entry]
         /\ DOMAIN sec[s].entry = 1 .. Len(sec[s].entry) /\ Len(sec[s].entry) \in Nat
         /\ \A e \in DOMAIN sec[s].entry : sec[s].entry[e] \in LogEntry
<1>1. sec[s] \in LogSection
  <2>1. DOMAIN sec = 1 .. Len(sec)
    BY LenProperties
  <2>2. QED
    BY <2>1, ElementOfSeq
<1>2. sec[s].name \in Alone /\ sec[s].entry \in Seq(LogEntry) /\ sec[s] = [name |-> sec[s].name, entry |-> sec[s].entry]
  BY <1>1 DEF LogSection
<1>3. PICK q \in Seq(LogEntry) : q = sec[s].entry
  BY <1>2
<1>4. DOMAIN q = 1 .. Len(q) /\ Len(q) \in Nat /\ \A e \in DOMAIN q : q[e] \in LogEntry
  BY LenProperties, ElementOfSeq
<1>5. QED
  BY <1>1, <1>2, <1>3, <1>4

\* An entry.
LEMMA EntryParts ==
  ASSUME NEW x \in LogEntry
  PROVE  /\ x.name \in LogName /\ Time(x) \in LogPart /\ Says(x) \in AnyLine
         /\ x \in Counted <=> x.name \in LogPart \X LogPart
         /\ x \in Counted => ~Says(x).mark
         /\ Log!IsMark(x.value) <=> Says(x).mark
<1>1. CASE x \in Counted
  <2>1. x.name \in LogPart \X LogPart
    BY <1>1 DEF Counted
  <2>2. PICK l \in OtherLine : x.value = <<l>>
    BY <1>1 DEF Counted
  <2>3. Len(x.value) = 1 /\ x.value[1] = l
    BY <2>2
  <2>4. Says(x) = l /\ ~l.mark /\ l \in AnyLine
    BY <2>3 DEF Says, OtherLine, AnyLine
  <2>5. QED
    BY <1>1, <2>1, <2>3, <2>4 DEF LogName, Time, Log!IsMark
<1>2. CASE x \in Bare
  <2>1. PICK t \in LogPart : x.name = <<t>>
    BY <1>2 DEF Bare, Alone
  <2>2. x.name \in Alone /\ Time(x) = t /\ x.name \notin LogPart \X LogPart /\ x \notin Counted
    BY <2>1 DEF Time, Alone, Counted
  <2>3. CASE x.value \in {<<l>> : l \in AnyLine}
    <3>1. PICK l \in AnyLine : x.value = <<l>>
      BY <2>3
    <3>2. Len(x.value) = 1 /\ x.value[1] = l
      BY <3>1
    <3>3. Says(x) = l
      BY <3>2 DEF Says
    <3>4. QED
      BY <2>2, <3>2, <3>3 DEF LogName, Log!IsMark
  <2>4. CASE x.value \in LogPart \X OtherLine
    <3>1. Len(x.value) = 2 /\ x.value[2] \in OtherLine
      BY <2>4
    <3>2. Says(x) \in AnyLine /\ ~Says(x).mark
      BY <3>1 DEF Says, OtherLine, AnyLine
    <3>3. QED
      BY <2>2, <3>1, <3>2 DEF LogName, Log!IsMark
  <2>5. QED
    BY <1>2, <2>3, <2>4 DEF Bare
<1>3. QED
  BY <1>1, <1>2 DEF LogEntry

\* A search finds the place of what bears the name.
FoundAt(q, name, i) ==
  IF i = 0 THEN \A j \in DOMAIN q : q[j].name # name ELSE i \in DOMAIN q /\ q[i].name = name

LEMMA LogLeast ==
  ASSUME NEW M \in SUBSET Nat, M # {}
  PROVE  Log!Min(M) \in M /\ \A j \in M : Log!Min(M) <= j
<1>1. Min(M) \in M
  BY LeastPlace
<1>2. \E x \in M : \A y \in M : x <= y
  <2> DEFINE Less == {ss \in Nat \X Nat : ss[1] < ss[2]}
  <2>1. PICK m \in M : \A y \in M : ~(<<y, m>> \in Less)
    <3>1. IsWellFoundedOn(Less, Nat)
      BY NatLessThanWellFounded DEF OpToRel
    <3> HIDE DEF Less
    <3>2. QED
      BY <3>1, WFMin
  <2>2. ASSUME NEW y \in M PROVE m <= y
    <3>1. m \in Nat /\ y \in Nat /\ ~(<<y, m>> \in Less)
      BY <2>1
    <3>2. ~(y < m)
      BY <3>1
    <3>3. QED
      BY <3>1, <3>2
  <2>3. QED
    BY <2>2
<1>3. Log!Min(M) = Min(M)
  BY DEF Log!Min, Min
<1>4. QED
  BY <1>1, <1>2, <1>3 DEF Min

\* The object with another hint.
LogHinted(o, i, name) == [o EXCEPT !.lastsec = i, !.strlast = name]

LEMMA LogHintChanged ==
  ASSUME NEW o, LogSound(o), NEW i \in Int, NEW name \in Alone \cup {Log!Empty},
         i # -1 => i \in DOMAIN o.sec /\ o.sec[i].name = name
  PROVE  LogSound(LogHinted(o, i, name)) /\ LogHinted(o, i, name).sec = o.sec /\ LogHinted(o, i, name).lastent = o.lastent
<1>1. o \in [sec : Seq(LogSection), lastsec : Int, strlast : Alone \cup {Log!Empty}, lastent : Int]
  BY DEF LogSound, LogObject
<1>2. /\ LogHinted(o, i, name) \in LogObject /\ LogHinted(o, i, name).sec = o.sec
      /\ LogHinted(o, i, name).lastsec = i /\ LogHinted(o, i, name).strlast = name
      /\ LogHinted(o, i, name).lastent = o.lastent
  BY <1>1 DEF LogObject, LogHinted
<1>3. QED
  BY <1>2 DEF LogSound

\* FindSection tells where the section of that name is.
LEMMA LogFindsSection ==
  ASSUME LogAssumption, NEW o, LogSound(o), NEW name \in Alone
  PROVE  /\ LogSound(Log!FindSection(o, name)[1]) /\ Log!FindSection(o, name)[1].sec = o.sec
         /\ Log!FindSection(o, name)[1].lastent = o.lastent
         /\ FoundAt(o.sec, name, Log!FindSection(o, name)[2])
<1> DEFINE found == {i \in DOMAIN o.sec : Log!UCase(o.sec[i].name) = Log!UCase(name)}
           i == Log!Min(found)
<1>1. name \in LogName /\ name # Log!Empty
  BY NamesFull DEF LogName
<1>2. /\ o \in LogObject /\ o.sec \in Seq(LogSection) /\ DOMAIN o.sec = 1 .. Len(o.sec) /\ Len(o.sec) \in Nat
      /\ \A j \in DOMAIN o.sec : o.sec[j] \in LogSection
  BY SectionsOf DEF LogSound
<1>3. \A j \in DOMAIN o.sec : o.sec[j].name \in Alone /\ o.sec[j].name \in LogName
  BY <1>2 DEF LogSection, LogName
<1>4. \A j \in DOMAIN o.sec : Log!UCase(o.sec[j].name) = Log!UCase(name) <=> o.sec[j].name = name
  BY <1>1, <1>3, NamesDiffer
<1>5. Log!FindSection(o, name) = IF name = o.strlast /\ o.lastsec # -1 THEN <<o, o.lastsec>>
                                 ELSE IF found = {} THEN <<LogHinted(o, -1, Log!Empty), 0>>
                                 ELSE <<LogHinted(o, i, o.sec[i].name), i>>
  BY <1>1 DEF Log!FindSection, LogHinted
<1>6. found = {j \in DOMAIN o.sec : o.sec[j].name = name}
  BY <1>4
<1>7. found \in SUBSET Nat
  BY <1>2
<1> HIDE DEF found
<1>8. found # {} => i \in found
  BY <1>7, LogLeast
<1> HIDE DEF i
<1>9. CASE name = o.strlast /\ o.lastsec # -1
  <2>1. o.lastsec \in DOMAIN o.sec /\ o.sec[o.lastsec].name = name
    BY <1>9 DEF LogSound
  <2>2. QED
    BY <1>2, <1>5, <1>9, <2>1 DEF FoundAt
<1>10. CASE ~(name = o.strlast /\ o.lastsec # -1) /\ found = {}
  <2>1. -1 \in Int /\ Log!Empty \in Alone \cup {Log!Empty}
    OBVIOUS
  <2>2. /\ LogSound(LogHinted(o, -1, Log!Empty)) /\ LogHinted(o, -1, Log!Empty).sec = o.sec
        /\ LogHinted(o, -1, Log!Empty).lastent = o.lastent
    BY <2>1, LogHintChanged
  <2>3. QED
    BY <1>5, <1>6, <1>10, <2>2 DEF FoundAt
<1>11. CASE ~(name = o.strlast /\ o.lastsec # -1) /\ found # {}
  <2>1. i \in DOMAIN o.sec /\ i \in Int /\ i # 0 /\ o.sec[i].name = name
    BY <1>2, <1>6, <1>7, <1>8, <1>11
  <2>2. /\ LogSound(LogHinted(o, i, o.sec[i].name)) /\ LogHinted(o, i, o.sec[i].name).sec = o.sec
        /\ LogHinted(o, i, o.sec[i].name).lastent = o.lastent
    BY <2>1, LogHintChanged
  <2>3. QED
    BY <1>5, <1>11, <2>1, <2>2 DEF FoundAt
<1>12. QED
  BY <1>9, <1>10, <1>11

\* The entries of a section that was found or not.
EntriesAt(sec, s) == IF s = 0 THEN <<>> ELSE sec[s].entry

LEMMA LogRecall ==
  ASSUME NEW o, LogSound(o), NEW i \in Int
  PROVE  LogSound([o EXCEPT !.lastent = i]) /\ [o EXCEPT !.lastent = i].sec = o.sec
<1>1. o \in [sec : Seq(LogSection), lastsec : Int, strlast : Alone \cup {Log!Empty}, lastent : Int]
  BY DEF LogSound, LogObject
<1>2. PICK p : p = [o EXCEPT !.lastent = i]
  OBVIOUS
<1>3. p \in LogObject /\ p.sec = o.sec /\ p.lastsec = o.lastsec /\ p.strlast = o.strlast
  BY <1>1, <1>2 DEF LogObject
<1>4. QED
  BY <1>2, <1>3 DEF LogSound

\* FindEntry tells where an entry of that name is, and if nothing was found before, where the first one is.
LEMMA LogFindsEntry ==
  ASSUME LogAssumption, NEW o0, LogSound(o0), NEW day \in Alone, NEW name \in LogName,
         NEW s, s = Log!FindSection(o0, day)[2], NEW q, q = EntriesAt(o0.sec, s)
  PROVE  /\ LogSound(Log!FindEntry(o0, day, name)[1]) /\ Log!FindEntry(o0, day, name)[1].sec = o0.sec
         /\ FoundAt(q, name, Log!FindEntry(o0, day, name)[2])
         /\ o0.lastent = -1 => \A j \in 1 .. Log!FindEntry(o0, day, name)[2] - 1 : q[j].name # name
<1>1. PICK o : o = Log!FindSection(o0, day)[1]
  OBVIOUS
<1>2. LogSound(o) /\ o.sec = o0.sec /\ o.lastent = o0.lastent /\ FoundAt(o0.sec, day, s)
  BY <1>1, LogFindsSection
<1> DEFINE u == Len(Log!Entries(o, s))
           near == IF o.lastent = -1 THEN {} ELSE Log!Matching(o, s, name, Log!Near(o, u))
           found == IF near # {} THEN near ELSE Log!Matching(o, s, name, 1 .. u)
           r == Log!FindEntry(o0, day, name)
<1>3. r = IF s = 0 \/ found = {} THEN <<o, 0>> ELSE <<[o EXCEPT !.lastent = Log!Min(found)], Log!Min(found)>>
  BY <1>1 DEF Log!FindEntry, Log!FoundEntry
<1>4. CASE s = 0
  <2>1. r = <<o, 0>> /\ q = <<>>
    BY <1>3, <1>4 DEF EntriesAt
  <2>2. FoundAt(q, name, 0)
    BY <2>1 DEF FoundAt
  <2> HIDE DEF r
  <2>3. QED
    BY <1>2, <2>1, <2>2 DEF r
<1>5. CASE s # 0
  <2>1. s \in DOMAIN o.sec /\ o.sec \in Seq(LogSection)
    <3>1. o \in LogObject
      BY <1>2 DEF LogSound
    <3>2. QED
      BY <1>2, <1>5, <3>1, SectionsOf DEF FoundAt
  <2>2. /\ q = o.sec[s].entry /\ q \in Seq(LogEntry) /\ DOMAIN q = 1 .. Len(q) /\ Len(q) \in Nat
        /\ \A e \in DOMAIN q : q[e] \in LogEntry
    BY <1>2, <1>5, <2>1, EntriesIn DEF EntriesAt
  <2>3. Log!Entries(o, s) = q /\ u = Len(q)
    BY <1>5, <2>2 DEF Log!Entries
  <2>4. \A e \in DOMAIN q : Log!EntryName(o, s, e) = q[e].name /\ q[e].name \in LogName
    BY <2>2, EntryParts DEF Log!EntryName
  <2>5. \A e \in DOMAIN q : Log!UCase(Log!EntryName(o, s, e)) = Log!UCase(name) <=> q[e].name = name
    BY <2>4, NamesDiffer
  <2>6. Log!UCase(Log!EntryName(o, s, 0)) # Log!UCase(name)
    <3>1. Log!EntryName(o, s, 0) = Log!Empty
      BY DEF Log!EntryName
    <3>2. name # Log!Empty
      BY NamesFull
    <3>3. QED
      BY <3>1, <3>2, NamesDiffer
  <2>7. ASSUME NEW P \in SUBSET (0 .. Len(q)) PROVE Log!Matching(o, s, name, P) = {e \in P \cap DOMAIN q : q[e].name = name}
    <3>1. \A e \in P : e = 0 \/ e \in DOMAIN q
      BY <2>2
    <3>2. QED
      BY <2>2, <2>5, <2>6, <3>1 DEF Log!Matching
  <2>8. Log!Matching(o, s, name, 1 .. u) = {e \in DOMAIN q : q[e].name = name}
    <3>1. 1 .. u \in SUBSET (0 .. Len(q)) /\ (1 .. u) \cap DOMAIN q = DOMAIN q
      BY <2>2, <2>3
    <3>2. QED
      BY <2>7, <3>1
  <2>9. near \subseteq {e \in DOMAIN q : q[e].name = name}
    <3>1. Log!Near(o, u) \in SUBSET (0 .. Len(q))
      BY <2>3 DEF Log!Near
    <3>2. Log!Matching(o, s, name, Log!Near(o, u)) \subseteq {e \in DOMAIN q : q[e].name = name}
      BY <2>7, <3>1
    <3>3. QED
      BY <3>2
  <2>10. o0.lastent = -1 => near = {}
    BY <1>2
  <2> HIDE DEF near, u
  <2>11. found \subseteq {e \in DOMAIN q : q[e].name = name} /\ (found = {} => \A e \in DOMAIN q : q[e].name # name)
         /\ (near = {} => found = {e \in DOMAIN q : q[e].name = name})
    BY <2>8, <2>9
  <2> HIDE DEF found
  <2>12. found \in SUBSET Nat
    BY <2>2, <2>11
  <2>13. CASE found = {}
    <3>1. r = <<o, 0>> /\ FoundAt(q, name, 0)
      BY <1>3, <2>11, <2>13 DEF FoundAt
    <3> HIDE DEF r
    <3>2. QED
      BY <1>2, <3>1 DEF r
  <2>14. CASE found # {}
    <3>1. PICK m : m = Log!Min(found)
      OBVIOUS
    <3>2. m \in found /\ \A j \in found : m <= j
      BY <2>12, <2>14, <3>1, LogLeast
    <3>3. m \in DOMAIN q /\ q[m].name = name /\ m \in Int /\ m # 0
      BY <2>2, <2>11, <3>2
    <3>4. r = <<[o EXCEPT !.lastent = m], m>>
      BY <1>3, <1>5, <2>14, <3>1
    <3>5. LogSound([o EXCEPT !.lastent = m]) /\ [o EXCEPT !.lastent = m].sec = o.sec
      BY <1>2, <3>3, LogRecall
    <3>6. ASSUME o0.lastent = -1, NEW j \in 1 .. m - 1 PROVE q[j].name # name
      <4>1. found = {e \in DOMAIN q : q[e].name = name}
        BY <2>10, <2>11, <3>6
      <4>2. j \in DOMAIN q /\ ~(m <= j)
        BY <2>2, <3>3
      <4>3. QED
        BY <3>2, <4>1, <4>2
    <3>7. FoundAt(q, name, m)
      BY <3>3 DEF FoundAt
    <3> HIDE DEF r
    <3>8. PICK p : p = [o EXCEPT !.lastent = m]
      OBVIOUS
    <3>9. r[1] = p /\ r[2] = m
      BY <3>4, <3>8
    <3>10. /\ LogSound(r[1]) /\ r[1].sec = o0.sec /\ FoundAt(q, name, r[2])
           /\ o0.lastent = -1 => \A j \in 1 .. r[2] - 1 : q[j].name # name
      BY <1>2, <3>5, <3>6, <3>7, <3>8, <3>9
    <3>11. QED
      BY <3>10 DEF r
  <2>15. QED
    BY <2>13, <2>14
<1>6. QED
  BY <1>4, <1>5

-----------------------------------------------------------------------------
(* A line is written: its section is there or added, and the line is put at   *)
(* the end of it or in the place of the entry of its name.                    *)

LEMMA LogSectionsChanged ==
  ASSUME NEW o, LogSound(o), NEW sec \in Seq(LogSection), OneOfEach(sec),
         o.lastsec # -1 => o.lastsec \in DOMAIN sec /\ sec[o.lastsec].name = o.strlast
  PROVE  LogSound([o EXCEPT !.sec = sec]) /\ [o EXCEPT !.sec = sec].sec = sec /\ [o EXCEPT !.sec = sec].lastent = o.lastent
<1>1. o \in [sec : Seq(LogSection), lastsec : Int, strlast : Alone \cup {Log!Empty}, lastent : Int]
  BY DEF LogSound, LogObject
<1>2. PICK p : p = [o EXCEPT !.sec = sec]
  OBVIOUS
<1>3. /\ p \in LogObject /\ p.sec = sec /\ p.lastsec = o.lastsec /\ p.strlast = o.strlast
      /\ p.lastent = o.lastent
  BY <1>1, <1>2 DEF LogObject
<1>4. QED
  BY <1>2, <1>3 DEF LogSound

WithSection(sec, new, day, s) ==
  \/ new = sec /\ s \in DOMAIN sec /\ sec[s].name = day
  \/ /\ \A j \in DOMAIN sec : sec[j].name # day
     /\ new = Append(sec, [name |-> day, entry |-> <<>>]) /\ s = Len(sec) + 1

LEMMA LogAddsSection ==
  ASSUME LogAssumption, NEW o0, LogSound(o0), NEW day \in Alone
  PROVE  /\ LogSound(Log!AddSection(o0, day)[1]) /\ Log!AddSection(o0, day)[1].lastent = o0.lastent
         /\ WithSection(o0.sec, Log!AddSection(o0, day)[1].sec, day, Log!AddSection(o0, day)[2])
<1>1. PICK o, s : o = Log!FindSection(o0, day)[1] /\ s = Log!FindSection(o0, day)[2]
  OBVIOUS
<1>2. LogSound(o) /\ o.sec = o0.sec /\ o.lastent = o0.lastent /\ FoundAt(o.sec, day, s)
  BY <1>1, LogFindsSection
<1>3. PICK x : x = [name |-> day, entry |-> <<>>]
  OBVIOUS
<1>4. PICK sec : sec = Append(o.sec, x)
  OBVIOUS
<1>5. PICK p : p = [o EXCEPT !.sec = sec]
  OBVIOUS
<1>6. Log!AddSection(o0, day) = IF s = 0 THEN <<p, Len(o.sec) + 1>> ELSE <<o, s>>
  <2>1. [o EXCEPT !.sec = Append(@, x)] = [o EXCEPT !.sec = sec]
    BY <1>4
  <2>2. QED
    BY <1>1, <1>3, <1>5, <2>1 DEF Log!AddSection
<1>7. /\ o \in LogObject /\ o.sec \in Seq(LogSection) /\ DOMAIN o.sec = 1 .. Len(o.sec) /\ Len(o.sec) \in Nat
  BY <1>2, SectionsOf DEF LogSound
<1>8. CASE s # 0
  <2>1. WithSection(o0.sec, o.sec, day, s)
    BY <1>2, <1>8 DEF FoundAt, WithSection
  <2>2. QED
    BY <1>2, <1>6, <1>8, <2>1
<1>9. CASE s = 0
  <2>1. \A j \in DOMAIN o.sec : o.sec[j].name # day
    BY <1>2, <1>9 DEF FoundAt
  <2>2. x \in LogSection /\ x.name = day
    <3>1. <<>> \in Seq(LogEntry)
      OBVIOUS
    <3>2. QED
      BY <1>3, <3>1 DEF LogSection
  <2>3. /\ sec \in Seq(LogSection) /\ Len(sec) = Len(o.sec) + 1 /\ sec[Len(o.sec) + 1] = x
        /\ \A i \in 1 .. Len(o.sec) : sec[i] = o.sec[i]
    BY <1>4, <1>7, <2>2, Appended
  <2>4. DOMAIN sec = 1 .. Len(o.sec) + 1
    BY <2>3, LenProperties
  <2>5. OneOfEach(sec)
    <3>1. OneOfEach(o.sec)
      BY <1>2 DEF LogSound
    <3>2. \A i \in 1 .. Len(o.sec) : sec[i].name = o.sec[i].name /\ sec[i].name # day
      BY <1>7, <2>1, <2>3
    <3>3. sec[Len(o.sec) + 1].name = day
      BY <2>2, <2>3
    <3>4. \A i \in 1 .. Len(o.sec) + 1 : i \in 1 .. Len(o.sec) \/ i = Len(o.sec) + 1
      BY <1>7
    <3>5. QED
      BY <1>7, <2>4, <3>1, <3>2, <3>3, <3>4 DEF OneOfEach
  <2>6. o.lastsec # -1 => o.lastsec \in DOMAIN sec /\ sec[o.lastsec].name = o.strlast
    BY <1>2, <1>7, <2>3, <2>4 DEF LogSound
  <2>7. LogSound(p) /\ p.sec = sec /\ p.lastent = o.lastent
    BY <1>2, <1>5, <2>3, <2>5, <2>6, LogSectionsChanged
  <2>8. WithSection(o0.sec, p.sec, day, Len(o.sec) + 1)
    BY <1>2, <1>3, <1>4, <2>1, <2>7 DEF WithSection
  <2>9. QED
    BY <1>2, <1>6, <1>9, <2>7, <2>8
<1>10. QED
  BY <1>8, <1>9

Puts(sec, new, s, e, x) ==
  /\ s \in DOMAIN sec /\ new \in Seq(LogSection) /\ DOMAIN new = DOMAIN sec
  /\ \A j \in DOMAIN sec : new[j].name = sec[j].name /\ (j # s => new[j].entry = sec[j].entry)
  /\ FoundAt(sec[s].entry, x.name, e)
  /\ new[s].entry = IF e = 0 THEN Append(sec[s].entry, x) ELSE [sec[s].entry EXCEPT ![e] = x]

LEMMA LogEntriesChanged ==
  ASSUME NEW o, LogSound(o), NEW s \in DOMAIN o.sec, NEW q \in Seq(LogEntry)
  PROVE  /\ LogSound([o EXCEPT !.sec[s].entry = q]) /\ [o EXCEPT !.sec[s].entry = q].sec \in Seq(LogSection)
         /\ DOMAIN [o EXCEPT !.sec[s].entry = q].sec = DOMAIN o.sec
         /\ \A j \in DOMAIN o.sec : /\ [o EXCEPT !.sec[s].entry = q].sec[j].name = o.sec[j].name
                                    /\ [o EXCEPT !.sec[s].entry = q].sec[j].entry = IF j = s THEN q ELSE o.sec[j].entry
<1>1. o \in [sec : Seq(LogSection), lastsec : Int, strlast : Alone \cup {Log!Empty}, lastent : Int]
  BY DEF LogSound, LogObject
<1>2. /\ o.sec \in Seq(LogSection) /\ DOMAIN o.sec = 1 .. Len(o.sec) /\ o.sec[s] \in LogSection
  BY <1>1, EntriesIn, LenProperties
<1>3. PICK x : x = [o.sec[s] EXCEPT !.entry = q]
  OBVIOUS
<1>4. x \in LogSection /\ x.name = o.sec[s].name /\ x.entry = q
  BY <1>2, <1>3 DEF LogSection
<1>5. PICK sec : sec = [o.sec EXCEPT ![s] = x]
  OBVIOUS
<1>6. sec \in Seq(LogSection)
  BY <1>2, <1>4, <1>5, ExceptSeq
<1>7. /\ DOMAIN sec = DOMAIN o.sec
      /\ \A j \in DOMAIN o.sec : sec[j].name = o.sec[j].name /\ sec[j].entry = IF j = s THEN q ELSE o.sec[j].entry
  BY <1>2, <1>4, <1>5
<1>8. [o EXCEPT !.sec[s].entry = q] = [o EXCEPT !.sec = sec]
  <2>1. [o.sec EXCEPT ![s].entry = q] = sec
    BY <1>3, <1>5
  <2>2. QED
    BY <2>1
<1>9. OneOfEach(sec) /\ (o.lastsec # -1 => o.lastsec \in DOMAIN sec /\ sec[o.lastsec].name = o.strlast)
  BY <1>7 DEF LogSound, OneOfEach
<1>10. LogSound([o EXCEPT !.sec = sec]) /\ [o EXCEPT !.sec = sec].sec = sec
  BY <1>6, <1>9, LogSectionsChanged
<1>11. PICK p : p = [o EXCEPT !.sec[s].entry = q]
  OBVIOUS
<1>12. LogSound(p) /\ p.sec = sec
  BY <1>8, <1>10, <1>11
<1>13. QED
  BY <1>6, <1>7, <1>11, <1>12

LEMMA LogWritesEntry ==
  ASSUME LogAssumption, NEW o0, LogSound(o0), NEW s \in DOMAIN o0.sec, NEW x \in LogEntry
  PROVE  /\ LogSound(Log!WriteEntry(o0, o0.sec[s].name, x.name, x.value))
         /\ \E e \in Nat : /\ Puts(o0.sec, Log!WriteEntry(o0, o0.sec[s].name, x.name, x.value).sec, s, e, x)
                           /\ o0.lastent = -1 => \A j \in 1 .. e - 1 : o0.sec[s].entry[j].name # x.name
<1>1. PICK day : day = o0.sec[s].name
  OBVIOUS
<1>2. /\ o0.sec \in Seq(LogSection) /\ DOMAIN o0.sec = 1 .. Len(o0.sec) /\ Len(o0.sec) \in Nat
  BY SectionsOf DEF LogSound
<1>3. PICK q : q = o0.sec[s].entry
  OBVIOUS
<1>4. day \in Alone /\ q \in Seq(LogEntry) /\ DOMAIN q = 1 .. Len(q) /\ Len(q) \in Nat
  BY <1>1, <1>2, <1>3, EntriesIn
<1>5. x.name \in LogName /\ x = [name |-> x.name, value |-> x.value]
  BY EntryParts DEF LogEntry, Counted, Bare
<1>6. Log!FindSection(o0, day)[2] = s
  <2>1. FoundAt(o0.sec, day, Log!FindSection(o0, day)[2])
    BY <1>4, LogFindsSection
  <2>2. QED
    BY <1>1, <2>1 DEF FoundAt, LogSound, OneOfEach
<1>7. PICK o, e : o = Log!FindEntry(o0, day, x.name)[1] /\ e = Log!FindEntry(o0, day, x.name)[2]
  OBVIOUS
<1>8. q = EntriesAt(o0.sec, s)
  BY <1>2, <1>3 DEF EntriesAt
<1>9. /\ LogSound(o) /\ o.sec = o0.sec /\ FoundAt(q, x.name, e)
      /\ o0.lastent = -1 => \A j \in 1 .. e - 1 : q[j].name # x.name
  BY <1>4, <1>5, <1>6, <1>7, <1>8, LogFindsEntry
<1>10. e \in Nat
  BY <1>4, <1>9 DEF FoundAt
<1>11. PICK new : new = IF e = 0 THEN Append(q, x) ELSE [q EXCEPT ![e] = x]
  OBVIOUS
<1>12. new \in Seq(LogEntry)
  <2>1. CASE e = 0
    BY <1>4, <1>11, <2>1, Appended
  <2>2. CASE e # 0
    <3>1. e \in DOMAIN q
      BY <1>9, <2>2 DEF FoundAt
    <3>2. QED
      BY <1>4, <1>11, <2>2, <3>1, ExceptSeq
  <2>3. QED
    BY <2>1, <2>2
<1>13. Log!WriteEntry(o0, day, x.name, x.value) = [o EXCEPT !.sec[s].entry = new]
  <2>1. s # 0
    BY <1>2
  <2>2. Log!WriteEntry(o0, day, x.name, x.value) = IF e = 0 THEN [o EXCEPT !.sec[s].entry = Append(@, x)]
                                                   ELSE [o EXCEPT !.sec[s].entry[e] = x]
    BY <1>5, <1>6, <1>7, <2>1 DEF Log!WriteEntry
  <2>3. o.sec[s].entry = q
    BY <1>3, <1>9
  <2>4. [o EXCEPT !.sec[s].entry = Append(@, x)] = [o EXCEPT !.sec[s].entry = Append(q, x)]
    BY <2>3
  <2>5. [o EXCEPT !.sec[s].entry[e] = x] = [o EXCEPT !.sec[s].entry = [q EXCEPT ![e] = x]]
    BY <2>3
  <2>6. QED
    BY <1>11, <2>2, <2>4, <2>5
<1>14. PICK p : p = [o EXCEPT !.sec[s].entry = new]
  OBVIOUS
<1>15. /\ LogSound(p) /\ p.sec \in Seq(LogSection) /\ DOMAIN p.sec = DOMAIN o0.sec
       /\ \A j \in DOMAIN o0.sec : p.sec[j].name = o0.sec[j].name /\ p.sec[j].entry = IF j = s THEN new ELSE o0.sec[j].entry
  <2>1. s \in DOMAIN o.sec
    BY <1>9
  <2>2. /\ LogSound([o EXCEPT !.sec[s].entry = new]) /\ [o EXCEPT !.sec[s].entry = new].sec \in Seq(LogSection)
        /\ DOMAIN [o EXCEPT !.sec[s].entry = new].sec = DOMAIN o.sec
        /\ \A j \in DOMAIN o.sec : /\ [o EXCEPT !.sec[s].entry = new].sec[j].name = o.sec[j].name
                                   /\ [o EXCEPT !.sec[s].entry = new].sec[j].entry = IF j = s THEN new ELSE o.sec[j].entry
    BY <1>9, <1>12, <2>1, LogEntriesChanged
  <2>3. QED
    BY <1>9, <1>14, <2>2
<1>16. Puts(o0.sec, p.sec, s, e, x)
  BY <1>3, <1>9, <1>11, <1>15 DEF Puts
<1>17. QED
  BY <1>1, <1>3, <1>9, <1>10, <1>13, <1>14, <1>15, <1>16

\* Both together: x is at place f of section s, which has the name of the day; all else is as it was.
Earlier(sec, s) == IF s \in DOMAIN sec THEN sec[s].entry ELSE <<>>
Wrote(sec, new, day, s, f, x) ==
  /\ DOMAIN new = DOMAIN sec \cup {s} /\ s \in 1 .. Len(sec) + 1
  /\ new[s].name = day /\ \A j \in DOMAIN sec : new[j].name = sec[j].name
  /\ \A j \in DOMAIN new \ {s} : new[j].entry = sec[j].entry
  /\ DOMAIN new[s].entry = DOMAIN Earlier(sec, s) \cup {f} /\ f \in 1 .. Len(Earlier(sec, s)) + 1
  /\ new[s].entry[f] = x /\ \A g \in DOMAIN Earlier(sec, s) \ {f} : new[s].entry[g] = Earlier(sec, s)[g]
  /\ IF f \in DOMAIN Earlier(sec, s) THEN Earlier(sec, s)[f].name = x.name
     ELSE \A g \in DOMAIN Earlier(sec, s) : Earlier(sec, s)[g].name # x.name

LEMMA LogWrote ==
  ASSUME NEW sec \in Seq(LogSection), NEW mid \in Seq(LogSection), NEW new, NEW day \in Alone, NEW s, NEW e, NEW x \in LogEntry,
         WithSection(sec, mid, day, s), Puts(mid, new, s, e, x)
  PROVE  \E f \in Nat \ {0} : /\ Wrote(sec, new, day, s, f, x)
                              /\ e = 0 => f = Len(Earlier(sec, s)) + 1
                              /\ e # 0 => f = e /\ s \in DOMAIN sec /\ mid = sec
<1>1. PICK q : q = mid[s].entry
  OBVIOUS
<1>2. s \in DOMAIN mid /\ new \in Seq(LogSection) /\ DOMAIN new = DOMAIN mid
  BY DEF Puts
<1>3. q \in Seq(LogEntry) /\ DOMAIN q = 1 .. Len(q) /\ Len(q) \in Nat
  BY <1>1, <1>2, EntriesIn
<1>4. q = Earlier(sec, s) /\ mid[s].name = day /\ DOMAIN mid = DOMAIN sec \cup {s} /\ s \in 1 .. Len(sec) + 1
      /\ \A j \in DOMAIN sec : mid[j] = sec[j]
  <2>1. DOMAIN sec = 1 .. Len(sec) /\ Len(sec) \in Nat
    BY LenProperties
  <2>2. CASE mid = sec /\ s \in DOMAIN sec /\ sec[s].name = day
    BY <1>1, <2>1, <2>2 DEF Earlier
  <2>3. CASE /\ \A j \in DOMAIN sec : sec[j].name # day
             /\ mid = Append(sec, [name |-> day, entry |-> <<>>]) /\ s = Len(sec) + 1
    <3>1. PICK y : y = [name |-> day, entry |-> <<>>]
      OBVIOUS
    <3>2. y \in LogSection /\ y.name = day /\ y.entry = <<>>
      <4>1. <<>> \in Seq(LogEntry)
        OBVIOUS
      <4>2. QED
        BY <3>1, <4>1 DEF LogSection
    <3>3. /\ mid = Append(sec, y) /\ Len(mid) = Len(sec) + 1 /\ mid[Len(sec) + 1] = y
          /\ \A i \in 1 .. Len(sec) : mid[i] = sec[i]
      BY <2>3, <3>1, <3>2, Appended
    <3>4. DOMAIN mid = 1 .. Len(sec) + 1
      BY <3>3, LenProperties
    <3>5. s \notin DOMAIN sec
      BY <2>1, <2>3
    <3>6. Earlier(sec, s) = <<>>
      BY <3>5 DEF Earlier
    <3>7. QED
      BY <1>1, <2>1, <2>3, <3>2, <3>3, <3>4, <3>6
  <2>4. QED
    BY <2>2, <2>3 DEF WithSection
<1>5. PICK r : r = new[s].entry
  OBVIOUS
<1>6. /\ FoundAt(q, x.name, e) /\ r = IF e = 0 THEN Append(q, x) ELSE [q EXCEPT ![e] = x]
      /\ new[s].name = day /\ \A j \in DOMAIN sec : new[j].name = sec[j].name
      /\ \A j \in DOMAIN mid \ {s} : new[j].entry = sec[j].entry
  BY <1>1, <1>2, <1>4, <1>5 DEF Puts
<1>7. CASE e = 0
  <2>1. PICK f : f = Len(q) + 1
    OBVIOUS
  <2>2. Len(r) = Len(q) + 1 /\ r[f] = x /\ (\A i \in 1 .. Len(q) : r[i] = q[i]) /\ r \in Seq(LogEntry)
    BY <1>3, <1>6, <1>7, <2>1, Appended
  <2>3. DOMAIN r = 1 .. Len(q) + 1
    BY <2>2, LenProperties
  <2>4. f \in Nat \ {0} /\ DOMAIN r = DOMAIN q \cup {f} /\ f \in 1 .. Len(q) + 1 /\ f \notin DOMAIN q
    BY <1>3, <2>1, <2>3
  <2>5. \A g \in DOMAIN q : q[g].name # x.name
    BY <1>6, <1>7 DEF FoundAt
  <2>6. Wrote(sec, new, day, s, f, x)
    BY <1>2, <1>3, <1>4, <1>5, <1>6, <2>2, <2>4, <2>5 DEF Wrote
  <2>7. QED
    BY <1>4, <1>7, <2>1, <2>4, <2>6
<1>8. CASE e # 0
  <2>1. e \in DOMAIN q /\ q[e].name = x.name
    BY <1>6, <1>8 DEF FoundAt
  <2>2. r = [q EXCEPT ![e] = x]
    BY <1>6, <1>8
  <2>3. DOMAIN r = DOMAIN q /\ r[e] = x /\ \A g \in DOMAIN q \ {e} : r[g] = q[g]
    BY <1>3, <2>1, <2>2
  <2>4. e \in Nat \ {0} /\ DOMAIN r = DOMAIN q \cup {e} /\ e \in 1 .. Len(q) + 1
    BY <1>3, <2>1, <2>3
  <2>5. Wrote(sec, new, day, s, e, x)
    BY <1>2, <1>4, <1>5, <1>6, <2>1, <2>3, <2>4 DEF Wrote
  <2>6. s \in DOMAIN sec /\ mid = sec
    <3>1. q # <<>>
      <4>1. DOMAIN <<>> = {}
        OBVIOUS
      <4>2. QED
        BY <2>1, <4>1
    <3>2. s \in DOMAIN sec
      BY <1>4, <3>1 DEF Earlier
    <3>3. DOMAIN sec = 1 .. Len(sec) /\ Len(sec) \in Nat
      BY LenProperties
    <3>4. QED
      BY <3>2, <3>3 DEF WithSection
  <2>7. QED
    BY <1>4, <1>8, <2>4, <2>5, <2>6
<1>9. QED
  BY <1>7, <1>8

-----------------------------------------------------------------------------
(* The counters are tried one after the other.                                *)

\* What is written when the clock stands at a second.
MarkEntry == [name |-> <<Log!Now>>, value |-> Log!Line(TRUE)]
CountEntry(c) == [name |-> <<Log!Now, c>>, value |-> Log!Line(FALSE)]

LEMMA WrittenNow ==
  ASSUME LogAssumption, clock \in DOMAIN Days, written \in Nat
  PROVE  /\ Log!Today = <<Days[clock]>> /\ Log!Today \in Alone /\ Log!Now = Times[clock] /\ Log!Now \in LogPart
         /\ MarkEntry \in Bare /\ MarkEntry.name = <<Log!Now>> /\ Time(MarkEntry) = Log!Now
         /\ Says(MarkEntry) = [id |-> written + 1, mark |-> TRUE] /\ MarkEntry.value = Log!Line(TRUE)
         /\ \A c \in LogPart : /\ CountEntry(c) \in Counted /\ CountEntry(c).name = <<Log!Now, c>> /\ Time(CountEntry(c)) = Log!Now
                               /\ Says(CountEntry(c)) = [id |-> written + 1, mark |-> FALSE] /\ CountEntry(c).value = Log!Line(FALSE)
<1>1. Days[clock] \in LogPart /\ Times[clock] \in LogPart
  <2>1. DOMAIN Days = 1 .. Len(Days) /\ Days \in Seq(LogPart) /\ Times \in Seq(LogPart) /\ Len(Times) = Len(Days)
    BY LenProperties DEF LogAssumption
  <2>2. QED
    BY <2>1, ElementOfSeq
<1>2. Log!Today = <<Days[clock]>> /\ Log!Now = Times[clock] /\ Log!Now \in LogPart
  BY <1>1 DEF Log!Today, Log!Now
<1>3. Log!Today \in Alone
  BY <1>1, <1>2 DEF Alone
<1>4. PICK l : l = [id |-> written + 1, mark |-> TRUE]
  OBVIOUS
<1>5. PICK m : m = [id |-> written + 1, mark |-> FALSE]
  OBVIOUS
<1>6. l \in AnyLine /\ m \in OtherLine /\ Log!Line(TRUE) = <<l>> /\ Log!Line(FALSE) = <<m>>
  BY <1>4, <1>5 DEF AnyLine, OtherLine, Log!Line
<1>7. PICK n : n = Log!Now
  OBVIOUS
<1>8. n \in LogPart
  BY <1>2, <1>7
<1>9. /\ MarkEntry \in Bare /\ MarkEntry.name = <<n>> /\ Time(MarkEntry) = n
      /\ Says(MarkEntry) = l /\ MarkEntry.value = Log!Line(TRUE)
  <2>1. MarkEntry = [name |-> <<n>>, value |-> <<l>>]
    BY <1>6, <1>7 DEF MarkEntry
  <2>2. <<n>> \in Alone /\ <<l>> \in {<<k>> : k \in AnyLine}
    BY <1>6, <1>8 DEF Alone
  <2>3. Len(<<l>>) = 1 /\ <<l>>[1] = l
    OBVIOUS
  <2>4. QED
    BY <1>6, <2>1, <2>2, <2>3 DEF Bare, Time, Says
<1>10. ASSUME NEW c \in LogPart
       PROVE  /\ CountEntry(c) \in Counted /\ CountEntry(c).name = <<n, c>> /\ Time(CountEntry(c)) = n
              /\ Says(CountEntry(c)) = m /\ CountEntry(c).value = Log!Line(FALSE)
  <2>1. CountEntry(c) = [name |-> <<n, c>>, value |-> <<m>>]
    BY <1>6, <1>7 DEF CountEntry
  <2>2. <<n, c>> \in LogPart \X LogPart /\ <<m>> \in {<<k>> : k \in OtherLine}
    BY <1>6, <1>8
  <2>3. Len(<<m>>) = 1 /\ <<m>>[1] = m
    OBVIOUS
  <2>4. PICK x : x = CountEntry(c)
    OBVIOUS
  <2>5. PICK y, z : y = <<n, c>> /\ z = <<m>>
    OBVIOUS
  <2>6. y[1] = n /\ z[Len(z)] = m
    BY <2>3, <2>5
  <2>7. x = [name |-> y, value |-> z]
    BY <2>1, <2>4, <2>5
  <2>8. x \in Counted /\ Time(x) = n /\ Says(x) = m /\ x.name = y /\ x.value = z
    BY <2>2, <2>5, <2>6, <2>7 DEF Counted, Time, Says
  <2>9. QED
    BY <1>6, <2>4, <2>5, <2>8
<1>11. QED
  BY <1>2, <1>3, <1>4, <1>5, <1>7, <1>9, <1>10

\* An object with a section of the day, and whether a counter of this second is taken in it.
HasToday(o) == LogSound(o) /\ \E s \in DOMAIN o.sec : o.sec[s].name = Log!Today
InUse(sec, c) ==
  \E s \in DOMAIN sec : sec[s].name = Log!Today /\ \E e \in DOMAIN sec[s].entry : sec[s].entry[e].name = <<Log!Now, c>>

LEMMA TakenTells ==
  ASSUME LogAssumption, clock \in DOMAIN Days, written \in Nat, NEW o, HasToday(o), NEW c \in LogPart
  PROVE  /\ Log!FindEntry(o, Log!Today, <<Log!Now, c>>)[2] = 0 <=> ~InUse(o.sec, c)
         /\ LogSound(Log!FindEntry(o, Log!Today, <<Log!Now, c>>)[1])
         /\ Log!FindEntry(o, Log!Today, <<Log!Now, c>>)[1].sec = o.sec
<1>1. Log!Today \in Alone /\ Log!Now \in LogPart
  BY WrittenNow
<1>2. PICK n : n = <<Log!Now, c>>
  OBVIOUS
<1>3. n \in LogName
  <2>1. n \in LogPart \X LogPart
    BY <1>1, <1>2
  <2>2. QED
    BY <2>1 DEF LogName
<1>4. PICK s \in DOMAIN o.sec : o.sec[s].name = Log!Today
  BY DEF HasToday
<1>5. /\ LogSound(o) /\ OneOfEach(o.sec) /\ DOMAIN o.sec = 1 .. Len(o.sec) /\ Len(o.sec) \in Nat /\ o.sec \in Seq(LogSection)
  BY SectionsOf DEF HasToday, LogSound
<1>6. Log!FindSection(o, Log!Today)[2] = s
  <2>1. FoundAt(o.sec, Log!Today, Log!FindSection(o, Log!Today)[2])
    BY <1>1, <1>5, LogFindsSection
  <2>2. QED
    BY <1>4, <1>5, <2>1 DEF FoundAt, OneOfEach
<1>7. PICK q : q = o.sec[s].entry
  OBVIOUS
<1>8. q = EntriesAt(o.sec, s) /\ DOMAIN q = 1 .. Len(q) /\ Len(q) \in Nat
  BY <1>4, <1>5, <1>7, EntriesIn DEF EntriesAt
<1>9. PICK f, i : f = Log!FindEntry(o, Log!Today, n)[1] /\ i = Log!FindEntry(o, Log!Today, n)[2]
  OBVIOUS
<1>10. LogSound(f) /\ f.sec = o.sec /\ FoundAt(q, n, i)
  BY <1>1, <1>3, <1>5, <1>6, <1>8, <1>9, LogFindsEntry
<1>11. InUse(o.sec, c) <=> \E e \in DOMAIN q : q[e].name = n
  BY <1>2, <1>4, <1>5, <1>7 DEF InUse, OneOfEach
<1>12. QED
  BY <1>2, <1>8, <1>9, <1>10, <1>11 DEF FoundAt

LogTry(o, c) == IF o.done THEN o
                ELSE LET f == Log!FindEntry(o.obj, Log!Today, <<Log!Now, c>>)
                     IN IF f[2] # 0 THEN [o EXCEPT !.obj = f[1]]
                        ELSE [done |-> TRUE, obj |-> Log!WriteEntry(f[1], Log!Today, <<Log!Now, c>>, Log!Line(FALSE))]
LogTries == {p \in [done : BOOLEAN, obj : LogObject] : HasToday(p.obj)}

LEMMA TryTells ==
  ASSUME LogAssumption, clock \in DOMAIN Days, written \in Nat, NEW p \in LogTries, NEW c \in LogPart
  PROVE  /\ LogTry(p, c) \in LogTries
         /\ p.done => LogTry(p, c) = p
         /\ ~p.done /\ InUse(p.obj.sec, c) => ~LogTry(p, c).done /\ LogTry(p, c).obj.sec = p.obj.sec
         /\ ~p.done /\ ~InUse(p.obj.sec, c) =>
              /\ LogTry(p, c).done
              /\ \E s \in DOMAIN p.obj.sec : /\ p.obj.sec[s].name = Log!Today
                                             /\ Puts(p.obj.sec, LogTry(p, c).obj.sec, s, 0, CountEntry(c))
<1>1. p \in [done : BOOLEAN, obj : LogObject] /\ HasToday(p.obj)
  BY DEF LogTries
<1>2. PICK o : o = p.obj
  OBVIOUS
<1>3. PICK f, i : f = Log!FindEntry(o, Log!Today, <<Log!Now, c>>)[1] /\ i = Log!FindEntry(o, Log!Today, <<Log!Now, c>>)[2]
  OBVIOUS
<1>4. HasToday(o) /\ (i = 0 <=> ~InUse(o.sec, c)) /\ LogSound(f) /\ f.sec = o.sec
  <2>1. HasToday(o)
    BY <1>1, <1>2
  <2>2. QED
    BY <1>3, <2>1, TakenTells
<1>5. PICK w : w = Log!WriteEntry(f, Log!Today, <<Log!Now, c>>, Log!Line(FALSE))
  OBVIOUS
<1>6. LogTry(p, c) = IF p.done THEN p ELSE IF i # 0 THEN [p EXCEPT !.obj = f] ELSE [done |-> TRUE, obj |-> w]
  BY <1>2, <1>3, <1>5 DEF LogTry
<1>7. PICK s \in DOMAIN o.sec : o.sec[s].name = Log!Today
  BY <1>4 DEF HasToday
<1>8. CASE p.done
  BY <1>6, <1>8
<1>9. CASE ~p.done /\ i # 0
  <2>1. [p EXCEPT !.obj = f] = [done |-> FALSE, obj |-> f]
    <3>1. p.done = FALSE /\ p = [done |-> p.done, obj |-> p.obj]
      BY <1>1, <1>9
    <3>2. PICK d, v : d = p.done /\ v = p.obj
      OBVIOUS
    <3>3. p = [done |-> d, obj |-> v]
      BY <3>1, <3>2
    <3>4. [p EXCEPT !.obj = f] = [done |-> d, obj |-> f]
      BY <3>3
    <3>5. d = FALSE
      BY <3>1, <3>2
    <3>6. QED
      BY <3>4, <3>5
  <2>2. HasToday(f) /\ f \in LogObject
    BY <1>4, <1>7 DEF HasToday, LogSound
  <2>3. [done |-> FALSE, obj |-> f] \in LogTries
    BY <2>2 DEF LogTries
  <2>4. QED
    BY <1>2, <1>4, <1>6, <1>9, <2>1, <2>3
<1>10. CASE ~p.done /\ i = 0
  <2>1. PICK x : x = CountEntry(c)
    OBVIOUS
  <2>2. x \in LogEntry /\ x.name = <<Log!Now, c>> /\ x.value = Log!Line(FALSE)
    BY <2>1, WrittenNow DEF LogEntry
  <2>3. s \in DOMAIN f.sec /\ f.sec[s].name = Log!Today
    BY <1>4, <1>7
  <2>4. /\ LogSound(Log!WriteEntry(f, f.sec[s].name, x.name, x.value))
        /\ \E e \in Nat : Puts(f.sec, Log!WriteEntry(f, f.sec[s].name, x.name, x.value).sec, s, e, x)
    BY <1>4, <2>2, <2>3, LogWritesEntry
  <2>5. LogSound(w) /\ \E e \in Nat : Puts(o.sec, w.sec, s, e, x)
    BY <1>4, <1>5, <2>2, <2>3, <2>4
  <2>6. PICK e \in Nat : Puts(o.sec, w.sec, s, e, x)
    BY <2>5
  <2>7. e = 0
    <3>1. ~InUse(o.sec, c) /\ FoundAt(o.sec[s].entry, x.name, e)
      BY <1>4, <1>10, <2>6 DEF Puts
    <3>2. QED
      BY <1>7, <2>2, <3>1 DEF InUse, FoundAt
  <2>8. w \in LogObject /\ HasToday(w)
    <3>1. s \in DOMAIN w.sec /\ w.sec[s].name = Log!Today
      BY <1>7, <2>6 DEF Puts
    <3>2. QED
      BY <2>5, <3>1 DEF HasToday, LogSound
  <2>9. [done |-> TRUE, obj |-> w] \in LogTries
    BY <2>8 DEF LogTries
  <2>10. LogTry(p, c) = [done |-> TRUE, obj |-> w]
    BY <1>6, <1>10
  <2>11. QED
    BY <1>2, <1>4, <1>7, <1>10, <2>1, <2>6, <2>7, <2>9, <2>10
<1>11. QED
  BY <1>8, <1>9, <1>10

LEMMA CountedUnrolls ==
  ASSUME LogAssumption, clock \in DOMAIN Days, written \in Nat, NEW o, HasToday(o)
  PROVE  \E a : /\ a[0] = [done |-> FALSE, obj |-> o] /\ a[Len(Counters)].obj = Log!Counted(o)
                /\ \A j \in 1 .. Len(Counters) : a[j] = LogTry(a[j - 1], Counters[j])
<1> DEFINE T == [p \in LogTries \X LogPart |-> LogTry(p[1], p[2])]
           q == Counters
           D == DOMAIN q
           b == [done |-> FALSE, obj |-> o]
           Is(f) == f = [s \in SUBSET D |-> IF s = {} THEN b
                                            ELSE LET x == Max(s) IN LogTry(f[s \ {x}], q[x])]
           g == CHOOSE f : Is(f)
<1>1. Log!Counted(o) = g[D].obj
  BY DEF Log!Counted, Log!FoldLeft, Log!MapThenFoldSet, Log!Max, Max, LogTry
<1>2. T \in [LogTries \X LogPart -> LogTries]
  BY TryTells
<1>3. b \in LogTries /\ q \in Seq(LogPart)
  BY DEF LogTries, HasToday, LogSound, LogAssumption
<1> HIDE DEF T, b, q
<1>4. (\E f \in [SUBSET D -> LogTries] : FoldsBy(T, b, q, D, f)) /\ TopsIn(LogPart, q, D)
  BY <1>2, <1>3, FoldExists
<1>5. \E f : Is(f)
  <2>1. PICK f \in [SUBSET D -> LogTries] : FoldsBy(T, b, q, D, f)
    BY <1>4
  <2>2. \A s \in SUBSET D : s # {} => f[s \ {Max(s)}] \in LogTries /\ q[Max(s)] \in LogPart
    BY <1>4, <2>1 DEF TopsIn
  <2>3. \A s \in SUBSET D : f[s] = IF s = {} THEN b ELSE LogTry(f[s \ {Max(s)}], q[Max(s)])
    BY <2>1, <2>2 DEF FoldsBy, T
  <2>4. QED
    BY <2>3
<1>6. Is(g)
  BY <1>5
<1>7. D = 1 .. Len(q) /\ Len(q) \in Nat
  BY <1>3, LenProperties
<1> HIDE DEF g
<1>8. PICK a : Climbs(g, a, Len(q))
  BY <1>7, FoldClimbs
<1>9. a[0] = b /\ a[Len(q)].obj = Log!Counted(o)
  BY <1>1, <1>6, <1>7, <1>8 DEF Climbs
<1>10. ASSUME NEW j \in 1 .. Len(q) PROVE a[j] = LogTry(a[j - 1], q[j])
  <2>1. 1 .. j \in SUBSET D /\ ClimbsTo(j, g, a)
    BY <1>7, <1>8 DEF Climbs
  <2>2. 1 .. j # {} /\ Max(1 .. j) = j /\ (1 .. j) \ {j} = 1 .. j - 1
    BY <2>1 DEF ClimbsTo
  <2>3. \A s \in SUBSET D : s # {} => g[s] = LogTry(g[s \ {Max(s)}], q[Max(s)])
    BY <1>6
  <2>4. g[1 .. j] = LogTry(g[1 .. j - 1], q[j])
    BY <2>1, <2>2, <2>3
  <2>5. QED
    BY <2>1, <2>4 DEF ClimbsTo
<1>11. QED
  BY <1>9, <1>10 DEF b, q

\* The line is written under a counter of its own if there is one left, and dropped otherwise.
LEMMA CountedTells ==
  ASSUME LogAssumption, clock \in DOMAIN Days, written \in Nat, NEW o, HasToday(o)
  PROVE  /\ LogSound(Log!Counted(o))
         /\ ~Log!Room(o) => Log!Counted(o).sec = o.sec
         /\ Log!Room(o) => \E c \in LogPart, s \in DOMAIN o.sec :
              o.sec[s].name = Log!Today /\ Puts(o.sec, Log!Counted(o).sec, s, 0, CountEntry(c))
<1>1. PICK a : /\ a[0] = [done |-> FALSE, obj |-> o] /\ a[Len(Counters)].obj = Log!Counted(o)
               /\ \A j \in 1 .. Len(Counters) : a[j] = LogTry(a[j - 1], Counters[j])
  BY CountedUnrolls
<1>2. /\ Counters \in Seq(LogPart) /\ DOMAIN Counters = 1 .. Len(Counters) /\ Len(Counters) \in Nat
      /\ \A j \in 1 .. Len(Counters) : Counters[j] \in LogPart
  <2>1. Counters \in Seq(LogPart)
    BY DEF LogAssumption
  <2>2. QED
    BY <2>1, LenProperties, ElementOfSeq
<1> DEFINE Wrote1(p) == \E c \in LogPart, s \in DOMAIN o.sec :
                          /\ ~InUse(o.sec, c) /\ c \in Log!Range(Counters)
                          /\ o.sec[s].name = Log!Today /\ Puts(o.sec, p.obj.sec, s, 0, CountEntry(c))
           Tried(j) == IF a[j].done THEN Wrote1(a[j])
                       ELSE a[j].obj.sec = o.sec /\ \A k \in 1 .. j : InUse(o.sec, Counters[k])
           P == {j \in 0 .. Len(Counters) : a[j] \in LogTries /\ Tried(j)}
<1>3. 0 \in P
  <2>1. [done |-> FALSE, obj |-> o] \in LogTries
    BY DEF LogTries, HasToday, LogSound
  <2>2. a[0] \in LogTries /\ ~a[0].done /\ a[0].obj.sec = o.sec
    BY <1>1, <2>1
  <2>3. QED
    BY <1>2, <2>2
<1>4. ASSUME NEW j \in 1 .. Len(Counters), j - 1 \in P PROVE j \in P
  <2>1. PICK p, r, c : p = a[j - 1] /\ r = a[j] /\ c = Counters[j]
    OBVIOUS
  <2>2. p \in LogTries /\ r = LogTry(p, c) /\ c \in LogPart /\ c \in Log!Range(Counters)
    BY <1>1, <1>2, <1>4, <2>1 DEF Log!Range
  <2>3. /\ r \in LogTries /\ (p.done => r = p)
        /\ ~p.done /\ InUse(p.obj.sec, c) => ~r.done /\ r.obj.sec = p.obj.sec
        /\ ~p.done /\ ~InUse(p.obj.sec, c) =>
             /\ r.done
             /\ \E s \in DOMAIN p.obj.sec : p.obj.sec[s].name = Log!Today /\ Puts(p.obj.sec, r.obj.sec, s, 0, CountEntry(c))
    BY <2>2, TryTells
  <2>4. Tried(j - 1) /\ j - 1 \in Int
    BY <1>4
  <2>5. CASE p.done
    <3>1. Wrote1(p)
      BY <2>1, <2>4, <2>5
    <3>2. a[j] = p
      BY <2>1, <2>3, <2>5
    <3> HIDE DEF Wrote1
    <3>3. QED
      BY <2>1, <2>2, <2>5, <3>1, <3>2
  <2>6. CASE ~p.done /\ InUse(p.obj.sec, c)
    <3>1. p.obj.sec = o.sec /\ \A k \in 1 .. j - 1 : InUse(o.sec, Counters[k])
      BY <2>1, <2>4, <2>6
    <3>2. \A k \in 1 .. j : k \in 1 .. j - 1 \/ k = j
      BY <1>2
    <3>3. \A k \in 1 .. j : InUse(o.sec, Counters[k])
      BY <2>1, <2>6, <3>1, <3>2
    <3>4. ~a[j].done /\ a[j].obj.sec = o.sec /\ a[j] \in LogTries
      BY <2>1, <2>3, <2>6, <3>1
    <3>5. Tried(j)
      BY <3>3, <3>4
    <3> HIDE DEF Tried
    <3>6. QED
      BY <1>2, <3>4, <3>5
  <2>7. CASE ~p.done /\ ~InUse(p.obj.sec, c)
    <3>1. p.obj.sec = o.sec
      BY <2>1, <2>4, <2>7
    <3>2. r.done /\ Wrote1(r)
      BY <2>2, <2>3, <2>7, <3>1
    <3>3. a[j].done /\ Wrote1(a[j]) /\ a[j] \in LogTries
      <4> HIDE DEF Wrote1
      <4>1. QED
        BY <2>1, <2>3, <3>2
    <3> HIDE DEF Wrote1
    <3>4. QED
      BY <3>3
  <2>8. QED
    BY <2>5, <2>6, <2>7
<1> HIDE DEF P
<1>5. 0 .. Len(Counters) \subseteq P
  BY <1>2, <1>3, <1>4, UpTo
<1>6. PICK p : p = a[Len(Counters)]
  OBVIOUS
<1>7. p \in LogTries /\ Tried(Len(Counters)) /\ p.obj = Log!Counted(o)
  <2>1. Len(Counters) \in P
    BY <1>2, <1>5
  <2>2. QED
    BY <1>1, <1>6, <2>1 DEF P
<1>8. LogSound(p.obj)
  BY <1>7 DEF LogTries, HasToday
<1>9. Log!Room(o) <=> \E c \in Log!Range(Counters) : ~InUse(o.sec, c)
  <2>1. \A c \in Log!Range(Counters) : c \in LogPart /\ (Log!FindEntry(o, Log!Today, <<Log!Now, c>>)[2] = 0 <=> ~InUse(o.sec, c))
    <3>1. \A c \in Log!Range(Counters) : c \in LogPart
      BY <1>2 DEF Log!Range
    <3>2. QED
      BY <3>1, TakenTells
  <2>2. Log!Range(Counters) # {} => Len(Counters) > 0
    BY <1>2 DEF Log!Range
  <2>3. QED
    BY <2>1, <2>2 DEF Log!Room
<1>10. CASE p.done
  <2>1. Wrote1(p)
    BY <1>6, <1>7, <1>10
  <2>2. QED
    BY <1>7, <1>8, <1>9, <2>1
<1>11. CASE ~p.done
  <2>1. p.obj.sec = o.sec /\ \A k \in 1 .. Len(Counters) : InUse(o.sec, Counters[k])
    BY <1>6, <1>7, <1>11
  <2>2. \A c \in Log!Range(Counters) : InUse(o.sec, c)
    BY <1>2, <2>1 DEF Log!Range
  <2>3. QED
    BY <1>7, <1>8, <1>9, <2>1, <2>2
<1>12. QED
  BY <1>10, <1>11

-----------------------------------------------------------------------------
(* The file: a line of it as it is written, and read again.                   *)

LEMMA JoinedPair ==
  ASSUME NEW a, NEW b
  PROVE  <<a>> \o <<b>> = <<a, b>>
<1>1. <<a>> \in Seq({a, b}) /\ <<b>> \in Seq({a, b}) /\ <<a, b>> \in Seq({a, b})
  OBVIOUS
<1>2. PICK s, t, u : s = <<a>> /\ t = <<b>> /\ u = <<a, b>>
  OBVIOUS
<1>3. Len(s) = 1 /\ s[1] = a /\ Len(t) = 1 /\ t[1] = b /\ Len(u) = 2 /\ u[1] = a /\ u[2] = b
  BY <1>2
<1>4. PICK v : v = s \o t
  OBVIOUS
<1>5. v \in Seq({a, b}) /\ Len(v) = 2 /\ v[1] = s[1] /\ v[2] = t[1]
  BY <1>1, <1>2, <1>3, <1>4, ConcatProperties
<1>6. \A i \in 1 .. Len(v) : v[i] = u[i]
  BY <1>3, <1>5
<1>7. v = u
  BY <1>1, <1>2, <1>3, <1>5, <1>6, SeqEqual
<1>8. QED
  BY <1>2, <1>4, <1>7

LEMMA JoinedTriple ==
  ASSUME NEW a, NEW b, NEW c
  PROVE  <<a, b>> \o <<c>> = <<a, b, c>> /\ <<a>> \o <<b, c>> = <<a, b, c>>
<1>1. PICK S : S = {a, b, c}
  OBVIOUS
<1>2. PICK s, t, u, p, q :  s = <<a>> /\ t = <<b, c>> /\ p = <<a, b>> /\ q = <<c>> /\ u = <<a, b, c>>
  OBVIOUS
<1>3. s \in Seq(S) /\ t \in Seq(S) /\ u \in Seq(S) /\ p \in Seq(S) /\ q \in Seq(S)
  BY <1>1, <1>2
<1>4. /\ Len(s) = 1 /\ s[1] = a /\ Len(t) = 2 /\ t[1] = b /\ t[2] = c
      /\ Len(q) = 1 /\ q[1] = c /\ Len(p) = 2 /\ p[1] = a /\ p[2] = b
      /\ Len(u) = 3 /\ u[1] = a /\ u[2] = b /\ u[3] = c
  BY <1>2
<1>5. PICK v : v = s \o t
  OBVIOUS
<1>6. PICK w : w = p \o q
  OBVIOUS
<1>7. v \in Seq(S) /\ Len(v) = 3 /\ v[1] = s[1] /\ v[2] = t[1] /\ v[3] = t[2]
  <2>1. /\ v \in Seq(S) /\ Len(v) = Len(s) + Len(t)
        /\ \A i \in 1 .. Len(s) + Len(t) : v[i] = IF i <= Len(s) THEN s[i] ELSE t[i - Len(s)]
    BY <1>3, <1>5, ConcatProperties
  <2>2. QED
    BY <1>4, <2>1
<1>8. w \in Seq(S) /\ Len(w) = 3 /\ w[1] = p[1] /\ w[2] = p[2] /\ w[3] = q[1]
  <2>1. /\ w \in Seq(S) /\ Len(w) = Len(p) + Len(q)
        /\ \A i \in 1 .. Len(p) + Len(q) : w[i] = IF i <= Len(p) THEN p[i] ELSE q[i - Len(p)]
    BY <1>3, <1>6, ConcatProperties
  <2>2. QED
    BY <1>4, <2>1
<1>9. (\A i \in 1 .. Len(v) : v[i] = u[i]) /\ (\A i \in 1 .. Len(w) : w[i] = u[i])
  BY <1>4, <1>7, <1>8
<1>10. v = u /\ w = u
  BY <1>3, <1>4, <1>7, <1>8, <1>9, SeqEqual, ZenonT(60)
<1>11. QED
  BY <1>2, <1>5, <1>6, <1>10

EntryText == (LogPart \X AnyLine) \cup (LogPart \X LogPart \X OtherLine)
FromText(text) == [name |-> <<text[1]>>, value |-> Tail(text)]

\* Read again, a line has the time alone as its name; the counter goes before what it says.
LEMMA TextTells ==
  ASSUME NEW text \in EntryText
  PROVE  /\ FromText(text) \in Bare /\ FromText(text).name = <<text[1]>> /\ Time(FromText(text)) = text[1]
         /\ Says(FromText(text)) = text[Len(text)] /\ Len(text) > 1
<1>1. CASE text \in LogPart \X AnyLine
  <2>1. PICK t \in LogPart, l \in AnyLine : text = <<t, l>>
    BY <1>1
  <2>2. Tail(text) = <<l>> /\ text[1] = t /\ text[Len(text)] = l /\ Len(text) = 2
    BY <2>1
  <2>3. FromText(text) = [name |-> <<t>>, value |-> <<l>>]
    BY <2>2 DEF FromText
  <2>4. <<t>> \in Alone /\ <<l>> \in {<<k>> : k \in AnyLine}
    BY DEF Alone
  <2>5. <<t>>[1] = t /\ Len(<<l>>) = 1 /\ <<l>>[1] = l
    OBVIOUS
  <2>6. QED
    BY <2>2, <2>3, <2>4, <2>5 DEF Bare, Time, Says
<1>2. CASE text \in LogPart \X LogPart \X OtherLine
  <2>1. PICK t \in LogPart, c \in LogPart, l \in OtherLine : text = <<t, c, l>>
    BY <1>2
  <2>2. Tail(text) = <<c, l>> /\ text[1] = t /\ text[Len(text)] = l /\ Len(text) = 3
    BY <2>1
  <2>3. PICK v : v = <<c, l>>
    OBVIOUS
  <2>4. FromText(text) = [name |-> <<t>>, value |-> v]
    BY <2>2, <2>3 DEF FromText
  <2>5. <<t>> \in Alone /\ v \in LogPart \X OtherLine
    BY <2>3 DEF Alone
  <2>6. <<t>>[1] = t /\ Len(v) = 2 /\ v[2] = l
    BY <2>3
  <2>7. PICK n, x : n = <<t>> /\ x = [name |-> n, value |-> v]
    OBVIOUS
  <2>8. x.name = n /\ x.value = v /\ n[1] = t /\ v[Len(v)] = l /\ n \in Alone
    BY <2>5, <2>6, <2>7
  <2>9. x \in Bare
    BY <2>5, <2>7, <2>8 DEF Bare
  <2>10. FromText(text) = x
    BY <2>4, <2>7
  <2>11. Time(x) = t /\ Says(x) = l /\ Len(text) > 1
    BY <2>2, <2>8 DEF Time, Says
  <2>12. QED
    BY <2>2, <2>7, <2>8, <2>9, <2>10, <2>11
<1>3. QED
  BY <1>1, <1>2 DEF EntryText

LEMMA EntryTextTells ==
  ASSUME NEW x \in LogEntry
  PROVE  x.name \o x.value \in EntryText /\ (x.name \o x.value)[1] = Time(x)
         /\ (x.name \o x.value)[Len(x.name \o x.value)] = Says(x)
<1>1. CASE x \in Counted
  <2>1. PICK n \in LogPart \X LogPart, l \in OtherLine : x.name = n /\ x.value = <<l>>
    BY <1>1 DEF Counted
  <2>2. PICK t \in LogPart, c \in LogPart : n = <<t, c>>
    BY <2>1
  <2>3. <<t, c>> \o <<l>> = <<t, c, l>>
    BY JoinedTriple
  <2>4. Time(x) = t /\ Says(x) = l
    BY <2>1, <2>2 DEF Time, Says
  <2>5. PICK y : y = <<t, c, l>>
    OBVIOUS
  <2>6. y \in LogPart \X LogPart \X OtherLine /\ y[1] = t /\ y[Len(y)] = l
    BY <2>5
  <2>7. QED
    BY <2>1, <2>2, <2>3, <2>4, <2>5, <2>6 DEF EntryText
<1>2. CASE x \in Bare
  <2>1. PICK t \in LogPart : x.name = <<t>>
    BY <1>2 DEF Bare, Alone
  <2>2. Time(x) = t
    BY <2>1 DEF Time
  <2>3. CASE x.value \in {<<l>> : l \in AnyLine}
    <3>1. PICK l \in AnyLine : x.value = <<l>>
      BY <2>3
    <3>2. <<t>> \o <<l>> = <<t, l>> /\ Says(x) = l
      BY <3>1, JoinedPair DEF Says
    <3>3. PICK y : y = <<t, l>>
      OBVIOUS
    <3>4. y \in LogPart \X AnyLine /\ y[1] = t /\ y[Len(y)] = l
      BY <3>3
    <3>5. QED
      BY <2>1, <2>2, <3>1, <3>2, <3>3, <3>4 DEF EntryText
  <2>4. CASE x.value \in LogPart \X OtherLine
    <3>1. PICK c \in LogPart, l \in OtherLine : x.value = <<c, l>>
      BY <2>4
    <3>2. <<t>> \o <<c, l>> = <<t, c, l>> /\ Says(x) = l
      <4>1. Len(x.value) = 2 /\ x.value[2] = l
        BY <3>1
      <4>2. QED
        BY <4>1, JoinedTriple DEF Says
    <3>3. PICK y : y = <<t, c, l>>
      OBVIOUS
    <3>4. y \in LogPart \X LogPart \X OtherLine /\ y[1] = t /\ y[Len(y)] = l
      BY <3>3
    <3>5. QED
      BY <2>1, <2>2, <3>1, <3>2, <3>3, <3>4 DEF EntryText
  <2>5. QED
    BY <1>2, <2>3, <2>4 DEF Bare
<1>3. QED
  BY <1>1, <1>2 DEF LogEntry

\* The reading of a file: the object, and the section its lines belong to.
ReadType == {p \in [obj : LogObject, cur : Int] :
               LogSound(p.obj) /\ p.obj.lastent = -1 /\ (p.cur # -1 => p.cur \in DOMAIN p.obj.sec)}
ReadStep(p, line) == Log!LoadedLine(p, line, FALSE)
ReadStart == [obj |-> Log!ResetCache(Log!NewObject), cur |-> -1]
ReadAll(file) == Log!FoldLeft(LAMBDA p, line : Log!LoadedLine(p, line, FALSE), ReadStart, file)

LEMMA StartTells == ReadStart \in ReadType /\ ReadStart.obj.sec = <<>> /\ ReadStart.cur = -1
<1>1. PICK o : o = Log!ResetCache(Log!NewObject)
  OBVIOUS
<1>2. o = [sec |-> <<>>, lastsec |-> -1, strlast |-> Log!Empty, lastent |-> -1]
  BY <1>1 DEF Log!ResetCache, Log!NewObject
<1>3. <<>> \in Seq(LogSection) /\ DOMAIN <<>> = {} /\ -1 \in Int
  OBVIOUS
<1>4. o \in LogObject /\ o.sec = <<>> /\ o.lastsec = -1 /\ o.lastent = -1
  BY <1>2, <1>3 DEF LogObject
<1>5. LogSound(o)
  BY <1>3, <1>4 DEF LogSound, OneOfEach
<1>6. ReadStart = [obj |-> o, cur |-> -1]
  BY <1>1 DEF ReadStart
<1>7. QED
  BY <1>3, <1>4, <1>5, <1>6 DEF ReadType

LEMMA InReading ==
  ASSUME NEW o, NEW k, NEW x, NEW p, p = [obj |-> o, cur |-> k]
  PROVE  [p EXCEPT !.obj.sec[k].entry = Append(@, x)] = [obj |-> [o EXCEPT !.sec[k].entry = Append(@, x)], cur |-> k]
OBVIOUS

\* The sections with one more entry in section s.
Appends(sec, new, s, x) ==
  /\ new \in Seq(LogSection) /\ DOMAIN new = DOMAIN sec
  /\ \A j \in DOMAIN sec : new[j].name = sec[j].name /\ new[j].entry = IF j = s THEN Append(sec[s].entry, x) ELSE sec[j].entry

LEMMA ReadStepTells ==
  ASSUME LogAssumption, NEW p \in ReadType, NEW line \in LogText
  PROVE  /\ ReadStep(p, line) \in ReadType
         /\ line.section => WithSection(p.obj.sec, ReadStep(p, line).obj.sec, line.text, ReadStep(p, line).cur)
         /\ ~line.section /\ p.cur = -1 => ReadStep(p, line) = p
         /\ ~line.section /\ p.cur # -1 => /\ ReadStep(p, line).cur = p.cur
                                           /\ Appends(p.obj.sec, ReadStep(p, line).obj.sec, p.cur, FromText(line.text))
<1>1. PICK o, k : o = p.obj /\ k = p.cur
  OBVIOUS
<1>2. /\ p = [obj |-> o, cur |-> k] /\ o \in LogObject /\ k \in Int /\ LogSound(o) /\ o.lastent = -1
      /\ k # -1 => k \in DOMAIN o.sec
  BY <1>1 DEF ReadType
<1>3. CASE line.section
  <2>1. line.text \in Alone
    BY <1>3 DEF LogText
  <2>2. PICK a, s : a = Log!AddSection(o, line.text)[1] /\ s = Log!AddSection(o, line.text)[2]
    OBVIOUS
  <2>3. LogSound(a) /\ a.lastent = -1 /\ WithSection(o.sec, a.sec, line.text, s)
    BY <1>2, <2>1, <2>2, LogAddsSection
  <2>4. ReadStep(p, line) = [obj |-> a, cur |-> s]
    BY <1>1, <1>3, <2>2 DEF ReadStep, Log!LoadedLine
  <2>5. o.sec \in Seq(LogSection) /\ DOMAIN o.sec = 1 .. Len(o.sec) /\ Len(o.sec) \in Nat
    BY <1>2, SectionsOf
  <2>6. s \in Int /\ s \in DOMAIN a.sec
    <3>1. CASE a.sec = o.sec /\ s \in DOMAIN o.sec
      BY <2>5, <3>1
    <3>2. CASE a.sec = Append(o.sec, [name |-> line.text, entry |-> <<>>]) /\ s = Len(o.sec) + 1
      <4>1. a.sec \in Seq(LogSection) /\ DOMAIN a.sec = 1 .. Len(a.sec)
        <5>1. a \in LogObject
          BY <2>3 DEF LogSound
        <5>2. QED
          BY <5>1, SectionsOf
      <4>2. Len(a.sec) = Len(o.sec) + 1
        <5>1. PICK y : y = [name |-> line.text, entry |-> <<>>]
          OBVIOUS
        <5>2. y \in {y} /\ o.sec \in Seq(LogSection \cup {y})
          BY <2>5
        <5>3. QED
          BY <3>2, <5>1, <5>2, Appended
      <4>3. QED
        BY <2>5, <3>2, <4>1, <4>2
    <3>3. QED
      BY <2>3, <3>1, <3>2 DEF WithSection
  <2>7. a \in LogObject
    BY <2>3 DEF LogSound
  <2>8. [obj |-> a, cur |-> s] \in ReadType
    BY <2>3, <2>6, <2>7 DEF ReadType
  <2>9. QED
    BY <1>1, <1>3, <2>3, <2>4, <2>8
<1>4. CASE ~line.section
  <2>1. line.text \in EntryText
    BY <1>4 DEF LogText, EntryText
  <2>2. PICK x : x = FromText(line.text)
    OBVIOUS
  <2>3. x \in LogEntry /\ Len(line.text) > 1
    BY <2>1, <2>2, TextTells DEF LogEntry
  <2>4. Log!LoadedEntry(line.text, FALSE) = x
    BY <2>2 DEF Log!LoadedEntry, FromText
  <2>5. Len(line.text) # 1
    <3>1. \A n \in Int : n > 1 => n # 1
      OBVIOUS
    <3>2. Len(line.text) \in Int
      <4>1. Len(line.text) = 2 \/ Len(line.text) = 3
        BY <2>1 DEF EntryText
      <4>2. QED
        BY <4>1
    <3>3. QED
      BY <2>3, <3>1, <3>2
  <2>6. ReadStep(p, line) = IF k = -1 THEN p ELSE [p EXCEPT !.obj.sec[k].entry = Append(@, x)]
    BY <1>1, <1>4, <2>4, <2>5 DEF ReadStep, Log!LoadedLine
  <2>7. CASE k = -1
    BY <1>1, <1>4, <2>6, <2>7
  <2>8. CASE k # -1
    <3>1. k \in DOMAIN o.sec /\ o.sec \in Seq(LogSection)
      BY <1>2, <2>8, SectionsOf
    <3>2. PICK q : q = Append(o.sec[k].entry, x)
      OBVIOUS
    <3>3. q \in Seq(LogEntry)
      <4>1. o.sec[k].entry \in Seq(LogEntry)
        BY <3>1, EntriesIn
      <4>2. QED
        BY <2>3, <3>2, <4>1, Appended
    <3>4. PICK a : a = [o EXCEPT !.sec[k].entry = q]
      OBVIOUS
    <3>5. ReadStep(p, line) = [obj |-> a, cur |-> k]
      <4>1. [o EXCEPT !.sec[k].entry = Append(@, x)] = a
        BY <3>2, <3>4
      <4>2. [p EXCEPT !.obj.sec[k].entry = Append(@, x)] = [obj |-> [o EXCEPT !.sec[k].entry = Append(@, x)], cur |-> k]
        BY <1>2, InReading
      <4>3. QED
        BY <2>6, <2>8, <4>1, <4>2
    <3>6. /\ LogSound(a) /\ a.sec \in Seq(LogSection) /\ DOMAIN a.sec = DOMAIN o.sec
          /\ \A j \in DOMAIN o.sec : a.sec[j].name = o.sec[j].name /\ a.sec[j].entry = IF j = k THEN q ELSE o.sec[j].entry
      <4>1. LogSound(o) /\ k \in DOMAIN o.sec
        BY <1>2, <3>1
      <4>2. /\ LogSound([o EXCEPT !.sec[k].entry = q]) /\ [o EXCEPT !.sec[k].entry = q].sec \in Seq(LogSection)
            /\ DOMAIN [o EXCEPT !.sec[k].entry = q].sec = DOMAIN o.sec
            /\ \A j \in DOMAIN o.sec : /\ [o EXCEPT !.sec[k].entry = q].sec[j].name = o.sec[j].name
                                       /\ [o EXCEPT !.sec[k].entry = q].sec[j].entry = IF j = k THEN q ELSE o.sec[j].entry
        BY <3>3, <4>1, LogEntriesChanged
      <4>3. QED
        BY <3>4, <4>2
    <3>7. a.lastent = -1 /\ a \in LogObject
      <4>1. o \in [sec : Seq(LogSection), lastsec : Int, strlast : Alone \cup {Log!Empty}, lastent : Int]
        BY <1>2 DEF LogObject
      <4>2. a.lastent = o.lastent
        BY <3>4, <4>1
      <4>3. QED
        BY <1>2, <3>6, <4>2 DEF LogSound
    <3>8. Appends(o.sec, a.sec, k, x)
      BY <3>2, <3>6 DEF Appends
    <3>9. [obj |-> a, cur |-> k] \in ReadType
      BY <1>2, <3>1, <3>6, <3>7 DEF ReadType
    <3>10. QED
      BY <1>1, <1>4, <2>2, <2>8, <3>5, <3>8, <3>9
  <2>9. QED
    BY <2>7, <2>8
<1>5. QED
  BY <1>3, <1>4

\* Line by line.
LEMMA ReadUnrolls ==
  ASSUME LogAssumption, NEW q \in Seq(LogText)
  PROVE  \E a : /\ a[0] = ReadStart /\ a[Len(q)] = ReadAll(q)
                /\ \A j \in 1 .. Len(q) : a[j] = ReadStep(a[j - 1], q[j])
<1> DEFINE T == [p \in ReadType \X LogText |-> ReadStep(p[1], p[2])]
           D == DOMAIN q
           Is(f) == f = [s \in SUBSET D |-> IF s = {} THEN ReadStart
                                            ELSE LET x == Max(s) IN Log!LoadedLine(f[s \ {x}], q[x], FALSE)]
           g == CHOOSE f : Is(f)
<1>1. ReadAll(q) = g[D]
  BY DEF ReadAll, Log!FoldLeft, Log!MapThenFoldSet, Log!Max, Max
<1>2. T \in [ReadType \X LogText -> ReadType]
  BY ReadStepTells
<1>3. ReadStart \in ReadType
  BY StartTells
<1> HIDE DEF T
<1>4. (\E f \in [SUBSET D -> ReadType] : FoldsBy(T, ReadStart, q, D, f)) /\ TopsIn(LogText, q, D)
  BY <1>2, <1>3, FoldExists
<1>5. \E f : Is(f)
  <2>1. PICK f \in [SUBSET D -> ReadType] : FoldsBy(T, ReadStart, q, D, f)
    BY <1>4
  <2>2. \A s \in SUBSET D : s # {} => f[s \ {Max(s)}] \in ReadType /\ q[Max(s)] \in LogText
    BY <1>4, <2>1 DEF TopsIn
  <2>3. \A s \in SUBSET D : f[s] = IF s = {} THEN ReadStart ELSE Log!LoadedLine(f[s \ {Max(s)}], q[Max(s)], FALSE)
    BY <2>1, <2>2 DEF FoldsBy, T, ReadStep
  <2>4. QED
    BY <2>3
<1>6. Is(g)
  BY <1>5
<1>7. D = 1 .. Len(q) /\ Len(q) \in Nat
  BY LenProperties
<1> HIDE DEF g
<1>8. PICK a : Climbs(g, a, Len(q))
  BY <1>7, FoldClimbs
<1>9. a[0] = ReadStart /\ a[Len(q)] = ReadAll(q)
  BY <1>1, <1>6, <1>7, <1>8 DEF Climbs
<1>10. ASSUME NEW j \in 1 .. Len(q) PROVE a[j] = ReadStep(a[j - 1], q[j])
  <2>1. 1 .. j \in SUBSET D /\ ClimbsTo(j, g, a)
    BY <1>7, <1>8 DEF Climbs
  <2>2. 1 .. j # {} /\ Max(1 .. j) = j /\ (1 .. j) \ {j} = 1 .. j - 1
    BY <2>1 DEF ClimbsTo
  <2>3. \A s \in SUBSET D : s # {} => g[s] = Log!LoadedLine(g[s \ {Max(s)}], q[Max(s)], FALSE)
    BY <1>6
  <2>4. g[1 .. j] = Log!LoadedLine(g[1 .. j - 1], q[j], FALSE)
    BY <2>1, <2>2, <2>3
  <2>5. QED
    BY <2>1, <2>4 DEF ClimbsTo, ReadStep
<1>11. QED
  BY <1>9, <1>10

\* Nothing from no lines; one step more for a line more.
LEMMA ReadsMore ==
  ASSUME LogAssumption, NEW q \in Seq(LogText), NEW x \in LogText
  PROVE  /\ ReadAll(<<>>) = ReadStart /\ ReadAll(q) \in ReadType
         /\ ReadAll(Append(q, x)) = ReadStep(ReadAll(q), x)
<1>1. ReadAll(<<>>) = ReadStart
  <2>1. <<>> \in Seq(LogText) /\ Len(<<>>) = 0
    OBVIOUS
  <2>2. PICK a : a[0] = ReadStart /\ a[Len(<<>>)] = ReadAll(<<>>)
    BY <2>1, ReadUnrolls
  <2>3. QED
    BY <2>1, <2>2
<1>2. PICK a : /\ a[0] = ReadStart /\ a[Len(q)] = ReadAll(q)
               /\ \A j \in 1 .. Len(q) : a[j] = ReadStep(a[j - 1], q[j])
  BY ReadUnrolls
<1>3. PICK r : r = Append(q, x)
  OBVIOUS
<1>4. /\ r \in Seq(LogText) /\ Len(r) = Len(q) + 1 /\ Len(q) \in Nat /\ r[Len(q) + 1] = x
      /\ \A i \in 1 .. Len(q) : r[i] = q[i] /\ q[i] \in LogText
  BY <1>3, Appended, ElementOfSeq
<1>5. PICK b : /\ b[0] = ReadStart /\ b[Len(r)] = ReadAll(r)
               /\ \A j \in 1 .. Len(r) : b[j] = ReadStep(b[j - 1], r[j])
  BY <1>4, ReadUnrolls
<1> DEFINE P == {k \in 0 .. Len(q) : b[k] = a[k] /\ a[k] \in ReadType}
<1>6. 0 \in P
  BY <1>2, <1>4, <1>5, StartTells
<1>7. ASSUME NEW j \in 1 .. Len(q), j - 1 \in P PROVE j \in P
  <2>1. b[j - 1] = a[j - 1] /\ a[j - 1] \in ReadType
    BY <1>7
  <2>2. j \in 1 .. Len(r) /\ r[j] = q[j] /\ q[j] \in LogText
    BY <1>4
  <2>3. b[j] = a[j] /\ a[j] = ReadStep(a[j - 1], q[j])
    BY <1>2, <1>5, <2>1, <2>2
  <2>4. a[j] \in ReadType
    BY <2>1, <2>2, <2>3, ReadStepTells
  <2>5. QED
    BY <2>3, <2>4
<1> HIDE DEF P
<1>8. 0 .. Len(q) \subseteq P
  BY <1>4, <1>6, <1>7, UpTo
<1>9. b[Len(q)] = a[Len(q)] /\ a[Len(q)] \in ReadType
  BY <1>4, <1>8 DEF P
<1>10. b[Len(q) + 1] = ReadStep(b[Len(q)], x)
  <2>1. Len(q) + 1 \in 1 .. Len(r) /\ Len(q) + 1 - 1 = Len(q)
    BY <1>4
  <2>2. QED
    BY <1>4, <1>5, <2>1
<1>11. QED
  BY <1>1, <1>2, <1>3, <1>4, <1>5, <1>9, <1>10

\* What is read from any file can be trusted.
LEMMA ReadSound ==
  ASSUME LogAssumption, NEW q \in Seq(LogText)
  PROVE  LogRead(q) = ReadAll(q).obj /\ LogSound(LogRead(q)) /\ LogRead(q).lastent = -1
<1>1. LogRead(q) = ReadAll(q).obj
  BY DEF LogRead, ReadAll, ReadStart, Log!LoadFromString
<1>2. ReadAll(q) \in ReadType
  <2>1. PICK x : x \in LogPart
    <3>1. DOMAIN Days = 1 .. Len(Days) /\ Days \in Seq(LogPart) /\ Len(Days) \in Nat /\ (Len(Days) = 0 <=> Days = <<>>)
      BY LenProperties, EmptySeq DEF LogAssumption
    <3>2. 1 \in 1 .. Len(Days)
      BY <3>1 DEF LogAssumption
    <3>3. QED
      BY <3>1, <3>2, ElementOfSeq
  <2>2. [section |-> TRUE, text |-> <<x>>] \in LogText
    BY <2>1 DEF LogText, Alone
  <2>3. QED
    BY <2>2, ReadsMore
<1>3. QED
  BY <1>1, <1>2 DEF ReadType

\* What has been read when all the entries of the sections before s, and e of those of s, have.
Reread(x) == FromText(x.name \o x.value)
CutAt(sec, new, s, e) ==
  /\ DOMAIN new = 1 .. s /\ s \in 0 .. Len(sec) /\ e \in Nat
  /\ \A j \in 1 .. s : /\ new[j].name = sec[j].name
                       /\ DOMAIN new[j].entry = 1 .. (IF j = s THEN e ELSE Len(sec[j].entry))
                       /\ DOMAIN new[j].entry \subseteq DOMAIN sec[j].entry
                       /\ \A f \in DOMAIN new[j].entry : new[j].entry[f] = Reread(sec[j].entry[f])
ReadsTo(file, sec, s, e) ==
  /\ file \in Seq(LogText) /\ CutAt(sec, ReadAll(file).obj.sec, s, e)
  /\ ReadAll(file).cur = IF s = 0 THEN -1 ELSE s
\* So for every beginning of the file.
Traced(file, sec) ==
  /\ file \in Seq(LogText)
  /\ \A k \in 0 .. Len(file) : \E s, e \in Nat : ReadsTo(SubSeq(file, 1, k), sec, s, e)

LEMMA TracedMore ==
  ASSUME NEW sec, NEW file, Traced(file, sec), NEW x \in LogText, NEW s \in Nat, NEW e \in Nat, ReadsTo(Append(file, x), sec, s, e)
  PROVE  Traced(Append(file, x), sec)
<1>1. file \in Seq(LogText)
  BY DEF Traced
<1>2. PICK r : r = Append(file, x)
  OBVIOUS
<1>3. /\ r \in Seq(LogText) /\ Len(r) = Len(file) + 1 /\ Len(file) \in Nat
      /\ \A i \in 1 .. Len(file) : r[i] = file[i] /\ r[i] \in LogText
  BY <1>1, <1>2, Appended, ElementOfSeq
<1>4. ASSUME NEW k \in 0 .. Len(r) PROVE \E t, f \in Nat : ReadsTo(SubSeq(r, 1, k), sec, t, f)
  <2>1. CASE k = Len(r)
    <3>1. SubSeq(r, 1, k) = r
      <4>1. \A i \in 1 .. Len(r) : r[i] \in LogText
        BY <1>3, ElementOfSeq
      <4>2. PICK u : u = SubSeq(r, 1, k)
        OBVIOUS
      <4>3. u \in Seq(LogText) /\ Len(u) = Len(r) /\ \A i \in 1 .. Len(u) : u[i] = r[i]
        BY <1>3, <2>1, <4>1, <4>2, SubSeqProperties
      <4>4. QED
        BY <1>3, <4>2, <4>3, SeqEqual
    <3>2. QED
      BY <1>2, <3>1
  <2>2. CASE k # Len(r)
    <3>1. k \in 0 .. Len(file)
      BY <1>3, <2>2
    <3>2. PICK u, v : u = SubSeq(r, 1, k) /\ v = SubSeq(file, 1, k)
      OBVIOUS
    <3>3. \A i \in 1 .. k : r[i] \in LogText /\ file[i] = r[i]
      BY <1>3, <3>1
    <3>4. u \in Seq(LogText) /\ Len(u) = k /\ \A i \in 1 .. k : u[i] = r[i]
      BY <1>3, <3>1, <3>2, <3>3, SubSeqProperties
    <3>5. v \in Seq(LogText) /\ Len(v) = k /\ \A i \in 1 .. k : v[i] = file[i]
      BY <1>1, <1>3, <3>1, <3>2, <3>3, SubSeqProperties
    <3>6. u = v
      <4>1. \A i \in 1 .. Len(u) : u[i] = v[i]
        BY <3>3, <3>4, <3>5
      <4>2. QED
        BY <3>4, <3>5, <4>1, SeqEqual
    <3>7. QED
      BY <3>1, <3>2, <3>6 DEF Traced
  <2>3. QED
    BY <2>1, <2>2
<1>5. QED
  BY <1>2, <1>3, <1>4 DEF Traced

LEMMA NothingTraced ==
  ASSUME LogAssumption, NEW sec \in Seq(LogSection)
  PROVE  ReadsTo(<<>>, sec, 0, 0) /\ Traced(<<>>, sec)
<1>1. <<>> \in Seq(LogText) /\ Len(<<>>) = 0 /\ DOMAIN <<>> = 1 .. 0 /\ Len(sec) \in Nat /\ SubSeq(<<>>, 1, 0) = <<>>
  BY LenProperties
<1>2. ReadAll(<<>>) = ReadStart
  <2>1. PICK a : a[0] = ReadStart /\ a[Len(<<>>)] = ReadAll(<<>>)
    BY <1>1, ReadUnrolls
  <2>2. QED
    BY <1>1, <2>1
<1>3. CutAt(sec, ReadAll(<<>>).obj.sec, 0, 0) /\ ReadAll(<<>>).cur = -1
  BY <1>1, <1>2, StartTells DEF CutAt
<1>4. ReadsTo(<<>>, sec, 0, 0)
  BY <1>1, <1>3 DEF ReadsTo
<1>5. \A k \in 0 .. Len(<<>>) : k = 0
  BY <1>1
<1>6. QED
  BY <1>1, <1>4, <1>5 DEF Traced

\* All the entries of a section.
AllOf(sec, s) == IF s = 0 THEN 0 ELSE Len(sec[s].entry)

\* The line of a new section, or of an entry, is written and read.
LEMMA SectionRead ==
  ASSUME LogAssumption, NEW sec \in Seq(LogSection), OneOfEach(sec), NEW s \in Nat, s < Len(sec),
         NEW file, ReadsTo(file, sec, s, AllOf(sec, s))
  PROVE  /\ Log!SectionLine(sec[s + 1].name) \in LogText
         /\ ReadsTo(Append(file, Log!SectionLine(sec[s + 1].name)), sec, s + 1, 0)
<1>1. PICK line : line = Log!SectionLine(sec[s + 1].name)
  OBVIOUS
<1>2. /\ DOMAIN sec = 1 .. Len(sec) /\ Len(sec) \in Nat /\ s + 1 \in DOMAIN sec /\ sec[s + 1].name \in Alone
      /\ \A j \in DOMAIN sec : DOMAIN sec[j].entry = 1 .. Len(sec[j].entry) /\ Len(sec[j].entry) \in Nat
  <2>1. DOMAIN sec = 1 .. Len(sec) /\ Len(sec) \in Nat /\ s + 1 \in DOMAIN sec
    BY LenProperties
  <2>2. QED
    BY <2>1, EntriesIn
<1>3. line \in LogText /\ line.section /\ line.text = sec[s + 1].name
  BY <1>1, <1>2 DEF Log!SectionLine, LogText
<1>4. PICK p : p = ReadAll(file)
  OBVIOUS
<1>5. PICK old : old = p.obj.sec
  OBVIOUS
<1>6. file \in Seq(LogText) /\ CutAt(sec, old, s, AllOf(sec, s))
  BY <1>4, <1>5 DEF ReadsTo
<1>7. p \in ReadType /\ ReadAll(Append(file, line)) = ReadStep(p, line)
  BY <1>3, <1>4, <1>6, ReadsMore
<1>8. PICK r : r = ReadStep(p, line)
  OBVIOUS
<1>9. PICK new : new = r.obj.sec
  OBVIOUS
<1>10. WithSection(old, new, sec[s + 1].name, r.cur)
  BY <1>3, <1>5, <1>7, <1>8, <1>9, ReadStepTells
<1>11. DOMAIN old = 1 .. s /\ \A j \in 1 .. s : old[j].name = sec[j].name
  BY <1>6 DEF CutAt
<1>12. \A j \in 1 .. s : old[j].name # sec[s + 1].name
  <2>1. \A j \in 1 .. s : j \in DOMAIN sec /\ j # s + 1
    BY <1>2
  <2>2. QED
    BY <1>2, <1>11, <2>1 DEF OneOfEach
<1>13. old \in Seq(LogSection)
  <2>1. p.obj \in LogObject
    BY <1>7 DEF ReadType
  <2>2. QED
    BY <1>5, <2>1, SectionsOf
<1>14. PICK y : y = [name |-> sec[s + 1].name, entry |-> <<>>]
  OBVIOUS
<1>15. y \in LogSection /\ y.name = sec[s + 1].name /\ y.entry = <<>>
  <2>1. <<>> \in Seq(LogEntry)
    OBVIOUS
  <2>2. QED
    BY <1>2, <1>14, <2>1 DEF LogSection
<1>16. new = Append(old, y) /\ r.cur = Len(old) + 1
  BY <1>10, <1>11, <1>12, <1>14 DEF WithSection
<1>17. Len(old) = s
  BY <1>11, <1>13, LenProperties
<1>18. /\ new \in Seq(LogSection) /\ Len(new) = s + 1 /\ new[s + 1] = y
       /\ \A i \in 1 .. s : new[i] = old[i]
  BY <1>13, <1>15, <1>16, <1>17, Appended
<1>19. DOMAIN new = 1 .. s + 1
  BY <1>18, LenProperties
<1>20. CutAt(sec, new, s + 1, 0)
  <2>1. ASSUME NEW j \in 1 .. s + 1
        PROVE  /\ new[j].name = sec[j].name
               /\ DOMAIN new[j].entry = 1 .. (IF j = s + 1 THEN 0 ELSE Len(sec[j].entry))
               /\ DOMAIN new[j].entry \subseteq DOMAIN sec[j].entry
               /\ \A f \in DOMAIN new[j].entry : new[j].entry[f] = Reread(sec[j].entry[f])
    <3>1. CASE j = s + 1
      <4>1. DOMAIN <<>> = 1 .. 0 /\ 1 .. 0 = {}
        OBVIOUS
      <4>2. QED
        BY <1>15, <1>18, <3>1, <4>1
    <3>2. CASE j # s + 1
      <4>1. j \in 1 .. s /\ s # 0
        BY <3>2
      <4>2. new[j] = old[j]
        BY <1>18, <4>1
      <4>3. /\ old[j].name = sec[j].name
            /\ DOMAIN old[j].entry = 1 .. (IF j = s THEN AllOf(sec, s) ELSE Len(sec[j].entry))
            /\ DOMAIN old[j].entry \subseteq DOMAIN sec[j].entry
            /\ \A f \in DOMAIN old[j].entry : old[j].entry[f] = Reread(sec[j].entry[f])
        BY <1>6, <4>1 DEF CutAt
      <4>4. j = s => AllOf(sec, s) = Len(sec[j].entry)
        BY <4>1 DEF AllOf
      <4>5. QED
        BY <3>2, <4>2, <4>3, <4>4
    <3>3. QED
      BY <3>1, <3>2
  <2>2. s + 1 \in 0 .. Len(sec)
    BY <1>2
  <2>3. QED
    BY <1>19, <2>1, <2>2 DEF CutAt
<1>21. Append(file, line) \in Seq(LogText)
  BY <1>3, <1>6, Appended
<1>22. s + 1 # 0 /\ r.cur = s + 1
  BY <1>16, <1>17
<1>23. ReadsTo(Append(file, line), sec, s + 1, 0)
  BY <1>7, <1>8, <1>9, <1>20, <1>21, <1>22 DEF ReadsTo
<1>24. QED
  BY <1>1, <1>3, <1>23

LEMMA EntryRead ==
  ASSUME LogAssumption, NEW sec \in Seq(LogSection), NEW s \in DOMAIN sec, NEW e \in Nat, e < Len(sec[s].entry),
         NEW file, ReadsTo(file, sec, s, e)
  PROVE  /\ Log!EntryLine(sec[s].entry[e + 1], FALSE) \in LogText
         /\ ReadsTo(Append(file, Log!EntryLine(sec[s].entry[e + 1], FALSE)), sec, s, e + 1)
<1>1. PICK x : x = sec[s].entry[e + 1]
  OBVIOUS
<1>2. PICK line : line = Log!EntryLine(x, FALSE)
  OBVIOUS
<1>3. /\ DOMAIN sec = 1 .. Len(sec) /\ Len(sec) \in Nat /\ s # 0 /\ s # -1
      /\ DOMAIN sec[s].entry = 1 .. Len(sec[s].entry) /\ Len(sec[s].entry) \in Nat /\ e + 1 \in DOMAIN sec[s].entry
      /\ x \in LogEntry
  <2>1. DOMAIN sec = 1 .. Len(sec) /\ Len(sec) \in Nat
    BY LenProperties
  <2>2. /\ DOMAIN sec[s].entry = 1 .. Len(sec[s].entry) /\ Len(sec[s].entry) \in Nat
        /\ \A f \in DOMAIN sec[s].entry : sec[s].entry[f] \in LogEntry
    BY EntriesIn
  <2>3. e + 1 \in DOMAIN sec[s].entry
    BY <2>2
  <2>4. QED
    BY <1>1, <2>1, <2>2, <2>3
<1>4. line.text = x.name \o x.value /\ ~line.section /\ line = [section |-> FALSE, text |-> x.name \o x.value]
  BY <1>2 DEF Log!EntryLine
<1>5. line \in LogText /\ FromText(line.text) = Reread(x) /\ Reread(x) \in LogEntry
  <2>1. x.name \o x.value \in EntryText
    BY <1>3, EntryTextTells
  <2>2. line \in LogText
    BY <1>4, <2>1 DEF LogText, EntryText
  <2>3. Reread(x) \in LogEntry
    BY <2>1, TextTells DEF Reread, LogEntry
  <2>4. QED
    BY <1>4, <2>2, <2>3 DEF Reread
<1>6. PICK p : p = ReadAll(file)
  OBVIOUS
<1>7. PICK old : old = p.obj.sec
  OBVIOUS
<1>8. file \in Seq(LogText) /\ CutAt(sec, old, s, e) /\ p.cur = s
  BY <1>3, <1>6, <1>7 DEF ReadsTo
<1>9. p \in ReadType /\ ReadAll(Append(file, line)) = ReadStep(p, line)
  BY <1>5, <1>6, <1>8, ReadsMore
<1>10. PICK r : r = ReadStep(p, line)
  OBVIOUS
<1>11. PICK new : new = r.obj.sec
  OBVIOUS
<1>12. r.cur = s /\ Appends(old, new, s, Reread(x))
  BY <1>3, <1>4, <1>5, <1>7, <1>8, <1>9, <1>10, <1>11, ReadStepTells
<1>13. DOMAIN old = 1 .. s /\ DOMAIN new = 1 .. s /\ old \in Seq(LogSection)
  <2>1. p.obj \in LogObject
    BY <1>9 DEF ReadType
  <2>2. old \in Seq(LogSection)
    BY <1>7, <2>1, SectionsOf
  <2>3. QED
    BY <1>8, <1>12, <2>2 DEF CutAt, Appends
<1>14. CutAt(sec, new, s, e + 1)
  <2>1. ASSUME NEW j \in 1 .. s
        PROVE  /\ new[j].name = sec[j].name
               /\ DOMAIN new[j].entry = 1 .. (IF j = s THEN e + 1 ELSE Len(sec[j].entry))
               /\ DOMAIN new[j].entry \subseteq DOMAIN sec[j].entry
               /\ \A f \in DOMAIN new[j].entry : new[j].entry[f] = Reread(sec[j].entry[f])
    <3>1. /\ old[j].name = sec[j].name
          /\ DOMAIN old[j].entry = 1 .. (IF j = s THEN e ELSE Len(sec[j].entry))
          /\ DOMAIN old[j].entry \subseteq DOMAIN sec[j].entry
          /\ \A f \in DOMAIN old[j].entry : old[j].entry[f] = Reread(sec[j].entry[f])
      BY <1>8 DEF CutAt
    <3>2. new[j].name = old[j].name /\ new[j].entry = IF j = s THEN Append(old[s].entry, Reread(x)) ELSE old[j].entry
      BY <1>12, <1>13 DEF Appends
    <3>3. CASE j # s
      BY <3>1, <3>2, <3>3
    <3>4. CASE j = s
      <4>1. PICK q, n : q = old[s].entry /\ n = new[s].entry
        OBVIOUS
      <4>2. q \in Seq(LogEntry) /\ DOMAIN q = 1 .. e /\ n = Append(q, Reread(x))
        BY <1>13, <3>1, <3>2, <3>4, <4>1, EntriesIn
      <4>3. Len(q) = e
        BY <4>2, LenProperties
      <4>4. n \in Seq(LogEntry) /\ Len(n) = e + 1 /\ n[e + 1] = Reread(x) /\ \A i \in 1 .. e : n[i] = q[i]
        BY <1>5, <4>2, <4>3, Appended
      <4>5. DOMAIN n = 1 .. e + 1
        BY <4>4, LenProperties
      <4>6. \A i \in 1 .. e + 1 : i \in 1 .. e \/ i = e + 1
        OBVIOUS
      <4>7. \A f \in 1 .. e + 1 : n[f] = Reread(sec[s].entry[f])
        BY <1>1, <3>1, <3>4, <4>1, <4>2, <4>4, <4>6
      <4>8. 1 .. e + 1 \subseteq DOMAIN sec[s].entry
        BY <1>3
      <4>9. QED
        BY <3>1, <3>2, <3>4, <4>1, <4>5, <4>7, <4>8
    <3>5. QED
      BY <3>3, <3>4
  <2>2. s \in 0 .. Len(sec)
    BY <1>3
  <2>3. QED
    BY <1>13, <2>1, <2>2 DEF CutAt
<1>15. Append(file, line) \in Seq(LogText)
  BY <1>5, <1>8, Appended
<1>16. ReadsTo(Append(file, line), sec, s, e + 1)
  BY <1>3, <1>9, <1>10, <1>11, <1>12, <1>14, <1>15 DEF ReadsTo
<1>17. QED
  BY <1>1, <1>2, <1>5, <1>16

-----------------------------------------------------------------------------
(* What is saved is read again, with the time alone as the name of a line.    *)

SaveLine(lines, x) == IF x.name = Log!Empty THEN lines ELSE Append(lines, Log!EntryLine(x, FALSE))
SaveSection(lines, x) ==
  IF x.name = Log!Empty THEN lines ELSE Log!SavedEntries(Append(lines, Log!SectionLine(x.name)), x.entry, FALSE)

LEMMA SaveLineTyped ==
  ASSUME NEW lines \in Seq(LogText), NEW x \in LogEntry
  PROVE  SaveLine(lines, x) \in Seq(LogText) /\ SaveLine(lines, x) = Append(lines, Log!EntryLine(x, FALSE))
<1>1. x.name \in LogName /\ x.name # Log!Empty
  BY EntryParts, NamesFull
<1>2. Log!EntryLine(x, FALSE) \in LogText
  <2>1. x.name \o x.value \in EntryText
    BY EntryTextTells
  <2>2. QED
    BY <2>1 DEF LogText, EntryText, Log!EntryLine
<1>3. QED
  BY <1>1, <1>2, Appended DEF SaveLine

LEMMA LinesUnroll ==
  ASSUME NEW file \in Seq(LogText), NEW q \in Seq(LogEntry)
  PROVE  \E a : /\ a[0] = file /\ a[Len(q)] = Log!SavedEntries(file, q, FALSE)
                /\ \A j \in 1 .. Len(q) : a[j] = SaveLine(a[j - 1], q[j])
<1> DEFINE T == [p \in Seq(LogText) \X LogEntry |-> SaveLine(p[1], p[2])]
           D == DOMAIN q
           Is(f) == f = [s \in SUBSET D |-> IF s = {} THEN file
                                            ELSE LET x == Max(s) IN SaveLine(f[s \ {x}], q[x])]
           g == CHOOSE f : Is(f)
<1>1. Log!SavedEntries(file, q, FALSE) = g[D]
  BY DEF Log!SavedEntries, SaveLine, Log!FoldLeft, Log!MapThenFoldSet, Log!Max, Max
<1>2. T \in [Seq(LogText) \X LogEntry -> Seq(LogText)]
  BY SaveLineTyped
<1> HIDE DEF T
<1>3. (\E f \in [SUBSET D -> Seq(LogText)] : FoldsBy(T, file, q, D, f)) /\ TopsIn(LogEntry, q, D)
  BY <1>2, FoldExists
<1>4. \E f : Is(f)
  <2>1. PICK f \in [SUBSET D -> Seq(LogText)] : FoldsBy(T, file, q, D, f)
    BY <1>3
  <2>2. \A s \in SUBSET D : s # {} => f[s \ {Max(s)}] \in Seq(LogText) /\ q[Max(s)] \in LogEntry
    BY <1>3, <2>1 DEF TopsIn
  <2>3. \A s \in SUBSET D : f[s] = IF s = {} THEN file ELSE SaveLine(f[s \ {Max(s)}], q[Max(s)])
    BY <2>1, <2>2 DEF FoldsBy, T
  <2>4. QED
    BY <2>3
<1>5. Is(g)
  BY <1>4
<1>6. D = 1 .. Len(q) /\ Len(q) \in Nat
  BY LenProperties
<1> HIDE DEF g
<1>7. PICK a : Climbs(g, a, Len(q))
  BY <1>6, FoldClimbs
<1>8. a[0] = file /\ a[Len(q)] = Log!SavedEntries(file, q, FALSE)
  BY <1>1, <1>5, <1>6, <1>7 DEF Climbs
<1>9. ASSUME NEW j \in 1 .. Len(q) PROVE a[j] = SaveLine(a[j - 1], q[j])
  <2>1. 1 .. j \in SUBSET D /\ ClimbsTo(j, g, a)
    BY <1>6, <1>7 DEF Climbs
  <2>2. 1 .. j # {} /\ Max(1 .. j) = j /\ (1 .. j) \ {j} = 1 .. j - 1
    BY <2>1 DEF ClimbsTo
  <2>3. \A s \in SUBSET D : s # {} => g[s] = SaveLine(g[s \ {Max(s)}], q[Max(s)])
    BY <1>5
  <2>4. g[1 .. j] = SaveLine(g[1 .. j - 1], q[j])
    BY <2>1, <2>2, <2>3
  <2>5. QED
    BY <2>1, <2>4 DEF ClimbsTo
<1>10. QED
  BY <1>8, <1>9

LEMMA SaveSectionTyped ==
  ASSUME NEW lines \in Seq(LogText), NEW x \in LogSection
  PROVE  /\ SaveSection(lines, x) = Log!SavedEntries(Append(lines, Log!SectionLine(x.name)), x.entry, FALSE)
         /\ SaveSection(lines, x) \in Seq(LogText)
<1>1. x.name \in Alone /\ x.name # Log!Empty /\ x.entry \in Seq(LogEntry)
  BY NamesFull DEF LogSection, LogName
<1>2. Log!SectionLine(x.name) \in LogText
  BY <1>1 DEF LogText, Log!SectionLine
<1>3. PICK file, q : file = Append(lines, Log!SectionLine(x.name)) /\ q = x.entry
  OBVIOUS
<1>4. file \in Seq(LogText) /\ q \in Seq(LogEntry)
  BY <1>1, <1>2, <1>3, Appended
<1>5. PICK a : /\ a[0] = file /\ a[Len(q)] = Log!SavedEntries(file, q, FALSE)
               /\ \A j \in 1 .. Len(q) : a[j] = SaveLine(a[j - 1], q[j])
  BY <1>4, LinesUnroll
<1> DEFINE P == {j \in 0 .. Len(q) : a[j] \in Seq(LogText)}
<1>6. Len(q) \in Nat /\ \A j \in 1 .. Len(q) : q[j] \in LogEntry
  BY <1>4, LenProperties, ElementOfSeq
<1>7. 0 \in P
  BY <1>4, <1>5, <1>6
<1>8. ASSUME NEW j \in 1 .. Len(q), j - 1 \in P PROVE j \in P
  <2>1. a[j - 1] \in Seq(LogText) /\ q[j] \in LogEntry
    BY <1>6, <1>8
  <2>2. a[j] \in Seq(LogText)
    BY <1>5, <2>1, SaveLineTyped
  <2>3. QED
    BY <1>6, <2>2
<1> HIDE DEF P
<1>9. 0 .. Len(q) \subseteq P
  BY <1>6, <1>7, <1>8, UpTo
<1>10. Len(q) \in P
  BY <1>6, <1>9
<1>11. Log!SavedEntries(file, q, FALSE) \in Seq(LogText)
  BY <1>5, <1>10 DEF P
<1>12. SaveSection(lines, x) = Log!SavedEntries(file, q, FALSE)
  BY <1>1, <1>3 DEF SaveSection
<1>13. QED
  BY <1>3, <1>11, <1>12

LEMMA SectionsUnroll ==
  ASSUME NEW o \in LogObject
  PROVE  \E a : /\ a[0] = <<>> /\ a[Len(o.sec)] = Log!SaveToString(o, FALSE)
                /\ \A j \in 1 .. Len(o.sec) : a[j] = SaveSection(a[j - 1], o.sec[j])
<1> DEFINE q == o.sec
           T == [p \in Seq(LogText) \X LogSection |-> SaveSection(p[1], p[2])]
           D == DOMAIN q
           Is(f) == f = [s \in SUBSET D |-> IF s = {} THEN <<>>
                                            ELSE LET x == Max(s) IN SaveSection(f[s \ {x}], q[x])]
           g == CHOOSE f : Is(f)
<1>1. Log!SaveToString(o, FALSE) = g[D]
  BY DEF Log!SaveToString, SaveSection, Log!FoldLeft, Log!MapThenFoldSet, Log!Max, Max
<1>2. T \in [Seq(LogText) \X LogSection -> Seq(LogText)]
  BY SaveSectionTyped
<1>3. q \in Seq(LogSection) /\ <<>> \in Seq(LogText)
  BY SectionsOf
<1> HIDE DEF T, q
<1>4. (\E f \in [SUBSET D -> Seq(LogText)] : FoldsBy(T, <<>>, q, D, f)) /\ TopsIn(LogSection, q, D)
  BY <1>2, <1>3, FoldExists
<1>5. \E f : Is(f)
  <2>1. PICK f \in [SUBSET D -> Seq(LogText)] : FoldsBy(T, <<>>, q, D, f)
    BY <1>4
  <2>2. \A s \in SUBSET D : s # {} => f[s \ {Max(s)}] \in Seq(LogText) /\ q[Max(s)] \in LogSection
    BY <1>4, <2>1 DEF TopsIn
  <2>3. \A s \in SUBSET D : f[s] = IF s = {} THEN <<>> ELSE SaveSection(f[s \ {Max(s)}], q[Max(s)])
    BY <2>1, <2>2 DEF FoldsBy, T
  <2>4. QED
    BY <2>3
<1>6. Is(g)
  BY <1>5
<1>7. D = 1 .. Len(q) /\ Len(q) \in Nat
  BY <1>3, LenProperties
<1> HIDE DEF g
<1>8. PICK a : Climbs(g, a, Len(q))
  BY <1>7, FoldClimbs
<1>9. a[0] = <<>> /\ a[Len(q)] = Log!SaveToString(o, FALSE)
  BY <1>1, <1>6, <1>7, <1>8 DEF Climbs
<1>10. ASSUME NEW j \in 1 .. Len(q) PROVE a[j] = SaveSection(a[j - 1], q[j])
  <2>1. 1 .. j \in SUBSET D /\ ClimbsTo(j, g, a)
    BY <1>7, <1>8 DEF Climbs
  <2>2. 1 .. j # {} /\ Max(1 .. j) = j /\ (1 .. j) \ {j} = 1 .. j - 1
    BY <2>1 DEF ClimbsTo
  <2>3. \A s \in SUBSET D : s # {} => g[s] = SaveSection(g[s \ {Max(s)}], q[Max(s)])
    BY <1>6
  <2>4. g[1 .. j] = SaveSection(g[1 .. j - 1], q[j])
    BY <2>1, <2>2, <2>3
  <2>5. QED
    BY <2>1, <2>4 DEF ClimbsTo
<1>11. QED
  BY <1>9, <1>10 DEF q

\* A section with its entries.
LEMMA SectionSaved ==
  ASSUME LogAssumption, NEW sec \in Seq(LogSection), OneOfEach(sec), NEW s \in Nat, s < Len(sec),
         NEW file, ReadsTo(file, sec, s, AllOf(sec, s)), Traced(file, sec)
  PROVE  /\ ReadsTo(SaveSection(file, sec[s + 1]), sec, s + 1, AllOf(sec, s + 1))
         /\ Traced(SaveSection(file, sec[s + 1]), sec)
<1>1. s + 1 \in DOMAIN sec /\ s + 1 \in Nat /\ s + 1 # 0
  BY LenProperties
<1>2. PICK q : q = sec[s + 1].entry
  OBVIOUS
<1>3. /\ sec[s + 1] \in LogSection /\ q \in Seq(LogEntry) /\ Len(q) \in Nat
      /\ \A j \in 1 .. Len(q) : q[j] \in LogEntry
  BY <1>1, <1>2, EntriesIn
<1>4. PICK start : start = Append(file, Log!SectionLine(sec[s + 1].name))
  OBVIOUS
<1>5. ReadsTo(start, sec, s + 1, 0) /\ Traced(start, sec) /\ start \in Seq(LogText)
  <2>1. Log!SectionLine(sec[s + 1].name) \in LogText /\ ReadsTo(start, sec, s + 1, 0)
    BY <1>4, SectionRead
  <2>2. Traced(start, sec)
    BY <1>1, <1>4, <2>1, TracedMore
  <2>3. QED
    BY <2>1, <2>2 DEF Traced
<1>6. PICK a : /\ a[0] = start /\ a[Len(q)] = Log!SavedEntries(start, q, FALSE)
               /\ \A j \in 1 .. Len(q) : a[j] = SaveLine(a[j - 1], q[j])
  BY <1>3, <1>5, LinesUnroll
<1> DEFINE P == {j \in 0 .. Len(q) : ReadsTo(a[j], sec, s + 1, j) /\ Traced(a[j], sec)}
<1>7. 0 \in P
  BY <1>3, <1>5, <1>6
<1>8. ASSUME NEW j \in 1 .. Len(q), j - 1 \in P PROVE j \in P
  <2>1. PICK e \in Nat : e = j - 1
    OBVIOUS
  <2>2. e + 1 = j /\ e < Len(q)
    BY <1>3, <2>1
  <2>3. ReadsTo(a[e], sec, s + 1, e) /\ Traced(a[e], sec) /\ a[e] \in Seq(LogText)
    BY <1>8, <2>1 DEF Traced
  <2>4. PICK line : line = Log!EntryLine(q[j], FALSE)
    OBVIOUS
  <2>5. a[j] = Append(a[e], line)
    BY <1>3, <1>6, <2>1, <2>3, <2>4, SaveLineTyped
  <2>6. line \in LogText /\ ReadsTo(Append(a[e], line), sec, s + 1, e + 1)
    BY <1>1, <1>2, <2>2, <2>3, <2>4, EntryRead
  <2>7. Traced(Append(a[e], line), sec)
    BY <1>1, <2>3, <2>6, TracedMore
  <2>8. ReadsTo(a[j], sec, s + 1, j) /\ Traced(a[j], sec)
    BY <2>2, <2>5, <2>6, <2>7
  <2>9. QED
    BY <1>3, <2>8
<1> HIDE DEF P
<1>9. 0 .. Len(q) \subseteq P
  BY <1>3, <1>7, <1>8, UpTo
<1>10. ReadsTo(a[Len(q)], sec, s + 1, Len(q)) /\ Traced(a[Len(q)], sec)
  <2>1. Len(q) \in P
    BY <1>3, <1>9
  <2>2. QED
    BY <2>1 DEF P
<1>11. SaveSection(file, sec[s + 1]) = a[Len(q)]
  <2>1. file \in Seq(LogText)
    BY DEF Traced
  <2>2. QED
    BY <1>2, <1>3, <1>4, <1>6, <2>1, SaveSectionTyped
<1>12. AllOf(sec, s + 1) = Len(q)
  BY <1>1, <1>2 DEF AllOf
<1>13. QED
  BY <1>10, <1>11, <1>12

LEMMA SavedReads ==
  ASSUME LogAssumption, NEW o, LogSound(o)
  PROVE  /\ ReadsTo(Log!SaveToString(o, FALSE), o.sec, Len(o.sec), AllOf(o.sec, Len(o.sec)))
         /\ Traced(Log!SaveToString(o, FALSE), o.sec)
<1>1. o \in LogObject /\ o.sec \in Seq(LogSection) /\ Len(o.sec) \in Nat /\ OneOfEach(o.sec)
  BY SectionsOf DEF LogSound
<1>2. PICK sec : sec = o.sec
  OBVIOUS
<1>3. PICK a : /\ a[0] = <<>> /\ a[Len(sec)] = Log!SaveToString(o, FALSE)
               /\ \A j \in 1 .. Len(sec) : a[j] = SaveSection(a[j - 1], sec[j])
  BY <1>1, <1>2, SectionsUnroll
<1> DEFINE P == {j \in 0 .. Len(sec) : ReadsTo(a[j], sec, j, AllOf(sec, j)) /\ Traced(a[j], sec)}
<1>4. 0 \in P
  <2>1. ReadsTo(<<>>, sec, 0, 0) /\ Traced(<<>>, sec)
    BY <1>1, <1>2, NothingTraced
  <2>2. AllOf(sec, 0) = 0
    BY DEF AllOf
  <2>3. QED
    BY <1>1, <1>2, <1>3, <2>1, <2>2
<1>5. ASSUME NEW j \in 1 .. Len(sec), j - 1 \in P PROVE j \in P
  <2>1. PICK s \in Nat : s = j - 1
    OBVIOUS
  <2>2. s + 1 = j /\ s < Len(sec)
    BY <1>1, <1>2, <2>1
  <2>3. ReadsTo(a[s], sec, s, AllOf(sec, s)) /\ Traced(a[s], sec)
    BY <1>5, <2>1
  <2>4. /\ ReadsTo(SaveSection(a[s], sec[s + 1]), sec, s + 1, AllOf(sec, s + 1))
        /\ Traced(SaveSection(a[s], sec[s + 1]), sec)
    BY <1>1, <1>2, <2>2, <2>3, SectionSaved
  <2>5. a[j] = SaveSection(a[s], sec[s + 1])
    BY <1>3, <2>1, <2>2
  <2>6. QED
    BY <2>2, <2>4, <2>5
<1> HIDE DEF P
<1>6. 0 .. Len(sec) \subseteq P
  BY <1>1, <1>2, <1>4, <1>5, UpTo
<1>7. Len(sec) \in P
  BY <1>1, <1>2, <1>6
<1>8. QED
  BY <1>2, <1>3, <1>7 DEF P

-----------------------------------------------------------------------------
(* A line that is there stays.                                                *)

\* What a mark changes: it is at the end of the section of the day, or in the place of a line
\* without a counter; of those of its second, if nothing was found before, the first one.
LEMMA MarkWritten ==
  ASSUME LogAssumption, clock \in DOMAIN Days, written \in Nat, NEW o0, LogSound(o0),
         NEW r, r = Log!WriteEntry(Log!AddSection(o0, Log!Today)[1], Log!Today, <<Log!Now>>, Log!Line(TRUE))
  PROVE  /\ LogSound(r)
         /\ \E s \in Nat, f \in Nat \ {0} :
              /\ Wrote(o0.sec, r.sec, Log!Today, s, f, MarkEntry)
              /\ o0.lastent = -1 => \A j \in 1 .. f - 1 : j \in DOMAIN Earlier(o0.sec, s) => Earlier(o0.sec, s)[j].name # <<Log!Now>>
<1>1. Log!Today \in Alone /\ MarkEntry \in LogEntry /\ MarkEntry.name = <<Log!Now>> /\ MarkEntry.value = Log!Line(TRUE)
  BY WrittenNow DEF LogEntry
<1>2. PICK o, s : o = Log!AddSection(o0, Log!Today)[1] /\ s = Log!AddSection(o0, Log!Today)[2]
  OBVIOUS
<1>3. LogSound(o) /\ o.lastent = o0.lastent /\ WithSection(o0.sec, o.sec, Log!Today, s)
  BY <1>1, <1>2, LogAddsSection
<1>4. o0.sec \in Seq(LogSection) /\ o.sec \in Seq(LogSection) /\ DOMAIN o0.sec = 1 .. Len(o0.sec) /\ Len(o0.sec) \in Nat
      /\ DOMAIN o.sec = 1 .. Len(o.sec)
  BY <1>3, SectionsOf DEF LogSound
<1>5. s \in DOMAIN o.sec /\ o.sec[s].name = Log!Today /\ s \in Nat
  <2>1. CASE o.sec = o0.sec /\ s \in DOMAIN o0.sec /\ o0.sec[s].name = Log!Today
    BY <1>4, <2>1
  <2>2. CASE o.sec = Append(o0.sec, [name |-> Log!Today, entry |-> <<>>]) /\ s = Len(o0.sec) + 1
    <3>1. PICK y : y = [name |-> Log!Today, entry |-> <<>>]
      OBVIOUS
    <3>2. y \in LogSection /\ y.name = Log!Today
      <4>1. <<>> \in Seq(LogEntry)
        OBVIOUS
      <4>2. QED
        BY <1>1, <3>1, <4>1 DEF LogSection
    <3>3. Len(o.sec) = Len(o0.sec) + 1 /\ o.sec[Len(o0.sec) + 1] = y
      BY <1>4, <2>2, <3>1, <3>2, Appended
    <3>4. QED
      BY <1>4, <2>2, <3>2, <3>3
  <2>3. QED
    BY <1>3, <2>1, <2>2 DEF WithSection
<1>6. PICK x : x = MarkEntry
  OBVIOUS
<1>7. /\ LogSound(Log!WriteEntry(o, o.sec[s].name, x.name, x.value))
      /\ \E e \in Nat : /\ Puts(o.sec, Log!WriteEntry(o, o.sec[s].name, x.name, x.value).sec, s, e, x)
                        /\ o.lastent = -1 => \A j \in 1 .. e - 1 : o.sec[s].entry[j].name # x.name
  BY <1>1, <1>3, <1>5, <1>6, LogWritesEntry
<1>8. r = Log!WriteEntry(o, o.sec[s].name, x.name, x.value)
  BY <1>1, <1>2, <1>5, <1>6
<1>9. LogSound(r)
  BY <1>7, <1>8
<1>10. PICK e \in Nat : /\ Puts(o.sec, r.sec, s, e, x)
                        /\ o.lastent = -1 => \A j \in 1 .. e - 1 : o.sec[s].entry[j].name # x.name
  BY <1>7, <1>8
<1>11. PICK f \in Nat \ {0} : /\ Wrote(o0.sec, r.sec, Log!Today, s, f, x)
                              /\ e = 0 => f = Len(Earlier(o0.sec, s)) + 1
                              /\ e # 0 => f = e /\ s \in DOMAIN o0.sec /\ o.sec = o0.sec
  <2>1. x \in LogEntry /\ Log!Today \in Alone
    BY <1>1, <1>6
  <2>2. PICK sec, mid, new : sec = o0.sec /\ mid = o.sec /\ new = r.sec
    OBVIOUS
  <2>3. sec \in Seq(LogSection) /\ mid \in Seq(LogSection) /\ WithSection(sec, mid, Log!Today, s) /\ Puts(mid, new, s, e, x)
    BY <1>3, <1>4, <1>10, <2>2
  <2>4. PICK f \in Nat \ {0} : /\ Wrote(sec, new, Log!Today, s, f, x)
                               /\ e = 0 => f = Len(Earlier(sec, s)) + 1
                               /\ e # 0 => f = e /\ s \in DOMAIN sec /\ mid = sec
    BY <2>1, <2>3, LogWrote
  <2>5. QED
    BY <2>2, <2>4
<1>12. ASSUME o0.lastent = -1, NEW j \in 1 .. f - 1, j \in DOMAIN Earlier(o0.sec, s)
       PROVE  Earlier(o0.sec, s)[j].name # <<Log!Now>>
  <2>1. CASE e = 0
    <3>1. f \notin DOMAIN Earlier(o0.sec, s)
      <4>1. DOMAIN Earlier(o0.sec, s) = 1 .. Len(Earlier(o0.sec, s)) /\ Len(Earlier(o0.sec, s)) \in Nat
        <5>1. CASE s \in DOMAIN o0.sec
          BY <1>4, <5>1, EntriesIn DEF Earlier
        <5>2. CASE s \notin DOMAIN o0.sec
          BY <5>2 DEF Earlier
        <5>3. QED
          BY <5>1, <5>2
      <4>2. f = Len(Earlier(o0.sec, s)) + 1
        BY <1>11, <2>1
      <4>3. QED
        BY <4>1, <4>2
    <3>2. QED
      BY <1>1, <1>6, <1>11, <1>12, <3>1 DEF Wrote
  <2>2. CASE e # 0
    <3>1. f = e /\ s \in DOMAIN o0.sec /\ o.sec = o0.sec
      BY <1>11, <2>2
    <3>2. j \in 1 .. e - 1 /\ o.sec[s].entry[j].name # x.name
      BY <1>3, <1>10, <1>12, <3>1
    <3>3. QED
      BY <1>1, <1>6, <3>1, <3>2 DEF Earlier
  <2>3. QED
    BY <2>1, <2>2
<1>13. QED
  BY <1>5, <1>6, <1>9, <1>11, <1>12

\* What another line changes: it is at the end of the section of the day, or it is dropped.
LEMMA LineWritten ==
  ASSUME LogAssumption, clock \in DOMAIN Days, written \in Nat, NEW o0, LogSound(o0),
         NEW o, o = Log!AddSection(o0, Log!Today)[1], NEW r, r = Log!Counted(o)
  PROVE  /\ LogSound(r)
         /\ ~Log!Room(o) => \E s \in Nat : WithSection(o0.sec, r.sec, Log!Today, s)
         /\ Log!Room(o) => \E c \in LogPart, s \in Nat, f \in Nat \ {0} :
              Wrote(o0.sec, r.sec, Log!Today, s, f, CountEntry(c)) /\ f = Len(Earlier(o0.sec, s)) + 1
<1>1. Log!Today \in Alone
  BY WrittenNow
<1>2. PICK s : s = Log!AddSection(o0, Log!Today)[2]
  OBVIOUS
<1>3. LogSound(o) /\ WithSection(o0.sec, o.sec, Log!Today, s)
  BY <1>1, <1>2, LogAddsSection
<1>4. /\ o0.sec \in Seq(LogSection) /\ o.sec \in Seq(LogSection) /\ DOMAIN o0.sec = 1 .. Len(o0.sec) /\ Len(o0.sec) \in Nat
      /\ DOMAIN o.sec = 1 .. Len(o.sec)
  BY <1>3, SectionsOf DEF LogSound
<1>5. s \in DOMAIN o.sec /\ o.sec[s].name = Log!Today /\ s \in Nat
  <2>1. CASE o.sec = o0.sec /\ s \in DOMAIN o0.sec /\ o0.sec[s].name = Log!Today
    BY <1>4, <2>1
  <2>2. CASE o.sec = Append(o0.sec, [name |-> Log!Today, entry |-> <<>>]) /\ s = Len(o0.sec) + 1
    <3>1. PICK y : y = [name |-> Log!Today, entry |-> <<>>]
      OBVIOUS
    <3>2. y \in LogSection /\ y.name = Log!Today
      <4>1. <<>> \in Seq(LogEntry)
        OBVIOUS
      <4>2. QED
        BY <1>1, <3>1, <4>1 DEF LogSection
    <3>3. Len(o.sec) = Len(o0.sec) + 1 /\ o.sec[Len(o0.sec) + 1] = y
      BY <1>4, <2>2, <3>1, <3>2, Appended
    <3>4. QED
      BY <1>4, <2>2, <3>2, <3>3
  <2>3. QED
    BY <1>3, <2>1, <2>2 DEF WithSection
<1>6. HasToday(o)
  BY <1>3, <1>5 DEF HasToday
<1>7. /\ LogSound(r)
      /\ ~Log!Room(o) => r.sec = o.sec
      /\ Log!Room(o) => \E c \in LogPart, t \in DOMAIN o.sec :
           o.sec[t].name = Log!Today /\ Puts(o.sec, r.sec, t, 0, CountEntry(c))
  BY <1>6, CountedTells
<1>8. ASSUME Log!Room(o)
      PROVE  \E c \in LogPart, t \in Nat, f \in Nat \ {0} :
               Wrote(o0.sec, r.sec, Log!Today, t, f, CountEntry(c)) /\ f = Len(Earlier(o0.sec, t)) + 1
  <2>1. PICK c \in LogPart, t \in DOMAIN o.sec : o.sec[t].name = Log!Today /\ Puts(o.sec, r.sec, t, 0, CountEntry(c))
    BY <1>7, <1>8
  <2>2. t = s
    BY <1>3, <1>5, <2>1 DEF LogSound, OneOfEach
  <2>3. CountEntry(c) \in LogEntry
    BY WrittenNow DEF LogEntry
  <2>4. PICK f \in Nat \ {0} : Wrote(o0.sec, r.sec, Log!Today, s, f, CountEntry(c)) /\ f = Len(Earlier(o0.sec, s)) + 1
    BY <1>1, <1>3, <1>4, <2>1, <2>2, <2>3, LogWrote
  <2>5. QED
    BY <1>5, <2>4
<1>9. QED
  BY <1>3, <1>5, <1>7, <1>8

LEMMA StaysThere ==
  ASSUME NEW sec \in Seq(LogSection), NEW new, NEW day, NEW s, NEW f, NEW x \in LogEntry, Wrote(sec, new, day, s, f, x),
         NEW k \in KeptLine, IsThere(sec, k),
         f \in DOMAIN Earlier(sec, s) => x \in Bare /\ ~(k.bare /\ k.day = day /\ k.time = Time(x))
  PROVE  IsThere(new, k)
<1>1. PICK t \in DOMAIN sec : sec[t].name = k.day /\ \E e \in DOMAIN sec[t].entry : Bears(sec[t].entry[e], k)
  BY DEF IsThere
<1>2. PICK e \in DOMAIN sec[t].entry : Bears(sec[t].entry[e], k)
  BY <1>1
<1>3. t \in DOMAIN new /\ new[t].name = k.day /\ e \in DOMAIN new[t].entry /\ new[t].entry[e] = sec[t].entry[e]
  <2>1. t \in DOMAIN new /\ new[t].name = k.day
    BY <1>1 DEF Wrote
  <2>2. CASE t # s
    BY <2>1, <2>2 DEF Wrote
  <2>3. CASE t = s
    <3>1. Earlier(sec, s) = sec[t].entry
      BY <1>1, <2>3 DEF Earlier
    <3>2. e # f
      <4>1. SUFFICES ASSUME e = f PROVE FALSE
        OBVIOUS
      <4>2. f \in DOMAIN Earlier(sec, s) /\ sec[t].entry[e].name = x.name /\ sec[t].name = day
        <5>1. f \in DOMAIN Earlier(sec, s)
          BY <1>1, <3>1, <4>1
        <5>2. Earlier(sec, s)[f].name = x.name
          BY <5>1 DEF Wrote
        <5>3. sec[t].name = day
          BY <1>1, <2>3 DEF Wrote
        <5>4. QED
          BY <3>1, <4>1, <5>1, <5>2, <5>3
      <4>3. sec[t].entry[e] \in LogEntry
        BY <1>1, EntriesIn
      <4>4. x \in Bare /\ Time(sec[t].entry[e]) = Time(x)
        BY <4>2 DEF Time
      <4>5. sec[t].entry[e] \notin Counted
        <5>1. x.name \notin LogPart \X LogPart
          <6>1. PICK u \in LogPart : x.name = <<u>>
            BY <4>4 DEF Bare, Alone
          <6>2. QED
            BY <6>1
        <5>2. QED
          BY <4>2, <4>3, <5>1, EntryParts
      <4>6. Time(sec[t].entry[e]) = k.time /\ k.bare
        BY <1>2, <4>5 DEF Bears, KeptLine
      <4>7. QED
        BY <1>1, <4>2, <4>4, <4>6
    <3>3. QED
      BY <2>1, <2>3, <3>1, <3>2 DEF Wrote
  <2>4. QED
    BY <2>2, <2>3
<1>4. QED
  BY <1>1, <1>2, <1>3 DEF IsThere

LEMMA IsWritten ==
  ASSUME NEW sec, NEW new, NEW day, NEW s, NEW f, NEW x, Wrote(sec, new, day, s, f, x), NEW k,
         k.day = day, k.time = Time(x), k.id = Says(x).id, ~k.bare => x \in Counted
  PROVE  IsThere(new, k)
<1>1. s \in DOMAIN new /\ new[s].name = day /\ f \in DOMAIN new[s].entry /\ new[s].entry[f] = x
  BY DEF Wrote
<1>2. Bears(x, k)
  BY DEF Bears
<1>3. QED
  BY <1>1, <1>2 DEF IsThere

LEMMA WithThere ==
  ASSUME NEW sec \in Seq(LogSection), NEW new, NEW day \in Alone, NEW s, WithSection(sec, new, day, s), NEW k, IsThere(sec, k)
  PROVE  IsThere(new, k)
<1>1. CASE new = sec
  BY <1>1
<1>2. CASE new = Append(sec, [name |-> day, entry |-> <<>>])
  <2>1. PICK y : y = [name |-> day, entry |-> <<>>]
    OBVIOUS
  <2>2. y \in LogSection
    <3>1. <<>> \in Seq(LogEntry)
      OBVIOUS
    <3>2. QED
      BY <2>1, <3>1 DEF LogSection
  <2>3. new \in Seq(LogSection) /\ Len(new) = Len(sec) + 1 /\ Len(sec) \in Nat /\ \A i \in 1 .. Len(sec) : new[i] = sec[i]
    BY <1>2, <2>1, <2>2, Appended
  <2>4. DOMAIN new = 1 .. Len(sec) + 1 /\ DOMAIN sec = 1 .. Len(sec)
    BY <2>3, LenProperties
  <2>5. \A j \in DOMAIN sec : j \in DOMAIN new /\ new[j] = sec[j]
    BY <2>3, <2>4
  <2>6. QED
    BY <2>5 DEF IsThere
<1>3. QED
  BY <1>1, <1>2 DEF WithSection

\* What is saved is read.
LEMMA ReadThere ==
  ASSUME LogAssumption, NEW o, LogSound(o), NEW k \in KeptLine, IsThere(o.sec, k)
  PROVE  IsThere(LogRead(Log!SaveToString(o, FALSE)).sec, [k EXCEPT !.bare = TRUE])
<1>1. PICK sec, file : sec = o.sec /\ file = Log!SaveToString(o, FALSE)
  OBVIOUS
<1>2. sec \in Seq(LogSection) /\ DOMAIN sec = 1 .. Len(sec) /\ Len(sec) \in Nat
  BY <1>1, SectionsOf DEF LogSound
<1>3. ReadsTo(file, sec, Len(sec), AllOf(sec, Len(sec)))
  BY <1>1, SavedReads
<1>4. PICK new : new = LogRead(file).sec
  OBVIOUS
<1>5. CutAt(sec, new, Len(sec), AllOf(sec, Len(sec)))
  BY <1>3, <1>4, ReadSound DEF ReadsTo
<1>6. PICK t \in DOMAIN sec : sec[t].name = k.day /\ \E e \in DOMAIN sec[t].entry : Bears(sec[t].entry[e], k)
  BY <1>1 DEF IsThere
<1>7. PICK e \in DOMAIN sec[t].entry : Bears(sec[t].entry[e], k)
  BY <1>6
<1>8. sec[t].entry[e] \in LogEntry /\ DOMAIN sec[t].entry = 1 .. Len(sec[t].entry)
  BY <1>2, EntriesIn
<1>9. t \in DOMAIN new /\ new[t].name = k.day /\ e \in DOMAIN new[t].entry /\ new[t].entry[e] = Reread(sec[t].entry[e])
  <2>1. t \in 1 .. Len(sec) /\ t # 0
    BY <1>2
  <2>2. t = Len(sec) => AllOf(sec, Len(sec)) = Len(sec[t].entry)
    BY <2>1 DEF AllOf
  <2>3. QED
    BY <1>5, <1>6, <1>8, <2>1, <2>2 DEF CutAt
<1>10. PICK x, y : x = sec[t].entry[e] /\ y = new[t].entry[e]
  OBVIOUS
<1>11. Time(y) = Time(x) /\ Says(y) = Says(x)
  BY <1>8, <1>9, <1>10, EntryTextTells, TextTells DEF Reread
<1>12. PICK l : l = [k EXCEPT !.bare = TRUE]
  OBVIOUS
<1>13. l.id = k.id /\ l.day = k.day /\ l.time = k.time /\ l.bare = TRUE
  BY <1>12 DEF KeptLine
<1>14. Bears(y, l)
  BY <1>7, <1>10, <1>11, <1>13 DEF Bears
<1>15. IsThere(new, l)
  BY <1>6, <1>9, <1>10, <1>13, <1>14 DEF IsThere
<1>16. QED
  BY <1>1, <1>4, <1>12, <1>15

\* The line of this step.
LEMMA KeptNow ==
  ASSUME LogAssumption, clock \in DOMAIN Days, written \in Nat, NEW m \in BOOLEAN, NEW b \in BOOLEAN
  PROVE  /\ Log!Kept(m, b) \in KeptLine /\ Log!Kept(m, b).id = written + 1 /\ Log!Kept(m, b).mark = m
         /\ Log!Kept(m, b).day = Log!Today /\ Log!Kept(m, b).time = Log!Now /\ Log!Kept(m, b).bare = b
<1>1. Log!Today \in Alone /\ Log!Now \in LogPart
  BY WrittenNow
<1>2. PICK d, t : d = Log!Today /\ t = Log!Now
  OBVIOUS
<1>3. Log!Kept(m, b) = [id |-> written + 1, mark |-> m, day |-> d, time |-> t, bare |-> b]
  BY <1>2 DEF Log!Kept
<1>4. QED
  BY <1>1, <1>2, <1>3 DEF KeptLine

\* A mark takes the place of a line without a counter of the same second at most.
Remains(before) == {k \in before : ~(k.bare /\ k.day = Log!Today /\ k.time = Log!Now)}

LEMMA MarkKeeps ==
  ASSUME LogAssumption, clock \in DOMAIN Days, written \in Nat, NEW o0, LogSound(o0), NEW before, AllThere(o0.sec, before),
         NEW r, r = Log!WriteEntry(Log!AddSection(o0, Log!Today)[1], Log!Today, <<Log!Now>>, Log!Line(TRUE))
  PROVE  LogSound(r) /\ AllThere(r.sec, Remains(before) \cup {Log!Kept(TRUE, TRUE)})
<1>1. LogSound(r) /\ \E s \in Nat, f \in Nat \ {0} : Wrote(o0.sec, r.sec, Log!Today, s, f, MarkEntry)
  BY MarkWritten
<1>2. PICK s \in Nat, f \in Nat \ {0} : Wrote(o0.sec, r.sec, Log!Today, s, f, MarkEntry)
  BY <1>1
<1>3. PICK x : x = MarkEntry
  OBVIOUS
<1>4. x \in Bare /\ x \in LogEntry /\ Time(x) = Log!Now /\ Says(x).id = written + 1 /\ Wrote(o0.sec, r.sec, Log!Today, s, f, x)
  <2>1. x \in Bare /\ Time(x) = Log!Now /\ Says(x) = [id |-> written + 1, mark |-> TRUE]
    BY <1>3, WrittenNow
  <2>2. x \in LogEntry /\ Says(x).id = written + 1
    BY <2>1 DEF LogEntry
  <2>3. QED
    BY <1>2, <1>3, <2>1, <2>2
<1>5. o0.sec \in Seq(LogSection)
  BY SectionsOf DEF LogSound
<1>6. ASSUME NEW k \in Remains(before) PROVE k \in KeptLine /\ IsThere(r.sec, k)
  <2>1. k \in KeptLine /\ IsThere(o0.sec, k) /\ ~(k.bare /\ k.day = Log!Today /\ k.time = Time(x))
    BY <1>4, <1>6 DEF Remains, AllThere
  <2>2. f \in DOMAIN Earlier(o0.sec, s) => x \in Bare /\ ~(k.bare /\ k.day = Log!Today /\ k.time = Time(x))
    BY <1>4, <2>1
  <2>3. PICK sec, new : sec = o0.sec /\ new = r.sec
    OBVIOUS
  <2>4. IsThere(new, k)
    BY <1>4, <1>5, <2>1, <2>2, <2>3, StaysThere, ZenonT(60)
  <2>5. QED
    BY <2>1, <2>3, <2>4
<1>7. PICK k : k = Log!Kept(TRUE, TRUE)
  OBVIOUS
<1>8. k \in KeptLine /\ k.id = Says(x).id /\ k.day = Log!Today /\ k.time = Time(x) /\ k.bare = TRUE
  BY <1>4, <1>7, KeptNow
<1>9. IsThere(r.sec, k)
  BY <1>4, <1>8, IsWritten
<1>10. QED
  BY <1>1, <1>6, <1>7, <1>8, <1>9 DEF AllThere

LEMMA LineKeeps ==
  ASSUME LogAssumption, clock \in DOMAIN Days, written \in Nat, NEW o0, LogSound(o0), NEW K, AllThere(o0.sec, K),
         NEW o, o = Log!AddSection(o0, Log!Today)[1], NEW r, r = Log!Counted(o)
  PROVE  LogSound(r) /\ AllThere(r.sec, IF Log!Room(o) THEN K \cup {Log!Kept(FALSE, FALSE)} ELSE K)
<1>1. /\ LogSound(r)
      /\ ~Log!Room(o) => \E s \in Nat : WithSection(o0.sec, r.sec, Log!Today, s)
      /\ Log!Room(o) => \E c \in LogPart, s \in Nat, f \in Nat \ {0} :
           Wrote(o0.sec, r.sec, Log!Today, s, f, CountEntry(c)) /\ f = Len(Earlier(o0.sec, s)) + 1
  BY LineWritten
<1>2. o0.sec \in Seq(LogSection)
  BY SectionsOf DEF LogSound
<1>3. Log!Today \in Alone
  BY WrittenNow
<1>4. CASE ~Log!Room(o)
  <2>1. PICK s \in Nat : WithSection(o0.sec, r.sec, Log!Today, s)
    BY <1>1, <1>4
  <2>2. \A k \in K : k \in KeptLine /\ IsThere(r.sec, k)
    BY <1>2, <1>3, <2>1, WithThere DEF AllThere
  <2>3. QED
    BY <1>1, <1>4, <2>2 DEF AllThere
<1>5. CASE Log!Room(o)
  <2>1. PICK c \in LogPart, s \in Nat, f \in Nat \ {0} :
          Wrote(o0.sec, r.sec, Log!Today, s, f, CountEntry(c)) /\ f = Len(Earlier(o0.sec, s)) + 1
    BY <1>1, <1>5
  <2>2. PICK x : x = CountEntry(c)
    OBVIOUS
  <2>3. x \in Counted /\ x \in LogEntry /\ Time(x) = Log!Now /\ Says(x).id = written + 1
    <3>1. x \in Counted /\ Time(x) = Log!Now /\ Says(x) = [id |-> written + 1, mark |-> FALSE]
      BY <2>2, WrittenNow
    <3>2. QED
      BY <3>1 DEF LogEntry
  <2>4. f \notin DOMAIN Earlier(o0.sec, s)
    <3>1. DOMAIN Earlier(o0.sec, s) = 1 .. Len(Earlier(o0.sec, s)) /\ Len(Earlier(o0.sec, s)) \in Nat
      <4>1. CASE s \in DOMAIN o0.sec
        BY <1>2, <4>1, EntriesIn DEF Earlier
      <4>2. CASE s \notin DOMAIN o0.sec
        BY <4>2 DEF Earlier
      <4>3. QED
        BY <4>1, <4>2
    <3>2. QED
      BY <2>1, <3>1
  <2>5. \A k \in K : k \in KeptLine /\ IsThere(r.sec, k)
    BY <1>2, <2>1, <2>2, <2>3, <2>4, StaysThere DEF AllThere
  <2>6. PICK k : k = Log!Kept(FALSE, FALSE)
    OBVIOUS
  <2>7. k \in KeptLine /\ k.id = Says(x).id /\ k.day = Log!Today /\ k.time = Time(x)
    BY <2>3, <2>6, KeptNow
  <2>8. IsThere(r.sec, k)
    BY <2>1, <2>2, <2>3, <2>7, IsWritten
  <2>9. QED
    BY <1>1, <1>5, <2>5, <2>6, <2>7, <2>8 DEF AllThere
<1>6. QED
  BY <1>4, <1>5

\* What the file must hold is what the object held when it was saved.
InText(file, K) == \A k \in K : k \in KeptLine /\ IsThere(LogRead(file).sec, [k EXCEPT !.bare = TRUE])

LEMMA SaveKeeps ==
  ASSUME LogAssumption, NEW o, LogSound(o), NEW K, AllThere(o.sec, K)
  PROVE  Log!SaveToString(o, FALSE) \in Seq(LogText) /\ InText(Log!SaveToString(o, FALSE), K)
<1>1. Log!SaveToString(o, FALSE) \in Seq(LogText)
  BY SavedReads DEF ReadsTo
<1>2. \A k \in K : k \in KeptLine /\ IsThere(LogRead(Log!SaveToString(o, FALSE)).sec, [k EXCEPT !.bare = TRUE])
  BY ReadThere DEF AllThere
<1>3. QED
  BY <1>1, <1>2 DEF InText

LEMMA LogInvInit ==
  ASSUME LogAssumption, Log!Init
  PROVE  LogInv
<1>1. 1 \in DOMAIN Days
  <2>1. DOMAIN Days = 1 .. Len(Days) /\ Len(Days) \in Nat /\ (Len(Days) = 0 <=> Days = <<>>)
    BY LenProperties, EmptySeq DEF LogAssumption
  <2>2. QED
    BY <2>1 DEF LogAssumption
<1>2. <<>> \in Seq(LogText)
  OBVIOUS
<1>3. /\ clock = 1 /\ written = 0 /\ log_disk = <<>> /\ log_saving = FALSE /\ up = FALSE /\ inFile = {}
  BY DEF Log!Init
<1>4. QED
  BY <1>1, <1>2, <1>3 DEF LogInv

LEMMA LogInvServerInit ==
  ASSUME LogAssumption, LogInv, Log!ServerInit
  PROVE  LogInv'
<1>1. /\ clock \in DOMAIN Days /\ written \in Nat /\ log_disk \in Seq(LogText)
      /\ \A k \in inFile : k \in KeptLine /\ IsThere(LogRead(log_disk).sec, [k EXCEPT !.bare = TRUE])
  BY DEF LogInv
<1>2. PICK o : o = LogRead(log_disk)
  OBVIOUS
<1>3. PICK before : before = {[k EXCEPT !.bare = TRUE] : k \in inFile}
  OBVIOUS
<1>4. LogSound(o)
  BY <1>1, <1>2, ReadSound
<1>5. AllThere(o.sec, before)
  <2>1. ASSUME NEW k \in inFile PROVE [k EXCEPT !.bare = TRUE] \in KeptLine /\ IsThere(o.sec, [k EXCEPT !.bare = TRUE])
    <3>1. k \in KeptLine /\ IsThere(o.sec, [k EXCEPT !.bare = TRUE])
      BY <1>1, <1>2, <2>1
    <3>2. QED
      BY <3>1 DEF KeptLine
  <2>2. QED
    BY <1>3, <2>1 DEF AllThere
<1>6. Log!LoadFromString(Log!NewObject, log_disk, FALSE) = o
  BY <1>2 DEF LogRead
<1>7. /\ up' = TRUE /\ written' = written + 1 /\ log_saving' = TRUE /\ log_disk' = <<>> /\ inFile' = {} /\ clock' = clock
      /\ Log!WriteMark(o, before)
  BY <1>3, <1>6 DEF Log!ServerInit, Log!Writes
<1>8. PICK r : r = log_obj'
  OBVIOUS
<1>9. r = Log!WriteEntry(Log!AddSection(o, Log!Today)[1], Log!Today, <<Log!Now>>, Log!Line(TRUE))
      /\ kept' = Remains(before) \cup {Log!Kept(TRUE, TRUE)}
  BY <1>7, <1>8 DEF Log!WriteMark, Remains
<1>10. LogSound(r) /\ AllThere(r.sec, kept')
  BY <1>1, <1>4, <1>5, <1>9, MarkKeeps
<1>11. <<>> \in Seq(LogText)
  OBVIOUS
<1>12. QED
  BY <1>1, <1>7, <1>8, <1>10, <1>11 DEF LogInv

LEMMA LogInvWriteLog ==
  ASSUME LogAssumption, LogInv, Log!WriteLog
  PROVE  LogInv'
<1>1. /\ clock \in DOMAIN Days /\ written \in Nat /\ log_disk \in Seq(LogText) /\ LogSound(log_obj) /\ AllThere(log_obj.sec, kept)
      /\ up /\ log_saving \in BOOLEAN /\ InText(log_disk, inFile)
  BY DEF LogInv, Log!WriteLog, InText
<1>2. /\ up' = up /\ written' = written + 1 /\ clock' = clock /\ Log!WriteLine
      /\ \/ log_saving' = log_saving /\ log_disk' = log_disk /\ inFile' = inFile
         \/ log_saving' = TRUE /\ log_disk' = <<>> /\ inFile' = {}
      /\ ~log_saving
  BY DEF Log!WriteLog, Log!Writes
<1>3. PICK o, r : o = Log!AddSection(log_obj, Log!Today)[1] /\ r = log_obj'
  OBVIOUS
<1>4. r = Log!Counted(o) /\ kept' = IF Log!Room(o) THEN kept \cup {Log!Kept(FALSE, FALSE)} ELSE kept
  BY <1>2, <1>3 DEF Log!WriteLine
<1>5. LogSound(r) /\ AllThere(r.sec, kept')
  BY <1>1, <1>3, <1>4, LineKeeps
<1>6. <<>> \in Seq(LogText)
  OBVIOUS
<1>7. InText(log_disk', inFile') /\ log_disk' \in Seq(LogText) /\ log_saving' \in BOOLEAN /\ (log_saving' => inFile' = {})
  <2>1. CASE log_saving' = log_saving /\ log_disk' = log_disk /\ inFile' = inFile
    <3>1. ~log_saving' /\ log_saving' \in BOOLEAN
      BY <1>1, <1>2, <2>1
    <3>2. log_disk' \in Seq(LogText) /\ InText(log_disk', inFile')
      BY <1>1, <2>1
    <3>3. QED
      BY <3>1, <3>2
  <2>2. CASE log_saving' = TRUE /\ log_disk' = <<>> /\ inFile' = {}
    BY <1>6, <2>2 DEF InText
  <2>3. QED
    BY <1>2, <2>1, <2>2
<1>8. QED
  BY <1>1, <1>2, <1>3, <1>5, <1>7 DEF LogInv, InText

LEMMA LogInvFlushEnds ==
  ASSUME LogAssumption, LogInv, Log!FlushEnds
  PROVE  LogInv'
<1>1. /\ clock \in DOMAIN Days /\ written \in Nat /\ up /\ LogSound(log_obj) /\ AllThere(log_obj.sec, kept)
  BY DEF LogInv, Log!FlushEnds, Log!SaveWrites
<1>2. /\ up' = up /\ written' = written /\ clock' = clock /\ log_obj' = log_obj /\ kept' = kept /\ inFile' = kept
      /\ log_saving' = FALSE /\ log_disk' = Log!SaveToString(log_obj, FALSE)
  BY DEF Log!FlushEnds, Log!SaveWrites
<1>3. log_disk' \in Seq(LogText) /\ InText(log_disk', inFile')
  BY <1>1, <1>2, SaveKeeps
<1>4. QED
  BY <1>1, <1>2, <1>3 DEF LogInv, InText

LEMMA LogInvServerEnds ==
  ASSUME LogAssumption, LogInv, Log!ServerEnds
  PROVE  LogInv'
<1>1. /\ clock \in DOMAIN Days /\ written \in Nat /\ up /\ LogSound(log_obj) /\ AllThere(log_obj.sec, kept) /\ ~log_saving
      /\ log_saving \in BOOLEAN
  BY DEF LogInv, Log!ServerEnds
<1>2. /\ up' = FALSE /\ written' = written + 1 /\ clock' = clock /\ inFile' = kept' /\ Log!WriteMark(log_obj, kept)
      /\ log_saving' = log_saving /\ log_disk' = Log!SaveToString(log_obj', FALSE)
  BY DEF Log!ServerEnds, Log!Writes
<1>3. PICK r : r = log_obj'
  OBVIOUS
<1>4. r = Log!WriteEntry(Log!AddSection(log_obj, Log!Today)[1], Log!Today, <<Log!Now>>, Log!Line(TRUE))
      /\ kept' = Remains(kept) \cup {Log!Kept(TRUE, TRUE)}
  BY <1>2, <1>3 DEF Log!WriteMark, Remains
<1>5. LogSound(r) /\ AllThere(r.sec, kept')
  BY <1>1, <1>4, MarkKeeps
<1>6. log_disk' \in Seq(LogText) /\ InText(log_disk', inFile')
  BY <1>2, <1>3, <1>5, SaveKeeps
<1>7. ~log_saving' /\ log_saving' \in BOOLEAN
  BY <1>1, <1>2
<1>8. ~up' /\ clock' \in DOMAIN Days /\ written' \in Nat
  BY <1>1, <1>2
<1>9. QED
  BY <1>6, <1>7, <1>8 DEF LogInv, InText

LEMMA LogInvServerDies ==
  ASSUME LogAssumption, LogInv, Log!ServerDies
  PROVE  LogInv'
<1>1. /\ clock \in DOMAIN Days /\ written \in Nat /\ up /\ LogSound(log_obj) /\ log_saving \in BOOLEAN
      /\ log_disk \in Seq(LogText) /\ InText(log_disk, inFile) /\ (log_saving => inFile = {})
  BY DEF LogInv, Log!ServerDies, InText
<1>2. /\ up' = FALSE /\ written' = written /\ clock' = clock /\ inFile' = inFile /\ kept' = {} /\ log_saving' = FALSE
      /\ log_disk' \in IF log_saving THEN {SubSeq(Log!SaveToString(log_obj, FALSE), 1, k) : k \in 0 .. Len(Log!SaveToString(log_obj, FALSE))}
                       ELSE {log_disk}
  BY DEF Log!ServerDies, Log!Crash
<1>3. log_disk' \in Seq(LogText) /\ InText(log_disk', inFile')
  <2>1. CASE log_saving
    <3>1. PICK file : file = Log!SaveToString(log_obj, FALSE)
      OBVIOUS
    <3>2. PICK k \in 0 .. Len(file) : log_disk' = SubSeq(file, 1, k)
      BY <1>2, <2>1, <3>1
    <3>3. Traced(file, log_obj.sec)
      BY <1>1, <3>1, SavedReads
    <3>4. \E s, e \in Nat : ReadsTo(SubSeq(file, 1, k), log_obj.sec, s, e)
      BY <3>3 DEF Traced
    <3>5. log_disk' \in Seq(LogText)
      BY <3>2, <3>4 DEF ReadsTo
    <3>6. QED
      BY <1>1, <1>2, <2>1, <3>5 DEF InText
  <2>2. CASE ~log_saving
    BY <1>1, <1>2, <2>2
  <2>3. QED
    BY <2>1, <2>2
<1>4. QED
  BY <1>1, <1>2, <1>3 DEF LogInv, InText

LEMMA LogInvNext ==
  ASSUME LogAssumption, LogInv, [Log!Next]_(Log!logVars)
  PROVE  LogInv'
<1>1. CASE Log!Second
  <2>1. DOMAIN Days = 1 .. Len(Days) /\ Len(Days) \in Nat
    BY LenProperties DEF LogAssumption
  <2>2. clock' \in DOMAIN Days
    BY <1>1, <2>1 DEF Log!Second, LogInv
  <2>3. QED
    BY <1>1, <2>2 DEF Log!Second, LogInv
<1>2. CASE UNCHANGED Log!logVars
  BY <1>2 DEF Log!logVars, LogInv
<1>3. QED
  BY <1>1, <1>2, LogInvServerInit, LogInvWriteLog, LogInvFlushEnds, LogInvServerEnds, LogInvServerDies DEF Log!Next

-----------------------------------------------------------------------------
(* The log is in the order of time.                                           *)

LEMMA OneSecond ==
  ASSUME ClockAssumption, NEW i, NEW j, NEW day, NEW time, IsSecond(i, day, time), IsSecond(j, day, time)
  PROVE  i = j
<1>1. i \in DOMAIN Days /\ j \in DOMAIN Days /\ <<Days[i]>> = <<Days[j]>> /\ Times[i] = Times[j]
  BY DEF IsSecond
<1>2. Days[i] = Days[j]
  <2>1. PICK a, b : a = Days[i] /\ b = Days[j]
    OBVIOUS
  <2>2. <<a>>[1] = <<b>>[1]
    BY <1>1, <2>1
  <2>3. QED
    BY <2>1, <2>2
<1>3. QED
  BY <1>1, <1>2 DEF ClockAssumption

LEMMA NowAt ==
  ASSUME LogAssumption, clock \in DOMAIN Days, written \in Nat
  PROVE  IsSecond(clock, Log!Today, Log!Now) /\ clock \in 1 .. clock /\ clock \in Nat /\ 1 .. clock \subseteq DOMAIN Days
         /\ DOMAIN Days \subseteq Nat
<1>1. Log!Today = <<Days[clock]>> /\ Log!Now = Times[clock]
  BY WrittenNow
<1>2. DOMAIN Days = 1 .. Len(Days) /\ Len(Days) \in Nat
  BY LenProperties DEF LogAssumption
<1>3. QED
  BY <1>1, <1>2 DEF IsSecond

\* A day that is over is over for good.
LEMMA DaysApart ==
  ASSUME LogAssumption, ClockAssumption, clock \in DOMAIN Days, written \in Nat,
         NEW h \in 1 .. clock, <<Days[h]>> # Log!Today,
         NEW i \in DOMAIN Days, <<Days[i]>> = <<Days[h]>>, NEW j \in DOMAIN Days, <<Days[j]>> = Log!Today
  PROVE  i < j
<1>1. PICK d : d = [a \in DOMAIN Days |-> <<Days[a]>>]
  OBVIOUS
<1>2. h \in DOMAIN Days /\ clock \in Nat /\ DOMAIN Days \subseteq Nat /\ h \in Nat /\ h <= clock
  BY NowAt
<1>3. d[i] = d[h] /\ d[j] = d[clock] /\ d[h] # d[clock]
  BY <1>1, <1>2, WrittenNow
<1>4. \A a, b, c \in DOMAIN Days : a < b /\ b < c /\ d[a] = d[c] => d[b] = d[a]
  <2>1. ASSUME NEW a \in DOMAIN Days, NEW b \in DOMAIN Days, NEW c \in DOMAIN Days, a < b, b < c, d[a] = d[c] PROVE d[b] = d[a]
    <3>1. PICK u, v : u = Days[a] /\ v = Days[c]
      OBVIOUS
    <3>2. <<u>>[1] = <<v>>[1]
      BY <1>1, <2>1, <3>1
    <3>3. Days[a] = Days[c]
      BY <3>1, <3>2
    <3>4. Days[b] = Days[a]
      BY <2>1, <3>3 DEF ClockAssumption
    <3>5. QED
      BY <1>1, <3>4
  <2>2. QED
    BY <2>1
<1>5. ~(j <= h)
  <2>1. j # h /\ h # clock
    BY <1>3
  <2>2. ~(j < h)
    BY <1>2, <1>3, <1>4, <2>1
  <2>3. QED
    BY <1>2, <2>1, <2>2
<1>6. ~(j < i) /\ i # j
  BY <1>2, <1>3, <1>4, <1>5
<1>7. QED
  BY <1>2, <1>6

\* The section of the day is the last one.
AlsoToday(sec, new, s) ==
  /\ DOMAIN new = DOMAIN sec \cup {s} /\ s \in 1 .. Len(sec) + 1
  /\ new[s].name = Log!Today /\ \A j \in DOMAIN sec : new[j].name = sec[j].name

LEMMA TodayOrdered ==
  ASSUME LogAssumption, ClockAssumption, clock \in DOMAIN Days, written \in Nat,
         NEW sec \in Seq(LogSection), NEW new, OneOfEach(new), NEW s, AlsoToday(sec, new, s), DaysOrdered(sec, clock)
  PROVE  DaysOrdered(new, clock)
<1>1. /\ DOMAIN sec = 1 .. Len(sec) /\ Len(sec) \in Nat /\ DOMAIN new = DOMAIN sec \cup {s} /\ s \in 1 .. Len(sec) + 1
      /\ new[s].name = Log!Today /\ \A j \in DOMAIN sec : new[j].name = sec[j].name
  BY LenProperties DEF AlsoToday
<1>2. ASSUME NEW t \in DOMAIN new PROVE \E i \in 1 .. clock : <<Days[i]>> = new[t].name
  <2>1. CASE t \in DOMAIN sec
    BY <1>1, <2>1 DEF DaysOrdered
  <2>2. CASE t = s
    <3>1. clock \in 1 .. clock /\ <<Days[clock]>> = Log!Today
      BY NowAt, WrittenNow
    <3>2. QED
      BY <1>1, <2>2, <3>1
  <2>3. QED
    BY <1>1, <2>1, <2>2
<1>3. ASSUME NEW t \in DOMAIN new, NEW u \in DOMAIN new, t < u,
             NEW i \in DOMAIN Days, NEW j \in DOMAIN Days, <<Days[i]>> = new[t].name, <<Days[j]>> = new[u].name
      PROVE  i < j
  <2>1. CASE u \in DOMAIN sec
    <3>1. t \in DOMAIN sec
      BY <1>1, <1>3, <2>1
    <3>2. QED
      BY <1>1, <1>3, <2>1, <3>1 DEF DaysOrdered
  <2>2. CASE u \notin DOMAIN sec
    <3>1. u = s /\ t \in DOMAIN sec /\ t # u
      BY <1>1, <1>3, <2>2
    <3>2. new[t].name # new[u].name
      BY <3>1 DEF OneOfEach
    <3>3. PICK h \in 1 .. clock : <<Days[h]>> = new[t].name
      BY <1>2
    <3>4. QED
      BY <1>1, <1>3, <3>1, <3>2, <3>3, DaysApart
  <2>3. QED
    BY <2>1, <2>2
<1>4. QED
  BY <1>2, <1>3 DEF DaysOrdered

\* The places of the lines, before and after one is written.
LEMMA WrotePlaces ==
  ASSUME NEW sec \in Seq(LogSection), NEW new, NEW day, NEW s, NEW f, NEW x, Wrote(sec, new, day, s, f, x)
  PROVE  /\ \A t \in DOMAIN new : \A e \in DOMAIN new[t].entry :
              \/ t = s /\ e = f /\ new[t].entry[e] = x
              \/ t \in DOMAIN sec /\ e \in DOMAIN sec[t].entry /\ new[t].entry[e] = sec[t].entry[e]
         /\ \A t \in DOMAIN sec : \A e \in DOMAIN sec[t].entry :
              /\ t \in DOMAIN new /\ e \in DOMAIN new[t].entry
              /\ ~(t = s /\ e = f) => new[t].entry[e] = sec[t].entry[e]
              /\ t = s /\ e = f => new[t].entry[e] = x /\ sec[t].entry[e].name = x.name
         /\ s \in DOMAIN new /\ f \in DOMAIN new[s].entry /\ new[s].entry[f] = x /\ new[s].name = day
         /\ f \in Nat /\ \A e \in DOMAIN new[s].entry : e \in Nat
         /\ (f \notin DOMAIN Earlier(sec, s) =>
               \A e \in DOMAIN new[s].entry : e <= f /\ (s \in DOMAIN sec /\ e \in DOMAIN sec[s].entry => e < f))
         /\ (f \in DOMAIN Earlier(sec, s) => s \in DOMAIN sec /\ f \in DOMAIN sec[s].entry)
<1>1. DOMAIN sec = 1 .. Len(sec) /\ Len(sec) \in Nat
  BY LenProperties
<1>2. PICK q : q = Earlier(sec, s)
  OBVIOUS
<1>3. /\ s \in DOMAIN sec => q = sec[s].entry
      /\ s \notin DOMAIN sec => q = <<>>
      /\ DOMAIN q = 1 .. Len(q) /\ Len(q) \in Nat
  <2>1. CASE s \in DOMAIN sec
    BY <1>2, <2>1, EntriesIn DEF Earlier
  <2>2. CASE s \notin DOMAIN sec
    BY <1>2, <2>2 DEF Earlier
  <2>3. QED
    BY <2>1, <2>2
<1>4. /\ DOMAIN new = DOMAIN sec \cup {s} /\ s \in 1 .. Len(sec) + 1
      /\ new[s].name = day /\ \A j \in DOMAIN sec : new[j].name = sec[j].name
      /\ \A j \in DOMAIN new \ {s} : new[j].entry = sec[j].entry
      /\ DOMAIN new[s].entry = DOMAIN q \cup {f} /\ f \in 1 .. Len(q) + 1
      /\ new[s].entry[f] = x /\ \A g \in DOMAIN q \ {f} : new[s].entry[g] = q[g]
      /\ IF f \in DOMAIN q THEN q[f].name = x.name ELSE \A g \in DOMAIN q : q[g].name # x.name
  BY <1>2 DEF Wrote
<1>5. s \notin DOMAIN sec => DOMAIN q = {}
  BY <1>3
<1>6. ASSUME NEW t \in DOMAIN new, NEW e \in DOMAIN new[t].entry
      PROVE  \/ t = s /\ e = f /\ new[t].entry[e] = x
             \/ t \in DOMAIN sec /\ e \in DOMAIN sec[t].entry /\ new[t].entry[e] = sec[t].entry[e]
  BY <1>3, <1>4, <1>5, <1>6
<1>7. ASSUME NEW t \in DOMAIN sec, NEW e \in DOMAIN sec[t].entry
      PROVE  /\ t \in DOMAIN new /\ e \in DOMAIN new[t].entry
             /\ ~(t = s /\ e = f) => new[t].entry[e] = sec[t].entry[e]
             /\ t = s /\ e = f => new[t].entry[e] = x /\ sec[t].entry[e].name = x.name
  <2>1. CASE t = s
    BY <1>3, <1>4, <1>7, <2>1
  <2>2. CASE t # s
    BY <1>4, <1>7, <2>2
  <2>3. QED
    BY <2>1, <2>2
<1>8. f \in Nat /\ \A e \in DOMAIN new[s].entry : e \in Nat
  BY <1>3, <1>4
<1>9. f \notin DOMAIN q => \A e \in DOMAIN new[s].entry : e <= f /\ (s \in DOMAIN sec /\ e \in DOMAIN sec[s].entry => e < f)
  BY <1>3, <1>4
<1>10. f \in DOMAIN q => s \in DOMAIN sec /\ f \in DOMAIN sec[s].entry
  BY <1>3, <1>5
<1>11. s \in DOMAIN new /\ f \in DOMAIN new[s].entry
  BY <1>4
<1>12. QED
  BY <1>2, <1>4, <1>6, <1>7, <1>8, <1>9, <1>10, <1>11

\* What is in the log is not later than now.
LEMMA NotLater ==
  ASSUME LogAssumption, ClockAssumption, NEW sec, NEW now, TimesOrdered(sec, now), NEW s \in DOMAIN sec, NEW e \in DOMAIN sec[s].entry,
         NEW i, IsSecond(i, sec[s].name, Time(sec[s].entry[e]))
  PROVE  i \in 1 .. now
<1>1. PICK h \in 1 .. now : IsSecond(h, sec[s].name, Time(sec[s].entry[e]))
  BY DEF TimesOrdered
<1>2. h = i
  BY <1>1, OneSecond
<1>3. QED
  BY <1>2

\* The lines have the times they had, but for the one at the end.
LEMMA WroteTimes ==
  ASSUME NEW sec \in Seq(LogSection), NEW new, NEW day, NEW s, NEW f, NEW x, Wrote(sec, new, day, s, f, x)
  PROVE  /\ \A t \in DOMAIN sec : new[t].name = sec[t].name /\ \A e \in DOMAIN sec[t].entry : Time(new[t].entry[e]) = Time(sec[t].entry[e])
         /\ \A t \in DOMAIN new : \A e \in DOMAIN new[t].entry :
              \/ t \in DOMAIN sec /\ e \in DOMAIN sec[t].entry
              \/ /\ t = s /\ e = f /\ new[t].entry[e] = x
                 /\ \A g \in DOMAIN new[t].entry : g <= f /\ (t \in DOMAIN sec /\ g \in DOMAIN sec[t].entry => g < f)
<1>1. \A t \in DOMAIN new : \A e \in DOMAIN new[t].entry :
        \/ t = s /\ e = f /\ new[t].entry[e] = x
        \/ t \in DOMAIN sec /\ e \in DOMAIN sec[t].entry /\ new[t].entry[e] = sec[t].entry[e]
  BY WrotePlaces
<1>2. \A t \in DOMAIN sec : \A e \in DOMAIN sec[t].entry :
        /\ ~(t = s /\ e = f) => new[t].entry[e] = sec[t].entry[e]
        /\ t = s /\ e = f => new[t].entry[e] = x /\ sec[t].entry[e].name = x.name
  BY WrotePlaces
<1>3. (f \notin DOMAIN Earlier(sec, s) =>
               \A e \in DOMAIN new[s].entry : e <= f /\ (s \in DOMAIN sec /\ e \in DOMAIN sec[s].entry => e < f))
      /\ (f \in DOMAIN Earlier(sec, s) => s \in DOMAIN sec /\ f \in DOMAIN sec[s].entry)
  BY WrotePlaces
<1>4. \A t \in DOMAIN sec : new[t].name = sec[t].name
  BY DEF Wrote
<1>5. ASSUME NEW t \in DOMAIN sec, NEW e \in DOMAIN sec[t].entry PROVE Time(new[t].entry[e]) = Time(sec[t].entry[e])
  <2>1. CASE t = s /\ e = f
    BY <1>2, <2>1 DEF Time
  <2>2. CASE ~(t = s /\ e = f)
    BY <1>2, <2>2
  <2>3. QED
    BY <2>1, <2>2
<1>6. ASSUME NEW t \in DOMAIN new, NEW e \in DOMAIN new[t].entry, ~(t \in DOMAIN sec /\ e \in DOMAIN sec[t].entry)
      PROVE  /\ t = s /\ e = f /\ new[t].entry[e] = x
             /\ \A g \in DOMAIN new[t].entry : g <= f /\ (t \in DOMAIN sec /\ g \in DOMAIN sec[t].entry => g < f)
  <2>1. t = s /\ e = f /\ new[t].entry[e] = x
    BY <1>1, <1>6
  <2>2. f \notin DOMAIN Earlier(sec, s)
    BY <1>3, <1>6, <2>1
  <2>3. QED
    BY <1>3, <2>1, <2>2
<1>7. QED
  BY <1>4, <1>5, <1>6

LEMMA OrderedWrote ==
  ASSUME LogAssumption, ClockAssumption, clock \in DOMAIN Days, written \in Nat,
         NEW sec \in Seq(LogSection), NEW new, OneOfEach(new), NEW s, NEW f, NEW x, Time(x) = Log!Now,
         Wrote(sec, new, Log!Today, s, f, x), Ordered(sec, clock)
  PROVE  Ordered(new, clock)
<1>1. DaysOrdered(new, clock)
  <2>1. AlsoToday(sec, new, s)
    BY DEF AlsoToday, Wrote
  <2>2. QED
    BY <2>1, TodayOrdered DEF Ordered
<1>2. TimesOrdered(sec, clock)
  BY DEF Ordered
<1>3. \A t \in DOMAIN sec : new[t].name = sec[t].name /\ \A e \in DOMAIN sec[t].entry : Time(new[t].entry[e]) = Time(sec[t].entry[e])
  BY WroteTimes
<1>4. \A t \in DOMAIN new : \A e \in DOMAIN new[t].entry :
              \/ t \in DOMAIN sec /\ e \in DOMAIN sec[t].entry
              \/ /\ t = s /\ e = f /\ new[t].entry[e] = x
                 /\ \A g \in DOMAIN new[t].entry : g <= f /\ (t \in DOMAIN sec /\ g \in DOMAIN sec[t].entry => g < f)
  BY WroteTimes
<1>5. new[s].name = Log!Today /\ f \in Nat /\ \A e \in DOMAIN new[s].entry : e \in Nat
  BY WrotePlaces
<1>6. IsSecond(clock, Log!Today, Log!Now) /\ clock \in 1 .. clock /\ clock \in Nat
  BY NowAt
<1>7. ASSUME NEW t \in DOMAIN new, NEW e \in DOMAIN new[t].entry
      PROVE  \E i \in 1 .. clock : IsSecond(i, new[t].name, Time(new[t].entry[e]))
  <2>1. CASE t \in DOMAIN sec /\ e \in DOMAIN sec[t].entry
    <3>1. \E i \in 1 .. clock : IsSecond(i, sec[t].name, Time(sec[t].entry[e]))
      BY <1>2, <2>1 DEF TimesOrdered
    <3>2. QED
      BY <1>3, <2>1, <3>1
  <2>2. CASE t = s /\ new[t].entry[e] = x
    BY <1>5, <1>6, <2>2
  <2>3. QED
    BY <1>4, <1>7, <2>1, <2>2
<1>8. ASSUME NEW t \in DOMAIN new, NEW e \in DOMAIN new[t].entry, NEW g \in DOMAIN new[t].entry, e < g,
             NEW i \in DOMAIN Days, NEW j \in DOMAIN Days,
             IsSecond(i, new[t].name, Time(new[t].entry[e])), IsSecond(j, new[t].name, Time(new[t].entry[g]))
      PROVE  i <= j
  <2>1. CASE t \in DOMAIN sec /\ g \in DOMAIN sec[t].entry
    <3>1. e \in DOMAIN sec[t].entry
      <4>1. SUFFICES ASSUME e \notin DOMAIN sec[t].entry PROVE FALSE
        OBVIOUS
      <4>2. t = s /\ e = f /\ g < f
        BY <1>4, <1>8, <2>1, <4>1
      <4>3. QED
        BY <1>5, <1>8, <4>2
    <3>2. IsSecond(i, sec[t].name, Time(sec[t].entry[e])) /\ IsSecond(j, sec[t].name, Time(sec[t].entry[g]))
      BY <1>3, <1>8, <2>1, <3>1
    <3>3. QED
      BY <1>2, <1>8, <2>1, <3>1, <3>2 DEF TimesOrdered
  <2>2. CASE t = s /\ new[t].entry[g] = x
    <3>1. j = clock
      BY <1>5, <1>6, <1>8, <2>2, OneSecond
    <3>2. PICK h \in 1 .. clock : IsSecond(h, new[t].name, Time(new[t].entry[e]))
      BY <1>7, <1>8
    <3>3. h = i
      BY <1>8, <3>2, OneSecond
    <3>4. QED
      BY <1>6, <3>1, <3>2, <3>3
  <2>3. QED
    BY <1>4, <1>8, <2>1, <2>2
<1>9. TimesOrdered(new, clock)
  BY <1>7, <1>8 DEF TimesOrdered
<1>10. QED
  BY <1>1, <1>9 DEF Ordered

LEMMA OrderedWith ==
  ASSUME LogAssumption, ClockAssumption, clock \in DOMAIN Days, written \in Nat,
         NEW sec \in Seq(LogSection), NEW new, OneOfEach(new), NEW s, WithSection(sec, new, Log!Today, s), Ordered(sec, clock)
  PROVE  Ordered(new, clock)
<1>1. CASE new = sec
  BY <1>1
<1>2. CASE new # sec
  <2>1. new = Append(sec, [name |-> Log!Today, entry |-> <<>>]) /\ s = Len(sec) + 1
    BY <1>2 DEF WithSection
  <2>2. PICK y : y = [name |-> Log!Today, entry |-> <<>>]
    OBVIOUS
  <2>3. /\ DOMAIN sec = 1 .. Len(sec) /\ Len(sec) \in Nat /\ DOMAIN new = 1 .. Len(sec) + 1
        /\ new[s] = y /\ \A j \in DOMAIN sec : new[j] = sec[j]
    BY <2>1, <2>2, LenProperties, AppendProperties
  <2>4. y.name = Log!Today /\ DOMAIN y.entry = {}
    <3>1. DOMAIN <<>> = {}
      OBVIOUS
    <3>2. QED
      BY <2>2, <3>1
  <2>5. DOMAIN new = DOMAIN sec \cup {s} /\ s \in 1 .. Len(sec) + 1
    BY <2>1, <2>3
  <2>6. AlsoToday(sec, new, s)
    BY <2>3, <2>4, <2>5 DEF AlsoToday
  <2>7. DaysOrdered(new, clock)
    BY <2>6, TodayOrdered DEF Ordered
  <2>8. \A t \in DOMAIN new : \A e \in DOMAIN new[t].entry : t \in DOMAIN sec /\ new[t] = sec[t]
    BY <2>3, <2>4, <2>5
  <2>9. TimesOrdered(new, clock)
    BY <2>8 DEF Ordered, TimesOrdered
  <2>10. QED
    BY <2>7, <2>9 DEF Ordered
<1>3. QED
  BY <1>1, <1>2

LEMMA OrderedLater ==
  ASSUME NEW sec, NEW now \in Nat, Ordered(sec, now)
  PROVE  Ordered(sec, now + 1)
<1>1. 1 .. now \subseteq 1 .. now + 1
  OBVIOUS
<1>2. QED
  BY <1>1 DEF Ordered, DaysOrdered, TimesOrdered

\* What is read has the times of what was written.
LEMMA RereadTells ==
  ASSUME NEW x \in LogEntry
  PROVE  Reread(x) \in Bare /\ Time(Reread(x)) = Time(x) /\ Says(Reread(x)) = Says(x)
<1>1. PICK text : text = x.name \o x.value
  OBVIOUS
<1>2. text \in EntryText /\ text[1] = Time(x) /\ text[Len(text)] = Says(x)
  BY <1>1, EntryTextTells
<1>3. QED
  BY <1>1, <1>2, TextTells DEF Reread

LEMMA CutPlaces ==
  ASSUME NEW sec \in Seq(LogSection), NEW new, NEW s, NEW e, CutAt(sec, new, s, e)
  PROVE  \A t \in DOMAIN new :
           /\ t \in DOMAIN sec /\ new[t].name = sec[t].name
           /\ \A g \in DOMAIN new[t].entry :
                /\ g \in DOMAIN sec[t].entry /\ new[t].entry[g] \in Bare
                /\ Time(new[t].entry[g]) = Time(sec[t].entry[g]) /\ Says(new[t].entry[g]) = Says(sec[t].entry[g])
<1>1. DOMAIN sec = 1 .. Len(sec) /\ Len(sec) \in Nat
  BY LenProperties
<1>2. DOMAIN new = 1 .. s /\ s \in 0 .. Len(sec)
      /\ \A j \in 1 .. s : /\ new[j].name = sec[j].name /\ DOMAIN new[j].entry \subseteq DOMAIN sec[j].entry
                           /\ \A f \in DOMAIN new[j].entry : new[j].entry[f] = Reread(sec[j].entry[f])
  BY DEF CutAt
<1>3. ASSUME NEW t \in DOMAIN new, NEW g \in DOMAIN new[t].entry
      PROVE  /\ new[t].entry[g] \in Bare
             /\ Time(new[t].entry[g]) = Time(sec[t].entry[g]) /\ Says(new[t].entry[g]) = Says(sec[t].entry[g])
  <2>1. t \in DOMAIN sec /\ g \in DOMAIN sec[t].entry /\ new[t].entry[g] = Reread(sec[t].entry[g])
    BY <1>1, <1>2, <1>3
  <2>2. sec[t].entry[g] \in LogEntry
    BY <2>1, EntriesIn
  <2>3. QED
    BY <2>1, <2>2, RereadTells
<1>4. QED
  BY <1>1, <1>2, <1>3

LEMMA OrderedCut ==
  ASSUME NEW sec \in Seq(LogSection), NEW new, NEW s, NEW e, CutAt(sec, new, s, e), NEW now, Ordered(sec, now)
  PROVE  Ordered(new, now)
<1>1. \A t \in DOMAIN new :
           /\ t \in DOMAIN sec /\ new[t].name = sec[t].name
           /\ \A g \in DOMAIN new[t].entry : g \in DOMAIN sec[t].entry /\ Time(new[t].entry[g]) = Time(sec[t].entry[g])
  BY CutPlaces
<1>2. DaysOrdered(new, now)
  BY <1>1 DEF Ordered, DaysOrdered
<1>3. TimesOrdered(new, now)
  BY <1>1 DEF Ordered, TimesOrdered
<1>4. QED
  BY <1>2, <1>3 DEF Ordered

-----------------------------------------------------------------------------
(* The marks: the first line of a second that has one, and the last of all.   *)

LEMMA FirstStays ==
  ASSUME NEW sec \in Seq(LogSection), NEW new, NEW day, NEW s, NEW f, NEW x, Wrote(sec, new, day, s, f, x),
         Says(x).mark \/ x \in Counted, NEW d, NEW t, FirstIsMark(sec, d, t)
  PROVE  FirstIsMark(new, d, t)
<1>1. SUFFICES ASSUME NEW u \in DOMAIN new, new[u].name = d, NEW e \in DOMAIN new[u].entry, Time(new[u].entry[e]) = t,
                      \A g \in 1 .. e - 1 : Time(new[u].entry[g]) # t
               PROVE  Says(new[u].entry[e]).mark \/ new[u].entry[e] \in Counted
  BY DEF FirstIsMark
<1>2. \/ u = s /\ e = f /\ new[u].entry[e] = x
      \/ u \in DOMAIN sec /\ e \in DOMAIN sec[u].entry /\ new[u].entry[e] = sec[u].entry[e]
  BY WrotePlaces
<1>3. CASE new[u].entry[e] = x
  BY <1>3
<1>4. CASE u \in DOMAIN sec /\ e \in DOMAIN sec[u].entry /\ new[u].entry[e] = sec[u].entry[e]
  <2>1. sec[u].name = d /\ \A g \in DOMAIN sec[u].entry : Time(new[u].entry[g]) = Time(sec[u].entry[g])
    BY <1>1, <1>4, WroteTimes
  <2>2. DOMAIN sec[u].entry = 1 .. Len(sec[u].entry) /\ Len(sec[u].entry) \in Nat
    BY <1>4, EntriesIn
  <2>3. \A g \in 1 .. e - 1 : Time(sec[u].entry[g]) # t
    BY <1>1, <1>4, <2>1, <2>2
  <2>4. Time(sec[u].entry[e]) = t
    BY <1>1, <1>4
  <2>5. QED
    BY <1>4, <2>1, <2>3, <2>4 DEF FirstIsMark
<1>5. QED
  BY <1>2, <1>3, <1>4

\* A file without counters.
AllBare(sec) == \A s \in DOMAIN sec : \A e \in DOMAIN sec[s].entry : sec[s].entry[e] \in Bare

LEMMA BareTells ==
  ASSUME NEW x \in Bare
  PROVE  x \notin Counted /\ x.name = <<Time(x)>> /\ x \in LogEntry
<1>1. PICK t \in LogPart : x.name = <<t>>
  BY DEF Bare, Alone
<1>2. x.name \notin LogPart \X LogPart
  BY <1>1
<1>3. QED
  BY <1>1, <1>2 DEF Time, Counted, LogEntry

\* The start of the service is the first line of its second.
LEMMA StartIsFirst ==
  ASSUME NEW sec \in Seq(LogSection), AllBare(sec), NEW new, OneOfEach(new), NEW day, NEW s, NEW f, NEW x, Wrote(sec, new, day, s, f, x),
         NEW t, x.name = <<t>>, Time(x) = t, Says(x).mark,
         \A j \in 1 .. f - 1 : j \in DOMAIN Earlier(sec, s) => Earlier(sec, s)[j].name # <<t>>
  PROVE  FirstIsMark(new, day, t)
<1>1. SUFFICES ASSUME NEW u \in DOMAIN new, new[u].name = day, NEW e \in DOMAIN new[u].entry, Time(new[u].entry[e]) = t,
                      \A g \in 1 .. e - 1 : Time(new[u].entry[g]) # t
               PROVE  Says(new[u].entry[e]).mark
  BY DEF FirstIsMark
<1>2. /\ s \in DOMAIN new /\ f \in DOMAIN new[s].entry /\ new[s].entry[f] = x /\ new[s].name = day
      /\ f \in Nat /\ \A g \in DOMAIN new[s].entry : g \in Nat
  BY WrotePlaces
<1>3. u = s
  BY <1>1, <1>2 DEF OneOfEach
<1>4. f \in 1 .. Len(Earlier(sec, s)) + 1
  BY DEF Wrote
<1>5. ~(f < e)
  BY <1>1, <1>2, <1>3, <1>4
<1>6. CASE e = f
  BY <1>2, <1>3, <1>6
<1>7. CASE e # f
  <2>1. s \in DOMAIN sec /\ e \in DOMAIN sec[s].entry /\ new[s].entry[e] = sec[s].entry[e]
    BY <1>3, <1>7, WrotePlaces
  <2>2. sec[s].entry[e].name = <<t>>
    <3>1. sec[s].entry[e] \in Bare
      BY <2>1 DEF AllBare
    <3>2. QED
      BY <1>1, <1>3, <2>1, <3>1, BareTells
  <2>3. Earlier(sec, s) = sec[s].entry /\ DOMAIN sec[s].entry = 1 .. Len(sec[s].entry)
    BY <2>1, EntriesIn DEF Earlier
  <2>4. e \in 1 .. f - 1
    BY <1>2, <1>3, <1>5, <1>7, <2>1, <2>3
  <2>5. QED
    BY <2>1, <2>2, <2>3, <2>4
<1>8. QED
  BY <1>6, <1>7

LEMMA CountedStays ==
  ASSUME NEW sec \in Seq(LogSection), NEW new, NEW day, NEW s, NEW f, NEW x, Wrote(sec, new, day, s, f, x),
         NEW K, CountedKept(sec, K), NEW L, \A l \in K : ~l.bare => l \in L,
         x \in Counted => \E l \in L : ~l.mark /\ ~l.bare /\ l.day = day /\ l.time = Time(x)
  PROVE  CountedKept(new, L)
<1>1. SUFFICES ASSUME NEW u \in DOMAIN new, NEW e \in DOMAIN new[u].entry, new[u].entry[e] \in Counted
               PROVE  \E l \in L : ~l.mark /\ ~l.bare /\ l.day = new[u].name /\ l.time = Time(new[u].entry[e])
  BY DEF CountedKept
<1>2. CASE u = s /\ new[u].entry[e] = x
  BY <1>1, <1>2, WrotePlaces
<1>3. CASE u \in DOMAIN sec /\ e \in DOMAIN sec[u].entry /\ new[u].entry[e] = sec[u].entry[e]
  <2>1. new[u].name = sec[u].name
    BY <1>3, WroteTimes
  <2>2. \E l \in K : ~l.mark /\ ~l.bare /\ l.day = sec[u].name /\ l.time = Time(sec[u].entry[e])
    BY <1>1, <1>3 DEF CountedKept
  <2>3. QED
    BY <1>3, <2>1, <2>2
<1>4. QED
  BY <1>2, <1>3, WrotePlaces

\* After a mark, no other has come later.
LEMMA MarkIsLast ==
  ASSUME LogAssumption, ClockAssumption, clock \in DOMAIN Days, written \in Nat,
         NEW sec, TimesOrdered(sec, clock), NEW K, NEW m \in K, m.mark, m.day = Log!Today, m.time = Log!Now,
         \A k \in K : k # m => m.id > k.id
  PROVE  MarksLast(sec, K)
<1>1. SUFFICES ASSUME NEW s \in DOMAIN sec, NEW e \in DOMAIN sec[s].entry, NEW k \in K, NEW i \in DOMAIN Days, NEW j \in DOMAIN Days,
                      IsSecond(i, sec[s].name, Time(sec[s].entry[e])), IsSecond(j, k.day, k.time), j < i
               PROVE  \E y \in K : y.mark /\ y.id > k.id
  BY DEF MarksLast
<1>2. i \in 1 .. clock /\ clock \in Nat
  BY <1>1, NotLater, NowAt
<1>3. CASE k = m
  <2>1. j = clock
    BY <1>1, <1>3, NowAt, OneSecond
  <2>2. QED
    BY <1>1, <1>2, <2>1
<1>4. QED
  BY <1>3

\* Nor after another line.
LEMMA LineIsLast ==
  ASSUME LogAssumption, ClockAssumption, clock \in DOMAIN Days, written \in Nat,
         NEW sec \in Seq(LogSection), NEW new, NEW s, NEW f, NEW x, Wrote(sec, new, Log!Today, s, f, x), ~Says(x).mark,
         TimesOrdered(new, clock), NEW K, MarksLast(sec, K), NEW m, m.day = Log!Today, m.time = Log!Now
  PROVE  MarksLast(new, K \cup {m})
<1>1. SUFFICES ASSUME NEW u \in DOMAIN new, NEW e \in DOMAIN new[u].entry, Says(new[u].entry[e]).mark,
                      NEW k \in K \cup {m}, NEW i \in DOMAIN Days, NEW j \in DOMAIN Days,
                      IsSecond(i, new[u].name, Time(new[u].entry[e])), IsSecond(j, k.day, k.time), j < i
               PROVE  \E y \in K \cup {m} : y.mark /\ y.id > k.id
  BY DEF MarksLast
<1>2. CASE k \in K
  <2>1. u \in DOMAIN sec /\ e \in DOMAIN sec[u].entry /\ new[u].entry[e] = sec[u].entry[e]
    BY <1>1, WrotePlaces
  <2>2. new[u].name = sec[u].name
    BY <2>1, WroteTimes
  <2>3. Says(sec[u].entry[e]).mark /\ IsSecond(i, sec[u].name, Time(sec[u].entry[e]))
    BY <1>1, <2>1, <2>2
  <2>4. \E y \in K : y.mark /\ y.id > k.id
    BY <1>1, <1>2, <2>1, <2>3 DEF MarksLast
  <2>5. QED
    BY <2>4
<1>3. CASE k = m
  <2>1. j = clock
    BY <1>1, <1>3, NowAt, OneSecond
  <2>2. i \in 1 .. clock /\ clock \in Nat
    BY <1>1, NotLater, NowAt
  <2>3. QED
    BY <1>1, <2>1, <2>2
<1>4. QED
  BY <1>2, <1>3

\* The log in memory after a mark, and after another line.
LEMMA MarkOrder ==
  ASSUME LogAssumption, ClockAssumption, clock \in DOMAIN Days, written \in Nat,
         NEW sec \in Seq(LogSection), NEW new, OneOfEach(new), NEW s, NEW f, NEW x, Time(x) = Log!Now, Says(x).mark,
         Wrote(sec, new, Log!Today, s, f, x), NEW before, before \subseteq KeptLine,
         Ordered(sec, clock), MarksFirst(sec, before), Ids(before, written), FirstIsMark(new, Log!Today, Log!Now),
         NEW K, K = Remains(before) \cup {Log!Kept(TRUE, TRUE)}, CountedKept(new, K)
  PROVE  LogOrdered(new, K, clock, written + 1)
<1>1. PICK m : m = Log!Kept(TRUE, TRUE)
  OBVIOUS
<1>2. m.id = written + 1 /\ m.mark = TRUE /\ m.day = Log!Today /\ m.time = Log!Now /\ m.bare = TRUE
  BY <1>1, KeptNow
<1>3. K = Remains(before) \cup {m} /\ m \in K
  BY <1>1
<1>4. Ordered(new, clock)
  BY OrderedWrote
<1>5. \A k \in Remains(before) : k \in before /\ k.id \in Nat /\ k.id <= written /\ (k.mark => k.bare) /\ (k.bare => ~(k.day = Log!Today /\ k.time = Log!Now))
  BY DEF Remains, Ids, KeptLine
<1>6. \A k \in K : k = m \/ (k.id \in Nat /\ k.id <= written /\ (k.mark => k.bare))
  BY <1>3, <1>5
<1>12. Ids(K, written + 1)
  <2>1. ASSUME NEW k \in K PROVE k.id <= written + 1 /\ (k.mark => k.bare)
    <3>1. CASE k = m
      BY <1>2, <3>1
    <3>2. CASE k # m
      <4>1. k.id \in Nat /\ k.id <= written
        BY <1>6, <3>2
      <4>2. k.mark => k.bare
        BY <1>6, <3>2
      <4>3. QED
        BY <4>1, <4>2
    <3>3. QED
      BY <3>1, <3>2
  <2>2. QED
    BY <2>1 DEF Ids
<1>7. MarksLast(new, K)
  <2>1. ASSUME NEW k \in K, k # m PROVE m.id > k.id
    <3>1. k.id \in Nat /\ k.id <= written
      BY <1>6, <2>1
    <3>2. QED
      BY <1>2, <3>1
  <2>2. TimesOrdered(new, clock)
    BY <1>4 DEF Ordered
  <2>3. QED
    BY <1>2, <1>3, <2>1, <2>2, MarkIsLast
<1>8. MarksFirst(new, K)
  <2>1. SUFFICES ASSUME NEW k \in K, k.mark PROVE FirstIsMark(new, k.day, k.time) \/ Shares(K, k)
    BY DEF MarksFirst
  <2>2. CASE k = m
    BY <1>2, <2>2
  <2>3. CASE k \in Remains(before)
    <3>1. FirstIsMark(sec, k.day, k.time) \/ Shares(before, k)
      BY <1>5, <2>1, <2>3 DEF MarksFirst
    <3>2. CASE FirstIsMark(sec, k.day, k.time)
      BY <3>2, FirstStays
    <3>3. CASE Shares(before, k)
      <4>1. PICK l \in before : ~l.mark /\ l.day = k.day /\ l.time = k.time
        BY <3>3 DEF Shares
      <4>2. ~(k.day = Log!Today /\ k.time = Log!Now)
        BY <1>5, <2>1, <2>3
      <4>3. l \in Remains(before)
        BY <4>1, <4>2 DEF Remains
      <4>4. QED
        BY <1>3, <4>1, <4>3 DEF Shares
    <3>4. QED
      BY <3>1, <3>2, <3>3
  <2>4. QED
    BY <1>3, <2>1, <2>2, <2>3
<1>9. <<Days[clock]>> = Log!Today /\ Times[clock] = Log!Now
  BY WrittenNow
<1>10. FirstIsMark(new, <<Days[clock]>>, Times[clock])
  BY <1>9
<1>11. QED
  BY <1>4, <1>7, <1>8, <1>10, <1>12 DEF LogOrdered, FileOrdered

LEMMA LineOrder ==
  ASSUME LogAssumption, ClockAssumption, clock \in DOMAIN Days, written \in Nat,
         NEW sec \in Seq(LogSection), NEW new, OneOfEach(new), NEW s, NEW f, NEW x \in Counted, Time(x) = Log!Now, ~Says(x).mark,
         Wrote(sec, new, Log!Today, s, f, x), NEW K \in SUBSET KeptLine, LogOrdered(sec, K, clock, written)
  PROVE  LogOrdered(new, K \cup {Log!Kept(FALSE, FALSE)}, clock, written + 1)
<1>1. PICK m : m = Log!Kept(FALSE, FALSE)
  OBVIOUS
<1>2. m.id = written + 1 /\ m.mark = FALSE /\ m.day = Log!Today /\ m.time = Log!Now /\ m.bare = FALSE
  BY <1>1, KeptNow
<1>3. /\ Ordered(sec, clock) /\ MarksFirst(sec, K) /\ MarksLast(sec, K) /\ Ids(K, written)
      /\ CountedKept(sec, K) /\ FirstIsMark(sec, <<Days[clock]>>, Times[clock])
  BY DEF LogOrdered, FileOrdered
<1>4. Ordered(new, clock)
  BY <1>3, OrderedWrote
<1>5. Ids(K \cup {m}, written + 1)
  <2>1. \A k \in K : k.id \in Nat /\ k.id <= written /\ (k.mark => k.bare)
    BY <1>3 DEF Ids, KeptLine
  <2>2. QED
    BY <1>2, <2>1 DEF Ids
<1>6. MarksLast(new, K \cup {m})
  <2>1. TimesOrdered(new, clock)
    BY <1>4 DEF Ordered
  <2>2. QED
    BY <1>2, <1>3, <2>1, LineIsLast
<1>7. MarksFirst(new, K \cup {m})
  <2>1. SUFFICES ASSUME NEW k \in K, k.mark PROVE FirstIsMark(new, k.day, k.time) \/ Shares(K \cup {m}, k)
    BY <1>2 DEF MarksFirst
  <2>2. FirstIsMark(sec, k.day, k.time) => FirstIsMark(new, k.day, k.time)
    BY FirstStays
  <2>3. Shares(K, k) => Shares(K \cup {m}, k)
    BY DEF Shares
  <2>4. QED
    BY <1>3, <2>1, <2>2, <2>3 DEF MarksFirst
<1>8. CountedKept(new, K \cup {m})
  BY <1>2, <1>3, CountedStays
<1>9. FirstIsMark(new, <<Days[clock]>>, Times[clock])
  BY <1>3, FirstStays
<1>10. LogOrdered(new, K \cup {m}, clock, written + 1)
  BY <1>4, <1>5, <1>6, <1>7, <1>8, <1>9 DEF LogOrdered, FileOrdered
<1>11. QED
  BY <1>1, <1>10

\* A line that is dropped leaves its section.
LEMMA DroppedOrder ==
  ASSUME LogAssumption, ClockAssumption, clock \in DOMAIN Days, written \in Nat,
         NEW sec \in Seq(LogSection), NEW new, OneOfEach(new), NEW s, WithSection(sec, new, Log!Today, s),
         NEW K \in SUBSET KeptLine, LogOrdered(sec, K, clock, written)
  PROVE  LogOrdered(new, K, clock, written + 1)
<1>1. /\ Ordered(sec, clock) /\ MarksFirst(sec, K) /\ MarksLast(sec, K) /\ Ids(K, written)
      /\ CountedKept(sec, K) /\ FirstIsMark(sec, <<Days[clock]>>, Times[clock])
  BY DEF LogOrdered, FileOrdered
<1>2. Ordered(new, clock)
  BY <1>1, OrderedWith
<1>3. \A t \in DOMAIN new : \A e \in DOMAIN new[t].entry : t \in DOMAIN sec /\ new[t] = sec[t]
  <2>1. CASE new = sec
    BY <2>1
  <2>2. CASE new # sec
    <3>1. new = Append(sec, [name |-> Log!Today, entry |-> <<>>])
      BY <2>2 DEF WithSection
    <3>2. PICK y : y = [name |-> Log!Today, entry |-> <<>>]
      OBVIOUS
    <3>3. /\ DOMAIN sec = 1 .. Len(sec) /\ Len(sec) \in Nat /\ DOMAIN new = 1 .. Len(sec) + 1
          /\ new[Len(sec) + 1] = y /\ \A j \in DOMAIN sec : new[j] = sec[j]
      BY <3>1, <3>2, LenProperties, AppendProperties
    <3>4. DOMAIN y.entry = {}
      <4>1. DOMAIN <<>> = {}
        OBVIOUS
      <4>2. QED
        BY <3>2, <4>1
    <3>5. QED
      BY <3>3, <3>4
  <2>3. QED
    BY <2>1, <2>2
<1>4. \A d, t : FirstIsMark(sec, d, t) => FirstIsMark(new, d, t)
  BY <1>3 DEF FirstIsMark
<1>5. MarksFirst(new, K)
  BY <1>1, <1>4 DEF MarksFirst
<1>6. MarksLast(new, K)
  BY <1>1, <1>3 DEF MarksLast
<1>7. CountedKept(new, K)
  BY <1>1, <1>3 DEF CountedKept
<1>8. Ids(K, written + 1)
  BY <1>1 DEF Ids, KeptLine
<1>9. QED
  BY <1>1, <1>2, <1>4, <1>5, <1>6, <1>7, <1>8 DEF LogOrdered, FileOrdered

\* The file after it is saved, and while it is.
LEMMA SavedOrder ==
  ASSUME LogAssumption, NEW o, LogSound(o), NEW K, NEW now, NEW n, LogOrdered(o.sec, K, now, n)
  PROVE  FileOrdered(LogRead(Log!SaveToString(o, FALSE)).sec, K, now, n)
<1>1. PICK sec, file : sec = o.sec /\ file = Log!SaveToString(o, FALSE)
  OBVIOUS
<1>2. sec \in Seq(LogSection)
  BY <1>1, SectionsOf DEF LogSound
<1>3. PICK new : new = LogRead(file).sec
  OBVIOUS
<1>4. ReadsTo(file, sec, Len(sec), AllOf(sec, Len(sec)))
  BY <1>1, SavedReads
<1>5. file \in Seq(LogText) /\ CutAt(sec, new, Len(sec), AllOf(sec, Len(sec)))
  BY <1>3, <1>4, ReadSound DEF ReadsTo
<1>6. /\ Ordered(sec, now) /\ MarksFirst(sec, K) /\ MarksLast(sec, K) /\ Ids(K, n) /\ CountedKept(sec, K)
  BY <1>1 DEF LogOrdered, FileOrdered
<1>7. Ordered(new, now)
  BY <1>2, <1>5, <1>6, OrderedCut
<1>8. \A t \in DOMAIN new :
           /\ t \in DOMAIN sec /\ new[t].name = sec[t].name
           /\ \A g \in DOMAIN new[t].entry :
                /\ g \in DOMAIN sec[t].entry /\ new[t].entry[g] \in Bare
                /\ Time(new[t].entry[g]) = Time(sec[t].entry[g]) /\ Says(new[t].entry[g]) = Says(sec[t].entry[g])
  BY <1>2, <1>5, CutPlaces
<1>9. MarksLast(new, K)
  BY <1>6, <1>8 DEF MarksLast
<1>10. MarksFirst(new, K)
  <2>1. SUFFICES ASSUME NEW k \in K, k.mark, ~Shares(K, k) PROVE FirstIsMark(new, k.day, k.time)
    BY DEF MarksFirst
  <2>2. FirstIsMark(sec, k.day, k.time)
    BY <1>6, <2>1 DEF MarksFirst
  <2>3. SUFFICES ASSUME NEW u \in DOMAIN new, new[u].name = k.day, NEW e \in DOMAIN new[u].entry, Time(new[u].entry[e]) = k.time,
                        \A g \in 1 .. e - 1 : Time(new[u].entry[g]) # k.time
                 PROVE  Says(new[u].entry[e]).mark
    BY DEF FirstIsMark
  <2>4. u \in DOMAIN sec /\ sec[u].name = k.day /\ e \in DOMAIN sec[u].entry /\ Time(sec[u].entry[e]) = k.time
    BY <1>8, <2>3
  <2>5. DOMAIN new[u].entry = 1 .. (IF u = Len(sec) THEN AllOf(sec, Len(sec)) ELSE Len(sec[u].entry))
    BY <1>2, <1>5, <2>3, LenProperties DEF CutAt
  <2>6. DOMAIN sec[u].entry = 1 .. Len(sec[u].entry) /\ Len(sec[u].entry) \in Nat /\ DOMAIN sec = 1 .. Len(sec) /\ Len(sec) \in Nat
    BY <1>2, <2>4, EntriesIn, LenProperties
  <2>7. u = Len(sec) => AllOf(sec, Len(sec)) = Len(sec[u].entry)
    BY <2>4, <2>6 DEF AllOf
  <2>8. DOMAIN new[u].entry = DOMAIN sec[u].entry
    BY <2>5, <2>6, <2>7
  <2>9. \A g \in 1 .. e - 1 : g \in DOMAIN new[u].entry
    BY <2>3, <2>6, <2>8
  <2>10. \A g \in 1 .. e - 1 : Time(sec[u].entry[g]) # k.time
    BY <1>8, <2>3, <2>9
  <2>11. Says(sec[u].entry[e]).mark \/ sec[u].entry[e] \in Counted
    BY <2>2, <2>4, <2>10 DEF FirstIsMark
  <2>12. sec[u].entry[e] \notin Counted
    BY <1>6, <2>1, <2>4 DEF CountedKept, Shares
  <2>13. QED
    BY <1>8, <2>3, <2>11, <2>12
<1>11. FileOrdered(new, K, now, n)
  BY <1>6, <1>7, <1>9, <1>10 DEF FileOrdered
<1>12. QED
  BY <1>1, <1>3, <1>11

\* What is read has no counters.
LEMMA ReadBare ==
  ASSUME LogAssumption, NEW q \in Seq(LogText)
  PROVE  AllBare(LogRead(q).sec)
<1>1. PICK a : /\ a[0] = ReadStart /\ a[Len(q)] = ReadAll(q)
               /\ \A j \in 1 .. Len(q) : a[j] = ReadStep(a[j - 1], q[j])
  BY ReadUnrolls
<1>2. Len(q) \in Nat /\ \A i \in 1 .. Len(q) : q[i] \in LogText
  BY LenProperties, ElementOfSeq
<1> DEFINE P == {k \in 0 .. Len(q) : a[k] \in ReadType /\ AllBare(a[k].obj.sec)}
<1>3. 0 \in P
  <2>1. a[0].obj.sec = <<>> /\ a[0] \in ReadType
    BY <1>1, StartTells
  <2>2. AllBare(<<>>)
    BY DEF AllBare
  <2>3. QED
    BY <1>2, <2>1, <2>2
<1>4. ASSUME NEW j \in 1 .. Len(q), j - 1 \in P PROVE j \in P
  <2>1. PICK p, r, line : p = a[j - 1] /\ r = a[j] /\ line = q[j]
    OBVIOUS
  <2>2. p \in ReadType /\ AllBare(p.obj.sec) /\ line \in LogText /\ r = ReadStep(p, line)
    BY <1>1, <1>2, <1>4, <2>1
  <2>3. /\ r \in ReadType
        /\ line.section => WithSection(p.obj.sec, r.obj.sec, line.text, r.cur)
        /\ ~line.section /\ p.cur = -1 => r = p
        /\ ~line.section /\ p.cur # -1 => Appends(p.obj.sec, r.obj.sec, p.cur, FromText(line.text))
    BY <2>2, ReadStepTells
  <2>4. PICK sec, new : sec = p.obj.sec /\ new = r.obj.sec
    OBVIOUS
  <2>5. sec \in Seq(LogSection) /\ AllBare(sec)
    BY <2>2, <2>4, SectionsOf DEF ReadType, LogSound
  <2>6. DOMAIN sec = 1 .. Len(sec) /\ Len(sec) \in Nat
    BY <2>5, LenProperties
  <2>7. AllBare(new)
    <3>1. CASE line.section
      <4>1. WithSection(sec, new, line.text, r.cur)
        BY <2>3, <2>4, <3>1
      <4>2. CASE new = sec
        BY <2>5, <4>2
      <4>3. CASE new = Append(sec, [name |-> line.text, entry |-> <<>>])
        <5>1. PICK y : y = [name |-> line.text, entry |-> <<>>]
          OBVIOUS
        <5>2. DOMAIN new = 1 .. Len(sec) + 1 /\ new[Len(sec) + 1] = y /\ \A i \in DOMAIN sec : new[i] = sec[i]
          BY <2>5, <2>6, <4>3, <5>1, AppendProperties
        <5>3. DOMAIN y.entry = {}
          <6>1. DOMAIN <<>> = {}
            OBVIOUS
          <6>2. QED
            BY <5>1, <6>1
        <5>4. QED
          BY <2>5, <2>6, <5>2, <5>3 DEF AllBare
      <4>4. QED
        BY <4>1, <4>2, <4>3 DEF WithSection
    <3>2. CASE ~line.section /\ p.cur = -1
      BY <2>3, <2>4, <2>5, <3>2
    <3>3. CASE ~line.section /\ p.cur # -1
      <4>1. PICK c, x : c = p.cur /\ x = FromText(line.text)
        OBVIOUS
      <4>2. Appends(sec, new, c, x)
        BY <2>3, <2>4, <3>3, <4>1
      <4>3. line.text \in EntryText
        BY <2>2, <3>3 DEF LogText, EntryText
      <4>4. x \in Bare
        BY <4>1, <4>3, TextTells
      <4>5. ASSUME NEW t \in DOMAIN new, NEW e \in DOMAIN new[t].entry PROVE new[t].entry[e] \in Bare
        <5>1. t \in DOMAIN sec
          BY <4>2, <4>5 DEF Appends
        <5>2. PICK u : u = sec[t].entry
          OBVIOUS
        <5>3. u \in Seq(LogEntry) /\ DOMAIN u = 1 .. Len(u) /\ Len(u) \in Nat /\ \A g \in DOMAIN u : u[g] \in Bare
          BY <2>5, <5>1, <5>2, EntriesIn DEF AllBare
        <5>4. CASE t # c
          BY <4>2, <4>5, <5>1, <5>2, <5>3, <5>4 DEF Appends
        <5>5. CASE t = c
          <6>1. new[t].entry = Append(u, x)
            BY <4>2, <5>1, <5>2, <5>5 DEF Appends
          <6>2. x \in LogEntry
            BY <4>4 DEF LogEntry
          <6>3. DOMAIN new[t].entry = 1 .. Len(u) + 1 /\ new[t].entry[Len(u) + 1] = x /\ \A g \in 1 .. Len(u) : new[t].entry[g] = u[g]
            BY <5>3, <6>1, <6>2, AppendProperties
          <6>4. QED
            BY <4>4, <4>5, <5>3, <6>3
        <5>6. QED
          BY <5>4, <5>5
      <4>6. QED
        BY <4>5 DEF AllBare
    <3>4. QED
      BY <3>1, <3>2, <3>3
  <2>8. QED
    BY <1>2, <2>1, <2>3, <2>4, <2>7
<1> HIDE DEF P
<1>5. 0 .. Len(q) \subseteq P
  BY <1>2, <1>3, <1>4, UpTo
<1>6. AllBare(a[Len(q)].obj.sec)
  BY <1>2, <1>5 DEF P
<1>7. QED
  BY <1>1, <1>6, ReadSound

LEMMA NothingOrdered ==
  ASSUME LogAssumption, NEW now, NEW n
  PROVE  FileOrdered(LogRead(<<>>).sec, {}, now, n) /\ <<>> \in Seq(LogText)
<1>1. <<>> \in Seq(LogText)
  OBVIOUS
<1>2. LogRead(<<>>).sec = <<>>
  <2>1. PICK x : x \in LogText
    <3>1. PICK t : t \in LogPart
      <4>1. DOMAIN Days = 1 .. Len(Days) /\ Days \in Seq(LogPart) /\ Len(Days) \in Nat /\ (Len(Days) = 0 <=> Days = <<>>)
        BY LenProperties, EmptySeq DEF LogAssumption
      <4>2. 1 \in 1 .. Len(Days)
        BY <4>1 DEF LogAssumption
      <4>3. QED
        BY <4>1, <4>2, ElementOfSeq
    <3>2. [section |-> TRUE, text |-> <<t>>] \in LogText
      BY <3>1 DEF LogText, Alone
    <3>3. QED
      BY <3>2
  <2>2. ReadAll(<<>>) = ReadStart
    BY <1>1, <2>1, ReadsMore
  <2>3. QED
    BY <1>1, <2>2, ReadSound, StartTells
<1>3. DOMAIN <<>> = {}
  OBVIOUS
<1>4. QED
  BY <1>1, <1>2, <1>3 DEF FileOrdered, Ordered, DaysOrdered, TimesOrdered, MarksFirst, MarksLast, Ids

\* More lines, or a second more, make no difference to what lies in the file.
LEMMA FileLater ==
  ASSUME NEW sec, NEW K \in SUBSET KeptLine, NEW now \in Nat, NEW n \in Nat, FileOrdered(sec, K, now, n)
  PROVE  FileOrdered(sec, K, now, n + 1) /\ FileOrdered(sec, K, now + 1, n)
<1>1. Ids(K, n + 1)
  <2>1. ASSUME NEW k \in K PROVE k.id <= n + 1 /\ (k.mark => k.bare)
    <3>1. k.id \in Nat /\ k.id <= n /\ (k.mark => k.bare)
      BY <2>1 DEF FileOrdered, Ids, KeptLine
    <3>2. QED
      BY <3>1
  <2>2. QED
    BY <2>1 DEF Ids
<1>2. Ordered(sec, now + 1)
  BY OrderedLater DEF FileOrdered
<1>3. QED
  BY <1>1, <1>2 DEF FileOrdered

\* In the next second nothing is written yet.
LEMMA LogLater ==
  ASSUME LogAssumption, ClockAssumption, clock \in DOMAIN Days, written \in Nat, NEW sec, NEW K \in SUBSET KeptLine,
         LogOrdered(sec, K, clock, written), clock + 1 \in DOMAIN Days
  PROVE  LogOrdered(sec, K, clock + 1, written)
<1>1. clock \in Nat
  BY NowAt
<1>2. FileOrdered(sec, K, clock + 1, written)
  BY <1>1, FileLater DEF LogOrdered
<1>3. TimesOrdered(sec, clock)
  BY DEF LogOrdered, FileOrdered, Ordered
<1>4. PICK d, t : d = <<Days[clock + 1]>> /\ t = Times[clock + 1]
  OBVIOUS
<1>5. IsSecond(clock + 1, d, t)
  BY <1>4 DEF IsSecond
<1>6. ASSUME NEW s \in DOMAIN sec, sec[s].name = d, NEW e \in DOMAIN sec[s].entry, Time(sec[s].entry[e]) = t PROVE FALSE
  <2>1. clock + 1 \in 1 .. clock
    BY <1>3, <1>5, <1>6, NotLater
  <2>2. QED
    BY <1>1, <2>1
<1>7. FirstIsMark(sec, d, t)
  BY <1>6 DEF FirstIsMark
<1>8. CountedKept(sec, K)
  BY DEF LogOrdered
<1>9. QED
  BY <1>2, <1>4, <1>7, <1>8 DEF LogOrdered

\* What the file must hold, as it is when the service starts.
LEMMA AgainBare ==
  ASSUME NEW sec, NEW n, NEW K \in SUBSET KeptLine, MarksFirst(sec, K), Ids(K, n),
         NEW before, before = {[k EXCEPT !.bare = TRUE] : k \in K}
  PROVE  before \in SUBSET KeptLine /\ MarksFirst(sec, before) /\ Ids(before, n)
<1>1. \A b \in before : \E k \in K :
        /\ b \in KeptLine /\ b.id = k.id /\ b.mark = k.mark /\ b.day = k.day /\ b.time = k.time /\ b.bare = TRUE
  <2>1. ASSUME NEW k \in K, NEW b, b = [k EXCEPT !.bare = TRUE]
        PROVE  b \in KeptLine /\ b.id = k.id /\ b.mark = k.mark /\ b.day = k.day /\ b.time = k.time /\ b.bare = TRUE
    <3>1. k \in KeptLine
      OBVIOUS
    <3>2. QED
      BY <2>1, <3>1 DEF KeptLine
  <2>2. QED
    BY <2>1
<1>2. \A k \in K : \E b \in before : b.mark = k.mark /\ b.day = k.day /\ b.time = k.time
  <2>1. ASSUME NEW k \in K PROVE \E b \in before : b.mark = k.mark /\ b.day = k.day /\ b.time = k.time
    <3>1. PICK b : b = [k EXCEPT !.bare = TRUE]
      OBVIOUS
    <3>2. k \in KeptLine /\ b \in before
      BY <3>1
    <3>3. b.mark = k.mark /\ b.day = k.day /\ b.time = k.time
      BY <3>1, <3>2 DEF KeptLine
    <3>4. QED
      BY <3>2, <3>3
  <2>2. QED
    BY <2>1
<1>3. before \in SUBSET KeptLine
  BY <1>1
<1>4. Ids(before, n)
  BY <1>1 DEF Ids
<1>5. MarksFirst(sec, before)
  <2>1. SUFFICES ASSUME NEW b \in before, b.mark PROVE FirstIsMark(sec, b.day, b.time) \/ Shares(before, b)
    BY DEF MarksFirst
  <2>2. PICK k \in K : b.mark = k.mark /\ b.day = k.day /\ b.time = k.time
    BY <1>1
  <2>3. FirstIsMark(sec, k.day, k.time) \/ Shares(K, k)
    BY <2>1, <2>2 DEF MarksFirst
  <2>4. CASE Shares(K, k)
    <3>1. PICK l \in K : ~l.mark /\ l.day = k.day /\ l.time = k.time
      BY <2>4 DEF Shares
    <3>2. PICK c \in before : c.mark = l.mark /\ c.day = l.day /\ c.time = l.time
      BY <1>2
    <3>3. QED
      BY <2>2, <3>1, <3>2 DEF Shares
  <2>5. CASE FirstIsMark(sec, k.day, k.time)
    BY <2>2, <2>5
  <2>6. QED
    BY <2>3, <2>4, <2>5
<1>6. QED
  BY <1>3, <1>4, <1>5

\* What the lines in memory and those of the file are.
LEMMA KeptLines ==
  ASSUME LogInv
  PROVE  /\ clock \in DOMAIN Days /\ written \in Nat /\ log_disk \in Seq(LogText) /\ inFile \in SUBSET KeptLine
         /\ up => LogSound(log_obj) /\ kept \in SUBSET KeptLine /\ log_obj.sec \in Seq(LogSection)
<1>1. /\ clock \in DOMAIN Days /\ written \in Nat /\ log_disk \in Seq(LogText) /\ (\A k \in inFile : k \in KeptLine)
      /\ up => LogSound(log_obj) /\ AllThere(log_obj.sec, kept)
  BY DEF LogInv
<1>2. up => kept \in SUBSET KeptLine
  BY <1>1 DEF AllThere
<1>3. up => log_obj.sec \in Seq(LogSection)
  BY <1>1, SectionsOf DEF LogSound
<1>4. QED
  BY <1>1, <1>2, <1>3

LEMMA OrderInvInit ==
  ASSUME LogAssumption, Log!Init
  PROVE  OrderInv
<1>1. log_disk = <<>> /\ up = FALSE /\ inFile = {}
  BY DEF Log!Init
<1>2. QED
  BY <1>1, NothingOrdered DEF OrderInv

LEMMA OrderInvServerInit ==
  ASSUME LogAssumption, ClockAssumption, LogInv, OrderInv, Log!ServerInit
  PROVE  OrderInv'
<1>1. clock \in DOMAIN Days /\ written \in Nat /\ log_disk \in Seq(LogText) /\ inFile \in SUBSET KeptLine
  BY KeptLines
<1>2. PICK o, before, r : o = LogRead(log_disk) /\ before = {[k EXCEPT !.bare = TRUE] : k \in inFile} /\ r = log_obj'
  OBVIOUS
<1>3. Log!LoadFromString(Log!NewObject, log_disk, FALSE) = o
  BY <1>2 DEF LogRead
<1>4. /\ up' = TRUE /\ written' = written + 1 /\ log_disk' = <<>> /\ inFile' = {} /\ clock' = clock
      /\ Log!WriteMark(o, before)
  BY <1>2, <1>3 DEF Log!ServerInit, Log!Writes
<1>5. r = Log!WriteEntry(Log!AddSection(o, Log!Today)[1], Log!Today, <<Log!Now>>, Log!Line(TRUE))
      /\ kept' = Remains(before) \cup {Log!Kept(TRUE, TRUE)}
  BY <1>2, <1>4 DEF Log!WriteMark, Remains
<1>6. LogSound(o) /\ o.lastent = -1
  BY <1>1, <1>2, ReadSound
<1>7. /\ LogSound(r)
      /\ \E s \in Nat, f \in Nat \ {0} :
              /\ Wrote(o.sec, r.sec, Log!Today, s, f, MarkEntry)
              /\ o.lastent = -1 => \A j \in 1 .. f - 1 : j \in DOMAIN Earlier(o.sec, s) => Earlier(o.sec, s)[j].name # <<Log!Now>>
  <2>1. r = Log!WriteEntry(Log!AddSection(o, Log!Today)[1], Log!Today, <<Log!Now>>, Log!Line(TRUE))
    BY <1>5
  <2>2. clock \in DOMAIN Days /\ written \in Nat /\ LogSound(o)
    BY <1>1, <1>6
  <2>3. QED
    BY <2>1, <2>2, MarkWritten, ZenonT(60)
<1>8. PICK x, t : x = MarkEntry /\ t = Log!Now
  OBVIOUS
<1>9. x \in Bare /\ x.name = <<t>> /\ Time(x) = t /\ Says(x).mark /\ x \notin Counted
  <2>1. x \in Bare /\ x.name = <<t>> /\ Time(x) = t /\ Says(x) = [id |-> written + 1, mark |-> TRUE]
    BY <1>1, <1>8, WrittenNow
  <2>2. QED
    BY <2>1, BareTells
<1>10. PICK sec, new : sec = o.sec /\ new = r.sec
  OBVIOUS
<1>11. sec \in Seq(LogSection) /\ OneOfEach(new) /\ AllBare(sec)
  BY <1>1, <1>2, <1>6, <1>7, <1>10, SectionsOf, ReadBare DEF LogSound
<1>12. PICK s \in Nat, f \in Nat \ {0} :
         /\ Wrote(sec, new, Log!Today, s, f, x)
         /\ \A j \in 1 .. f - 1 : j \in DOMAIN Earlier(sec, s) => Earlier(sec, s)[j].name # <<t>>
  BY <1>6, <1>7, <1>8, <1>10
<1>13. FirstIsMark(new, Log!Today, Log!Now)
  <2>1. FirstIsMark(new, Log!Today, t)
    BY <1>9, <1>11, <1>12, StartIsFirst
  <2>2. QED
    BY <1>8, <2>1
<1>14. FileOrdered(sec, inFile, clock, written)
  BY <1>2, <1>10 DEF OrderInv
<1>15. before \in SUBSET KeptLine /\ MarksFirst(sec, before) /\ Ids(before, written) /\ Ordered(sec, clock)
  BY <1>1, <1>2, <1>14, AgainBare DEF FileOrdered
<1>16. CountedKept(new, kept')
  <2>1. CountedKept(sec, {})
    BY <1>11, BareTells DEF CountedKept, AllBare
  <2>2. QED
    BY <1>9, <1>11, <1>12, <2>1, CountedStays
<1>17. PICK K : K = kept'
  OBVIOUS
<1>18. LogOrdered(new, K, clock, written + 1)
  <2>1. K = Remains(before) \cup {Log!Kept(TRUE, TRUE)} /\ CountedKept(new, K)
    BY <1>5, <1>16, <1>17
  <2>2. Time(x) = Log!Now /\ Says(x).mark
    BY <1>8, <1>9
  <2>3. QED
    BY <1>1, <1>11, <1>12, <1>13, <1>15, <2>1, <2>2, MarkOrder
<1>19. QED
  BY <1>2, <1>4, <1>10, <1>17, <1>18, NothingOrdered DEF OrderInv

LEMMA OrderInvWriteLog ==
  ASSUME LogAssumption, ClockAssumption, LogInv, OrderInv, Log!WriteLog
  PROVE  OrderInv'
<1>1. /\ up /\ up' = up /\ written' = written + 1 /\ clock' = clock /\ Log!WriteLine
      /\ \/ log_disk' = log_disk /\ inFile' = inFile
         \/ log_disk' = <<>> /\ inFile' = {}
  BY DEF Log!WriteLog, Log!Writes
<1>2. /\ clock \in DOMAIN Days /\ written \in Nat /\ inFile \in SUBSET KeptLine /\ LogSound(log_obj) /\ kept \in SUBSET KeptLine
      /\ log_obj.sec \in Seq(LogSection)
  BY <1>1, KeptLines
<1>3. LogOrdered(log_obj.sec, kept, clock, written) /\ FileOrdered(LogRead(log_disk).sec, inFile, clock, written)
  BY <1>1 DEF OrderInv
<1>4. PICK o, r, K : o = Log!AddSection(log_obj, Log!Today)[1] /\ r = log_obj' /\ K = kept'
  OBVIOUS
<1>5. r = Log!Counted(o) /\ K = IF Log!Room(o) THEN kept \cup {Log!Kept(FALSE, FALSE)} ELSE kept
  BY <1>1, <1>4 DEF Log!WriteLine
<1>6. /\ LogSound(r)
      /\ ~Log!Room(o) => \E s \in Nat : WithSection(log_obj.sec, r.sec, Log!Today, s)
      /\ Log!Room(o) => \E c \in LogPart, s \in Nat, f \in Nat \ {0} :
           Wrote(log_obj.sec, r.sec, Log!Today, s, f, CountEntry(c)) /\ f = Len(Earlier(log_obj.sec, s)) + 1
  BY <1>2, <1>4, <1>5, LineWritten
<1>7. PICK sec, new : sec = log_obj.sec /\ new = r.sec
  OBVIOUS
<1>8. OneOfEach(new) /\ sec \in Seq(LogSection) /\ LogOrdered(sec, kept, clock, written)
  BY <1>2, <1>3, <1>6, <1>7 DEF LogSound
<1>9. LogOrdered(new, K, clock, written + 1)
  <2>1. CASE ~Log!Room(o)
    <3>1. PICK s \in Nat : WithSection(sec, new, Log!Today, s)
      BY <1>6, <1>7, <2>1
    <3>2. LogOrdered(new, kept, clock, written + 1)
      BY <1>2, <1>8, <3>1, DroppedOrder
    <3>3. QED
      BY <1>5, <2>1, <3>2
  <2>2. CASE Log!Room(o)
    <3>1. PICK c \in LogPart, s \in Nat, f \in Nat \ {0} : Wrote(sec, new, Log!Today, s, f, CountEntry(c))
      BY <1>6, <1>7, <2>2
    <3>2. PICK x : x = CountEntry(c)
      OBVIOUS
    <3>3. x \in Counted /\ Time(x) = Log!Now /\ ~Says(x).mark
      <4>1. x \in Counted /\ Time(x) = Log!Now /\ Says(x) = [id |-> written + 1, mark |-> FALSE]
        BY <1>2, <3>2, WrittenNow
      <4>2. QED
        BY <4>1
    <3>4. Wrote(sec, new, Log!Today, s, f, x)
      BY <3>1, <3>2
    <3>5. LogOrdered(new, kept \cup {Log!Kept(FALSE, FALSE)}, clock, written + 1)
      BY <1>2, <1>8, <3>3, <3>4, LineOrder
    <3>6. QED
      BY <1>5, <2>2, <3>5
  <2>3. QED
    BY <2>1, <2>2
<1>10. FileOrdered(LogRead(log_disk').sec, inFile', clock, written + 1)
  <2>1. CASE log_disk' = log_disk /\ inFile' = inFile
    <3>1. clock \in Nat
      BY <1>2, NowAt
    <3>2. FileOrdered(LogRead(log_disk).sec, inFile, clock, written + 1)
      BY <1>2, <1>3, <3>1, FileLater
    <3>3. QED
      BY <2>1, <3>2
  <2>2. CASE log_disk' = <<>> /\ inFile' = {}
    BY <2>2, NothingOrdered
  <2>3. QED
    BY <1>1, <2>1, <2>2
<1>11. QED
  BY <1>1, <1>4, <1>7, <1>9, <1>10 DEF OrderInv

LEMMA OrderInvFlushEnds ==
  ASSUME LogAssumption, LogInv, OrderInv, Log!FlushEnds
  PROVE  OrderInv'
<1>1. /\ log_saving /\ up' = up /\ written' = written /\ clock' = clock /\ log_obj' = log_obj /\ kept' = kept /\ inFile' = kept
      /\ log_disk' = Log!SaveToString(log_obj, FALSE)
  BY DEF Log!FlushEnds, Log!SaveWrites
<1>2. up /\ LogSound(log_obj)
  BY <1>1 DEF LogInv
<1>3. LogOrdered(log_obj.sec, kept, clock, written)
  BY <1>2 DEF OrderInv
<1>4. FileOrdered(LogRead(log_disk').sec, kept, clock, written)
  BY <1>1, <1>2, <1>3, SavedOrder
<1>5. QED
  BY <1>1, <1>3, <1>4 DEF OrderInv

LEMMA OrderInvServerEnds ==
  ASSUME LogAssumption, ClockAssumption, LogInv, OrderInv, Log!ServerEnds
  PROVE  OrderInv'
<1>1. /\ up /\ up' = FALSE /\ written' = written + 1 /\ clock' = clock /\ inFile' = kept' /\ Log!WriteMark(log_obj, kept)
      /\ log_disk' = Log!SaveToString(log_obj', FALSE)
  BY DEF Log!ServerEnds, Log!Writes
<1>2. /\ clock \in DOMAIN Days /\ written \in Nat /\ LogSound(log_obj) /\ kept \in SUBSET KeptLine /\ log_obj.sec \in Seq(LogSection)
  BY <1>1, KeptLines
<1>3. PICK r, K : r = log_obj' /\ K = kept'
  OBVIOUS
<1>4. r = Log!WriteEntry(Log!AddSection(log_obj, Log!Today)[1], Log!Today, <<Log!Now>>, Log!Line(TRUE))
      /\ K = Remains(kept) \cup {Log!Kept(TRUE, TRUE)}
  BY <1>1, <1>3 DEF Log!WriteMark, Remains
<1>5. LogSound(r) /\ \E s \in Nat, f \in Nat \ {0} : Wrote(log_obj.sec, r.sec, Log!Today, s, f, MarkEntry)
  BY <1>2, <1>4, MarkWritten
<1>6. PICK x : x = MarkEntry
  OBVIOUS
<1>7. Time(x) = Log!Now /\ Says(x).mark /\ x \notin Counted
  <2>1. x \in Bare /\ Time(x) = Log!Now /\ Says(x) = [id |-> written + 1, mark |-> TRUE]
    BY <1>2, <1>6, WrittenNow
  <2>2. QED
    BY <2>1, BareTells
<1>8. PICK sec, new : sec = log_obj.sec /\ new = r.sec
  OBVIOUS
<1>9. PICK s \in Nat, f \in Nat \ {0} : Wrote(sec, new, Log!Today, s, f, x)
  BY <1>5, <1>6, <1>8
<1>10. sec \in Seq(LogSection) /\ OneOfEach(new) /\ LogOrdered(sec, kept, clock, written)
  BY <1>1, <1>2, <1>5, <1>8 DEF LogSound, OrderInv
<1>11. /\ Ordered(sec, clock) /\ MarksFirst(sec, kept) /\ Ids(kept, written) /\ CountedKept(sec, kept)
       /\ FirstIsMark(sec, <<Days[clock]>>, Times[clock])
  BY <1>10 DEF LogOrdered, FileOrdered
<1>12. FirstIsMark(new, Log!Today, Log!Now)
  <2>1. FirstIsMark(sec, Log!Today, Log!Now)
    BY <1>2, <1>11, WrittenNow
  <2>2. QED
    BY <1>7, <1>9, <1>10, <2>1, FirstStays
<1>13. CountedKept(new, K)
  <2>1. \A l \in kept : ~l.bare => l \in K
    BY <1>4 DEF Remains
  <2>2. QED
    BY <1>7, <1>9, <1>10, <1>11, <2>1, CountedStays
<1>14. LogOrdered(new, K, clock, written + 1)
  BY <1>2, <1>4, <1>7, <1>9, <1>10, <1>11, <1>12, <1>13, MarkOrder
<1>15. FileOrdered(LogRead(Log!SaveToString(r, FALSE)).sec, K, clock, written + 1)
  BY <1>5, <1>8, <1>14, SavedOrder
<1>16. FileOrdered(LogRead(log_disk').sec, inFile', clock', written')
  BY <1>1, <1>3, <1>15
<1>17. ~up'
  BY <1>1
<1>18. QED
  BY <1>16, <1>17 DEF OrderInv

LEMMA OrderInvServerDies ==
  ASSUME LogAssumption, LogInv, OrderInv, Log!ServerDies
  PROVE  OrderInv'
<1>1. /\ up /\ up' = FALSE /\ written' = written /\ clock' = clock /\ inFile' = inFile
      /\ log_disk' \in IF log_saving THEN {SubSeq(Log!SaveToString(log_obj, FALSE), 1, k) : k \in 0 .. Len(Log!SaveToString(log_obj, FALSE))}
                       ELSE {log_disk}
  BY DEF Log!ServerDies, Log!Crash
<1>2. LogSound(log_obj) /\ log_obj.sec \in Seq(LogSection) /\ (log_saving => inFile = {})
  BY <1>1, KeptLines DEF LogInv
<1>3. FileOrdered(LogRead(log_disk').sec, inFile, clock, written)
  <2>1. CASE log_saving
    <3>1. PICK file, sec : file = Log!SaveToString(log_obj, FALSE) /\ sec = log_obj.sec
      OBVIOUS
    <3>2. PICK k \in 0 .. Len(file) : log_disk' = SubSeq(file, 1, k)
      BY <1>1, <2>1, <3>1
    <3>3. Traced(file, sec)
      BY <1>2, <3>1, SavedReads
    <3>4. PICK s \in Nat, e \in Nat : ReadsTo(SubSeq(file, 1, k), sec, s, e)
      BY <3>3 DEF Traced
    <3>5. PICK part : part = SubSeq(file, 1, k)
      OBVIOUS
    <3>6. part \in Seq(LogText) /\ CutAt(sec, ReadAll(part).obj.sec, s, e)
      BY <3>4, <3>5 DEF ReadsTo
    <3>7. PICK new : new = LogRead(part).sec
      OBVIOUS
    <3>8. CutAt(sec, new, s, e)
      BY <3>6, <3>7, ReadSound
    <3>9. Ordered(sec, clock)
      BY <1>1, <3>1 DEF OrderInv, LogOrdered, FileOrdered
    <3>10. Ordered(new, clock)
      BY <1>2, <3>1, <3>8, <3>9, OrderedCut
    <3>11. FileOrdered(new, {}, clock, written)
      BY <3>10 DEF FileOrdered, MarksFirst, MarksLast, Ids
    <3>12. QED
      BY <1>2, <2>1, <3>2, <3>5, <3>7, <3>11
  <2>2. CASE ~log_saving
    <3>1. log_disk' = log_disk
      BY <1>1, <2>2
    <3>2. QED
      BY <3>1 DEF OrderInv
  <2>3. QED
    BY <2>1, <2>2
<1>4. ~up' /\ FileOrdered(LogRead(log_disk').sec, inFile', clock', written')
  BY <1>1, <1>3
<1>5. QED
  BY <1>4 DEF OrderInv

LEMMA OrderInvSecond ==
  ASSUME LogAssumption, ClockAssumption, LogInv, OrderInv, Log!Second
  PROVE  OrderInv'
<1>1. /\ clock < Len(Days) /\ clock' = clock + 1 /\ log_obj' = log_obj /\ log_disk' = log_disk /\ up' = up
      /\ written' = written /\ kept' = kept /\ inFile' = inFile
  BY DEF Log!Second
<1>2. clock \in DOMAIN Days /\ written \in Nat /\ inFile \in SUBSET KeptLine /\ (up => kept \in SUBSET KeptLine)
  BY KeptLines
<1>3. clock \in Nat /\ clock + 1 \in DOMAIN Days
  <2>1. DOMAIN Days = 1 .. Len(Days) /\ Len(Days) \in Nat
    BY LenProperties DEF LogAssumption
  <2>2. QED
    BY <1>1, <1>2, <2>1
<1>4. FileOrdered(LogRead(log_disk).sec, inFile, clock + 1, written)
  BY <1>2, <1>3, FileLater DEF OrderInv
<1>5. up => LogOrdered(log_obj.sec, kept, clock + 1, written)
  BY <1>2, <1>3, LogLater DEF OrderInv
<1>6. QED
  BY <1>1, <1>4, <1>5 DEF OrderInv

LEMMA OrderInvNext ==
  ASSUME LogAssumption, ClockAssumption, LogInv, OrderInv, [Log!Next]_(Log!logVars)
  PROVE  OrderInv'
<1>1. CASE UNCHANGED Log!logVars
  BY <1>1 DEF Log!logVars, OrderInv
<1>2. QED
  BY <1>1, OrderInvServerInit, OrderInvWriteLog, OrderInvFlushEnds, OrderInvServerEnds, OrderInvServerDies, OrderInvSecond DEF Log!Next

-----------------------------------------------------------------------------
(* The last session: the last mark of the file.                               *)

LEMMA LogGreatest ==
  ASSUME NEW n \in Nat, NEW M \in SUBSET (1 .. n), M # {}
  PROVE  Log!Max(M) \in M /\ \A y \in M : y <= Log!Max(M)
<1> DEFINE Less == {ss \in Nat \X Nat : ss[1] < ss[2]}
           R == {n - y : y \in M}
<1>1. PICK r \in R : \A y \in R : ~(<<y, r>> \in Less)
  <2>1. IsWellFoundedOn(Less, Nat)
    BY NatLessThanWellFounded DEF OpToRel
  <2>2. \A y \in M : n - y \in Nat /\ n - y \in R
    OBVIOUS
  <2>3. R \in SUBSET Nat
    BY <2>2
  <2>4. PICK y : y \in M
    OBVIOUS
  <2>5. R # {}
    BY <2>2, <2>4
  <2> HIDE DEF Less, R
  <2>6. QED
    BY <2>1, <2>3, <2>5, WFMin
<1>2. PICK m \in M : r = n - m
  OBVIOUS
<1>3. ASSUME NEW y \in M PROVE m >= y
  <2>1. n - y \in R /\ n - y \in Nat /\ r \in Nat
    BY <1>2
  <2>2. ~(<<n - y, r>> \in Less)
    BY <1>1, <2>1
  <2>3. ~(n - y < r)
    BY <2>1, <2>2
  <2>4. QED
    BY <1>2, <2>3
<1>4. \E x \in M : \A y \in M : x >= y
  BY <1>3
<1>5. Log!Max(M) \in M /\ \A y \in M : Log!Max(M) >= y
  BY <1>4 DEF Log!Max
<1>6. QED
  BY <1>5

\* An entry is looked up by its name: what is found is the first one that bears it.
LEMMA LookedUp ==
  ASSUME LogAssumption, NEW o, LogSound(o), o.lastent = -1, NEW s \in DOMAIN o.sec, NEW e \in DOMAIN o.sec[s].entry
  PROVE  \E g \in DOMAIN o.sec[s].entry :
           /\ o.sec[s].entry[g].name = o.sec[s].entry[e].name
           /\ \A j \in 1 .. g - 1 : o.sec[s].entry[j].name # o.sec[s].entry[e].name
           /\ Log!IsMark(Log!GetEntry(o, o.sec[s].name, o.sec[s].entry[e].name)[2]) <=> Says(o.sec[s].entry[g]).mark
<1>1. PICK day, name, q : day = o.sec[s].name /\ name = o.sec[s].entry[e].name /\ q = o.sec[s].entry
  OBVIOUS
<1>2. day \in Alone /\ \A g \in DOMAIN q : q[g] \in LogEntry
  BY <1>1, SectionsOf, EntriesIn DEF LogSound
<1>3. name \in LogName
  BY <1>1, <1>2, EntryParts
<1>4. PICK t, found : t = Log!FindSection(o, day)[2] /\ found = Log!FindEntry(o, day, name)
  OBVIOUS
<1>5. FoundAt(o.sec, day, t)
  BY <1>2, <1>4, LogFindsSection
<1>6. t = s
  BY <1>1, <1>5 DEF FoundAt, LogSound, OneOfEach
<1>7. 0 \notin DOMAIN o.sec
  BY SectionsOf DEF LogSound
<1>8. q = EntriesAt(o.sec, t)
  BY <1>1, <1>6, <1>7 DEF EntriesAt
<1>9. found[1].sec = o.sec /\ FoundAt(q, name, found[2]) /\ \A j \in 1 .. found[2] - 1 : q[j].name # name
  BY <1>2, <1>3, <1>4, <1>8, LogFindsEntry
<1>10. PICK g : g = found[2]
  OBVIOUS
<1>11. g # 0 /\ g \in DOMAIN q /\ q[g].name = name
  BY <1>1, <1>9, <1>10, SMTT(30) DEF FoundAt
<1>12. Log!GetEntry(o, day, name)[2] = q[g].value
  BY <1>1, <1>4, <1>6, <1>9, <1>10, <1>11, ZenonT(60) DEF Log!GetEntry
<1>13. Log!IsMark(Log!GetEntry(o, day, name)[2]) <=> Says(q[g]).mark
  BY <1>2, <1>11, <1>12, EntryParts
<1>14. QED
  BY <1>1, <1>9, <1>10, <1>11, <1>13

\* The mark that is looked for stands first in its second, and nothing after it is a mark.
LastMark(k) ==
  /\ k.mark /\ \A l \in inFile : l.mark => l.id <= k.id
  /\ \A l \in inFile \ {k} : <<l.day, l.time>> # <<k.day, k.time>>

LEMMA MarkIsFound ==
  ASSUME LogInv, OrderInv, NEW k \in inFile, LastMark(k), NEW sec, sec = LogRead(log_disk).sec,
         sec \in Seq(LogSection), AllBare(sec)
  PROVE  \E s \in DOMAIN sec : \E e \in DOMAIN sec[s].entry :
           /\ sec[s].name = k.day /\ Time(sec[s].entry[e]) = k.time /\ Says(sec[s].entry[e]).mark
           /\ \A g \in DOMAIN sec[s].entry : Time(sec[s].entry[g]) = k.time => e <= g
<1>1. IsThere(sec, [k EXCEPT !.bare = TRUE]) /\ k \in KeptLine
  BY DEF LogInv
<1>2. PICK b : b = [k EXCEPT !.bare = TRUE]
  OBVIOUS
<1>3. b.day = k.day /\ b.time = k.time
  BY <1>1, <1>2 DEF KeptLine
<1>4. PICK s \in DOMAIN sec : sec[s].name = k.day /\ \E e \in DOMAIN sec[s].entry : Time(sec[s].entry[e]) = k.time
  BY <1>1, <1>2, <1>3 DEF IsThere, Bears
<1>5. DOMAIN sec[s].entry = 1 .. Len(sec[s].entry) /\ Len(sec[s].entry) \in Nat
  BY EntriesIn
<1>6. PICK M : M = {e \in DOMAIN sec[s].entry : Time(sec[s].entry[e]) = k.time}
  OBVIOUS
<1>7. M \in SUBSET Nat /\ M # {}
  BY <1>4, <1>5, <1>6
<1>8. PICK e : e \in M /\ \A j \in M : e <= j
  BY <1>7, LogLeast
<1>9. e \in DOMAIN sec[s].entry /\ Time(sec[s].entry[e]) = k.time /\ \A g \in DOMAIN sec[s].entry : Time(sec[s].entry[g]) = k.time => e <= g
  BY <1>6, <1>8
<1>10. ~Shares(inFile, k)
  BY DEF Shares, LastMark
<1>11. FirstIsMark(sec, k.day, k.time)
  BY <1>10 DEF OrderInv, FileOrdered, MarksFirst, LastMark
<1>12. \A g \in 1 .. e - 1 : Time(sec[s].entry[g]) # k.time
  BY <1>5, <1>9
<1>13. Says(sec[s].entry[e]).mark
  BY <1>4, <1>9, <1>11, <1>12, BareTells DEF FirstIsMark, AllBare
<1>14. QED
  BY <1>4, <1>9, <1>13

\* What is looked up as a mark is not of a later second than the last mark.
LEMMA MarkIsBefore ==
  ASSUME LogAssumption, ClockAssumption, LogInv, OrderInv, NEW k \in inFile, LastMark(k),
         NEW o, o = LogRead(log_disk), NEW j \in 1 .. clock, IsSecond(j, k.day, k.time),
         NEW t \in DOMAIN o.sec, NEW f \in DOMAIN o.sec[t].entry,
         Log!IsMark(Log!GetEntry(o, o.sec[t].name, o.sec[t].entry[f].name)[2])
  PROVE  \E i \in DOMAIN Days : IsSecond(i, o.sec[t].name, Time(o.sec[t].entry[f])) /\ i <= j
<1>1. log_disk \in Seq(LogText) /\ clock \in DOMAIN Days /\ k \in KeptLine
  BY KeptLines
<1>2. LogSound(o) /\ o.lastent = -1
  BY <1>1, ReadSound
<1>3. Ordered(o.sec, clock) /\ MarksLast(o.sec, inFile)
  BY DEF OrderInv, FileOrdered
<1>4. j \in DOMAIN Days /\ j \in Nat /\ DOMAIN Days \subseteq Nat
  BY <1>1, NowAt, KeptLines, SMTT(30)
<1>5. PICK g \in DOMAIN o.sec[t].entry :
           /\ o.sec[t].entry[g].name = o.sec[t].entry[f].name
           /\ Log!IsMark(Log!GetEntry(o, o.sec[t].name, o.sec[t].entry[f].name)[2]) <=> Says(o.sec[t].entry[g]).mark
  BY <1>2, LookedUp, SMTT(30)
<1>6. Says(o.sec[t].entry[g]).mark /\ Time(o.sec[t].entry[g]) = Time(o.sec[t].entry[f])
  BY <1>5 DEF Time
<1>7. PICK i \in 1 .. clock : IsSecond(i, o.sec[t].name, Time(o.sec[t].entry[f]))
  BY <1>3 DEF Ordered, TimesOrdered
<1>8. i \in DOMAIN Days /\ i \in Nat
  BY <1>7 DEF IsSecond
<1>9. ~(j < i)
  <2>1. SUFFICES ASSUME j < i PROVE FALSE
    OBVIOUS
  <2>2. IsSecond(i, o.sec[t].name, Time(o.sec[t].entry[g]))
    BY <1>6, <1>7
  <2>3. PICK y \in inFile : y.mark /\ y.id > k.id
    BY <1>3, <1>4, <1>6, <1>8, <2>1, <2>2 DEF MarksLast
  <2>4. y.id <= k.id /\ y.id \in Nat /\ k.id \in Nat
    BY <1>1, <2>3, KeptLines DEF LastMark, KeptLine
  <2>5. QED
    BY <2>3, <2>4
<1>10. QED
  BY <1>4, <1>7, <1>8, <1>9

LEMMA LastSessionTells ==
  ASSUME LogAssumption, ClockAssumption, LogInv, OrderInv, NEW k \in inFile, LastMark(k), NEW o, o = LogRead(log_disk)
  PROVE  Log!LastSession(o) = <<k.day, <<k.time>>>>
<1> DEFINE marks == {p \in UNION {{s} \X DOMAIN o.sec[s].entry : s \in DOMAIN o.sec} : Log!IsMarkAt(o, p)}
           S == {p[1] : p \in marks}
           u == Log!Max(S)
           E == {p[2] : p \in {q \in marks : q[1] = u}}
           v == Log!Max(E)
<1>1. log_disk \in Seq(LogText) /\ clock \in DOMAIN Days /\ k \in KeptLine
  BY KeptLines
<1>2. LogSound(o) /\ o.lastent = -1
  BY <1>1, ReadSound
<1>3. PICK sec : sec = o.sec
  OBVIOUS
<1>4. sec \in Seq(LogSection) /\ AllBare(sec) /\ DOMAIN sec = 1 .. Len(sec) /\ Len(sec) \in Nat
  BY <1>1, <1>2, <1>3, SectionsOf, ReadBare DEF LogSound
<1>5. \A s \in DOMAIN sec : \A e \in DOMAIN sec[s].entry : sec[s].entry[e].name = <<Time(sec[s].entry[e])>>
  BY <1>4, BareTells DEF AllBare
<1>6. Ordered(sec, clock) /\ MarksLast(sec, inFile)
  BY <1>3 DEF OrderInv, FileOrdered
<1>7. PICK s \in DOMAIN sec : \E e \in DOMAIN sec[s].entry :
           /\ sec[s].name = k.day /\ Time(sec[s].entry[e]) = k.time /\ Says(sec[s].entry[e]).mark
           /\ \A g \in DOMAIN sec[s].entry : Time(sec[s].entry[g]) = k.time => e <= g
  BY <1>3, <1>4, MarkIsFound
<1>8. PICK e \in DOMAIN sec[s].entry :
           /\ sec[s].name = k.day /\ Time(sec[s].entry[e]) = k.time /\ Says(sec[s].entry[e]).mark
           /\ \A g \in DOMAIN sec[s].entry : Time(sec[s].entry[g]) = k.time => e <= g
  BY <1>7
<1>9. DOMAIN sec[s].entry = 1 .. Len(sec[s].entry) /\ Len(sec[s].entry) \in Nat
  BY <1>4, EntriesIn
<1>10. <<s, e>> \in marks
  <2>1. PICK g \in DOMAIN sec[s].entry :
           /\ sec[s].entry[g].name = sec[s].entry[e].name
           /\ \A j \in 1 .. g - 1 : sec[s].entry[j].name # sec[s].entry[e].name
           /\ Log!IsMark(Log!GetEntry(o, sec[s].name, sec[s].entry[e].name)[2]) <=> Says(sec[s].entry[g]).mark
    BY <1>2, <1>3, <1>8, LookedUp
  <2>2. Time(sec[s].entry[g]) = k.time
    BY <1>8, <2>1 DEF Time
  <2>3. e <= g /\ ~(e < g)
    BY <1>8, <1>9, <2>1, <2>2
  <2>4. e = g
    BY <1>9, <2>3
  <2>5. Log!IsMark(Log!GetEntry(o, sec[s].name, sec[s].entry[e].name)[2])
    BY <1>8, <2>1, <2>4
  <2>6. <<s, e>> \in UNION {{h} \X DOMAIN o.sec[h].entry : h \in DOMAIN o.sec}
    BY <1>3
  <2>7. Log!IsMarkAt(o, <<s, e>>)
    BY <1>3, <2>5 DEF Log!IsMarkAt
  <2>8. QED
    BY <2>6, <2>7, Zenon
<1>11. PICK j \in 1 .. clock : IsSecond(j, k.day, k.time)
  BY <1>6, <1>8 DEF Ordered, TimesOrdered
<1>12. j \in DOMAIN Days /\ j \in Nat /\ DOMAIN Days \subseteq Nat
  BY <1>1, <1>11, NowAt, KeptLines, SMTT(30)
<1>13. \A p \in marks : /\ p[1] \in DOMAIN o.sec /\ p[2] \in DOMAIN o.sec[p[1]].entry /\ p = <<p[1], p[2]>>
                        /\ Log!IsMarkAt(o, p)
  <2> SUFFICES ASSUME NEW p \in marks
               PROVE  /\ p[1] \in DOMAIN o.sec /\ p[2] \in DOMAIN o.sec[p[1]].entry /\ p = <<p[1], p[2]>>
                      /\ Log!IsMarkAt(o, p)
    BY Zenon
  <2>1. p \in UNION {{h} \X DOMAIN o.sec[h].entry : h \in DOMAIN o.sec} /\ Log!IsMarkAt(o, p)
    BY Zenon
  <2> HIDE DEF marks
  <2>2. PICK h \in DOMAIN o.sec : p \in {h} \X DOMAIN o.sec[h].entry
    BY <2>1
  <2>3. QED
    BY <2>1, <2>2
<1>14. Log!LastSession(o) = IF marks = {} THEN <<>> ELSE Log!NameAt(o, Log!LastPlace(marks))
  BY Zenon DEF Log!LastSession
<1>15. marks # {}
  BY <1>10, SMTT(30)
<1> HIDE DEF marks
<1>16. ASSUME NEW p \in marks
       PROVE  /\ p[1] \in DOMAIN sec /\ p[2] \in DOMAIN sec[p[1]].entry /\ p = <<p[1], p[2]>>
              /\ \E i \in DOMAIN Days : IsSecond(i, sec[p[1]].name, Time(sec[p[1]].entry[p[2]])) /\ i <= j
  <2>1. p[1] \in DOMAIN o.sec /\ p[2] \in DOMAIN o.sec[p[1]].entry /\ p = <<p[1], p[2]>>
        /\ Log!IsMark(Log!GetEntry(o, o.sec[p[1]].name, o.sec[p[1]].entry[p[2]].name)[2])
    BY <1>13, SMTT(30) DEF Log!IsMarkAt
  <2>2. \E i \in DOMAIN Days : IsSecond(i, o.sec[p[1]].name, Time(o.sec[p[1]].entry[p[2]])) /\ i <= j
    BY <1>11, <2>1, MarkIsBefore, ZenonT(60)
  <2>3. QED
    BY <1>3, <2>1, <2>2
<1>17. Log!LastSession(o) = <<sec[u].name, sec[u].entry[v].name>>
  <2>1. Log!LastPlace(marks) = <<u, v>>
    BY DEF Log!LastPlace
  <2> HIDE DEF u, v
  <2>2. Log!NameAt(o, <<u, v>>) = <<o.sec[u].name, o.sec[u].entry[v].name>>
    BY DEF Log!NameAt
  <2>3. QED
    BY <1>3, <1>14, <1>15, <2>1, <2>2
<1>18. S \in SUBSET (1 .. Len(sec)) /\ s \in S
  <2>1. \A p \in marks : p[1] \in 1 .. Len(sec)
    BY <1>4, <1>16
  <2>2. <<s, e>>[1] = s
    OBVIOUS
  <2>3. QED
    BY <1>10, <2>1, <2>2
<1> HIDE DEF S
<1>19. u \in S /\ s <= u
  BY <1>4, <1>18, LogGreatest
<1>20. PICK m \in marks : m[1] = u
  BY <1>19 DEF S
<1> HIDE DEF u
<1>21. u = s
  <2>1. u \in DOMAIN sec
    BY <1>16, <1>20
  <2>2. PICK i \in DOMAIN Days : IsSecond(i, sec[u].name, Time(sec[u].entry[m[2]])) /\ i <= j
    BY <1>16, <1>20
  <2>3. <<Days[i]>> = sec[u].name /\ <<Days[j]>> = sec[s].name
    BY <1>8, <1>11, <2>2 DEF IsSecond
  <2>4. ~(s < u)
    <3>1. SUFFICES ASSUME s < u PROVE FALSE
      OBVIOUS
    <3>2. j < i
      BY <1>6, <1>12, <2>1, <2>3, <3>1 DEF Ordered, DaysOrdered
    <3>3. QED
      BY <1>12, <2>2, <3>2
  <2>5. QED
    BY <1>4, <1>19, <2>1, <2>4
<1>22. E \in SUBSET (1 .. Len(sec[s].entry)) /\ e \in E
  <2>1. \A p \in marks : p[1] = u => p[2] \in 1 .. Len(sec[s].entry)
    BY <1>9, <1>16, <1>21
  <2>2. <<s, e>>[1] = s /\ <<s, e>>[2] = e
    OBVIOUS
  <2>3. QED
    BY <1>10, <1>21, <2>1, <2>2
<1> HIDE DEF E
<1>23. v \in E /\ e <= v
  BY <1>9, <1>22, LogGreatest
<1>24. PICK p \in marks : p[1] = u /\ p[2] = v
  BY <1>23 DEF E
<1> HIDE DEF v
<1>25. Time(sec[s].entry[v]) = k.time
  <2>1. v \in DOMAIN sec[s].entry
    BY <1>9, <1>22, <1>23
  <2>2. PICK i \in DOMAIN Days : IsSecond(i, sec[s].name, Time(sec[s].entry[v])) /\ i <= j
    BY <1>16, <1>21, <1>24
  <2>3. CASE v = e
    BY <1>8, <2>3
  <2>4. CASE v # e
    <3>1. e < v
      BY <1>9, <1>23, <2>1, <2>4
    <3>2. IsSecond(j, sec[s].name, Time(sec[s].entry[e]))
      BY <1>8, <1>11
    <3>3. j <= i
      BY <1>6, <1>12, <2>1, <2>2, <3>1, <3>2 DEF Ordered, TimesOrdered
    <3>4. i = j
      BY <1>12, <2>2, <3>3
    <3>5. QED
      BY <1>11, <2>2, <3>4 DEF IsSecond
  <2>5. QED
    BY <2>3, <2>4
<1>26. sec[u].name = k.day /\ sec[u].entry[v].name = <<k.time>>
  <2>1. v \in DOMAIN sec[s].entry
    BY <1>9, <1>22, <1>23
  <2>2. QED
    BY <1>5, <1>8, <1>21, <1>25, <2>1
<1>27. QED
  BY <1>26, <1>17

LEMMA ThereHas ==
  ASSUME NEW o, o.sec \in Seq(LogSection), NEW k, NEW b, IsThere(o.sec, b), b.day = k.day, b.time = k.time, b.id = k.id
  PROVE  Log!Has(o, k)
<1>1. PICK s \in DOMAIN o.sec : o.sec[s].name = k.day /\ \E e \in DOMAIN o.sec[s].entry : Bears(o.sec[s].entry[e], b)
  BY DEF IsThere
<1>2. PICK e \in DOMAIN o.sec[s].entry : Bears(o.sec[s].entry[e], b)
  BY <1>1
<1>3. PICK q, x : q = o.sec[s].entry /\ x = q[e]
  OBVIOUS
<1>4. x \in Log!Range(q)
  BY <1>2, <1>3 DEF Log!Range
<1>5. x.name[1] = k.time /\ Log!Last(x.value).id = k.id
  BY <1>2, <1>3 DEF Bears, Time, Says, Log!Last
<1>6. QED
  BY <1>1, <1>3, <1>4, <1>5 DEF Log!Has

\* All the lines are in their places.
LinesAreThere ==
  /\ up => \A k \in kept : Log!Has(log_obj, k)
  /\ \A k \in inFile : Log!Has(LogRead(log_disk), k)

LEMMA LogHolds ==
  ASSUME LogAssumption, LogInv
  PROVE  LinesAreThere
<1>1. ASSUME up, NEW k \in kept PROVE Log!Has(log_obj, k)
  <2>1. log_obj.sec \in Seq(LogSection)
    BY <1>1, KeptLines
  <2>2. IsThere(log_obj.sec, k)
    BY <1>1 DEF LogInv, AllThere
  <2>3. QED
    BY <2>1, <2>2, ThereHas
<1>2. ASSUME NEW k \in inFile PROVE Log!Has(LogRead(log_disk), k)
  <2>1. PICK o, b : o = LogRead(log_disk) /\ b = [k EXCEPT !.bare = TRUE]
    OBVIOUS
  <2>2. k \in KeptLine /\ IsThere(o.sec, b)
    BY <1>2, <2>1 DEF LogInv
  <2>3. b.day = k.day /\ b.time = k.time /\ b.id = k.id
    BY <2>1, <2>2 DEF KeptLine
  <2>4. log_disk \in Seq(LogText)
    BY KeptLines
  <2>5. o.sec \in Seq(LogSection)
    BY <2>1, <2>4, ReadSound, SectionsOf DEF LogSound
  <2>6. QED
    BY <2>1, <2>2, <2>3, <2>5, ThereHas
<1>3. QED
  BY <1>1, <1>2 DEF LinesAreThere

LEMMA StartKnows ==
  ASSUME LogAssumption, ClockAssumption, LogInv, OrderInv, [Log!Next]_(Log!logVars), ~up, up'
  PROVE  Log!LastSessionKnown
<1>1. Log!ServerInit
  BY KeptLines DEF Log!Next, Log!logVars, Log!WriteLog, Log!FlushEnds, Log!ServerEnds, Log!ServerDies, Log!Second
<1>2. ASSUME NEW k \in inFile, LastMark(k) PROVE lastsess' = <<k.day, <<k.time>>>>
  <2>1. PICK o : o = LogRead(log_disk)
    OBVIOUS
  <2>2. Log!LastSession(o) = <<k.day, <<k.time>>>>
    BY <1>2, <2>1, LastSessionTells
  <2>3. Log!LoadFromString(Log!NewObject, log_disk, FALSE) = o
    BY <2>1 DEF LogRead
  <2>4. lastsess' = Log!LastSession(o)
    BY <1>1, <2>3 DEF Log!ServerInit
  <2>5. QED
    BY <2>2, <2>4
<1>3. QED
  BY <1>2 DEF Log!LastSessionKnown, LastMark

\* A line once written stays in the log and in its file through flushes, stops and crashes, whatever
\* the clock does and however many lines, seconds and counters there are (WriteLog, WriteEntry,
\* SaveToString, LoadFromString).
THEOREM LogLinesStay ==
  ASSUME LogAssumption
  PROVE  Log!Spec => [](/\ up => \A k \in kept : Log!Has(log_obj, k)
                        /\ \A k \in inFile : Log!Has(Log!LoadFromString(Log!NewObject, log_disk, FALSE), k))
<1>1. Log!Init => LogInv
  BY LogInvInit
<1>2. LogInv /\ [Log!Next]_(Log!logVars) => LogInv'
  BY LogInvNext
<1>3. LogInv => /\ up => \A k \in kept : Log!Has(log_obj, k)
                /\ \A k \in inFile : Log!Has(Log!LoadFromString(Log!NewObject, log_disk, FALSE), k)
  BY LogHolds DEF LinesAreThere, LogRead
<1>4. QED
  BY <1>1, <1>2, <1>3, PTL DEF Log!Spec

\* And if the clock is not put back, the next start of the service finds when it started or stopped
\* last: the last mark of the file, unless another line has the same second (Init, WriteLog).
THEOREM LogKeeps ==
  ASSUME LogAssumption, ClockAssumption
  PROVE  Log!Spec => LogKeepsItsLines
<1>1. Log!Init => LogInv /\ OrderInv
  BY LogInvInit, OrderInvInit
<1>2. LogInv /\ OrderInv /\ [Log!Next]_(Log!logVars) => (LogInv /\ OrderInv)'
  BY LogInvNext, OrderInvNext
<1>3. LogInv /\ OrderInv => /\ up => \A k \in kept : Log!Has(log_obj, k)
                            /\ \A k \in inFile : Log!Has(Log!LoadFromString(Log!NewObject, log_disk, FALSE), k)
  BY LogHolds DEF LinesAreThere, LogRead
<1>4. LogInv /\ OrderInv /\ [Log!Next]_(Log!logVars) => [~up /\ up' => Log!LastSessionKnown]_(Log!logVars)
  BY StartKnows
<1>5. QED
  BY <1>1, <1>2, <1>3, <1>4, PTL DEF Log!Spec, LogKeepsItsLines, Log!LogKeepsItsLines
=============================================================================
