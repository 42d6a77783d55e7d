------------------------------ MODULE LogFile ------------------------------
(* The log of the Syslog server as it lies in an Inifile (WriteLog, Init and the destructor of *)
(* Syslog_Server): a section per day, an entry per line.  The name of an entry is the time of  *)
(* day, with a counter behind an equals sign unless the line is a rare event; it is saved      *)
(* unencrypted, so what is read back has the time alone as its name.                           *)
EXTENDS Inifile

CONSTANTS
  Days, Times,    \* sequences: day and time of day of each second
  Counters,       \* sequence: the counters of one second, in order
  MaxLines        \* bound: lines written

VARIABLES
  up,         \* the service runs
  clock,      \* the second, an index of Days and Times
  lastsess,   \* lastsess_date and lastsess_time, or <<>>
  written,    \* number of lines written so far
  kept,       \* ghost: the lines that must be in the object
  inFile      \* ghost: the lines that must be in the file

logVars == <<obj, disk, saving, up, clock, lastsess, written, kept, inFile>>

Today == <<Days[clock]>>
Now == Times[clock]

\* A line, numbered, is a start or stop of the service (mark) or another one.
Line(mark) == <<[id |-> written + 1, mark |-> mark]>>

\* A bare line has no counter in its name: a rare event, or one read from the file.
Kept(mark, bare) == [id |-> written + 1, mark |-> mark, day |-> Today, time |-> Now, bare |-> bare]

Room(o) == Len(Counters) > 0 /\ \E c \in Range(Counters) : FindEntry(o, Today, <<Now, c>>)[2] = 0

Counted_FirstOnly(o0) == WriteEntry(o0, Today, <<Now, Counters[1]>>, Line(FALSE))

\* The first counter of this second that is not taken yet; a line that finds none is dropped.
Counted(o0) ==
  LET Try(o, c) == IF o.done THEN o
                   ELSE LET f == FindEntry(o.obj, Today, <<Now, c>>)
                        IN IF f[2] # 0 THEN [o EXCEPT !.obj = f[1]]
                           ELSE [done |-> TRUE, obj |-> WriteEntry(f[1], Today, <<Now, c>>, Line(FALSE))]
  IN FoldLeft(Try, [done |-> FALSE, obj |-> o0], Counters).obj

\* WriteLog up to the flush.
WriteLine ==
  LET o == AddSection(obj, Today)[1]
  IN /\ obj' = Counted(o)
     /\ kept' = IF Room(o) THEN kept \cup {Kept(FALSE, FALSE)} ELSE kept

WriteMark(o0, before) ==
  LET o == AddSection(o0, Today)[1]
  IN /\ obj' = WriteEntry(o, Today, <<Now>>, Line(TRUE))
     /\ kept' = {k \in before : ~(k.bare /\ k.day = Today /\ k.time = Now)} \cup {Kept(TRUE, TRUE)}

Writes == written < MaxLines /\ written' = written + 1

\* Search for the last start or stop, from the end; an entry is looked up again by its name.
IsMark(value) == Len(value) = 1 /\ value[1].mark
IsMarkAt(o, p) == IsMark(GetEntry(o, o.sec[p[1]].name, o.sec[p[1]].entry[p[2]].name)[2])
LastPlace(marks) == LET s == Max({p[1] : p \in marks}) IN <<s, Max({p[2] : p \in {q \in marks : q[1] = s}})>>
NameAt(o, p) == <<o.sec[p[1]].name, o.sec[p[1]].entry[p[2]].name>>
LastSession(o) ==
  LET marks == {p \in UNION {{s} \X DOMAIN o.sec[s].entry : s \in DOMAIN o.sec} : IsMarkAt(o, p)}
  IN IF marks = {} THEN <<>> ELSE NameAt(o, LastPlace(marks))

Init ==
  /\ obj = NewObject /\ disk = <<>> /\ saving = FALSE
  /\ up = FALSE /\ clock = 1 /\ lastsess = <<>> /\ written = 0 /\ kept = {} /\ inFile = {}

\* Syslog_Server::Init: opens the log, looks for the last session, logs the start, flushes.
ServerInit ==
  LET o == LoadFromString(NewObject, disk, FALSE)
  IN /\ ~up /\ up' = TRUE
     /\ Writes
     /\ lastsess' = LastSession(o)
     /\ WriteMark(o, {[k EXCEPT !.bare = TRUE] : k \in inFile})
     /\ saving' = TRUE /\ disk' = <<>> /\ inFile' = {}
     /\ UNCHANGED clock

\* A line from a client or the server itself; some are flushed at once.
WriteLog ==
  /\ up /\ ~saving
  /\ Writes /\ WriteLine
  /\ \/ UNCHANGED <<saving, disk, inFile>>
     \/ saving' = TRUE /\ disk' = <<>> /\ inFile' = {}
  /\ UNCHANGED <<up, clock, lastsess>>

FlushEnds == SaveWrites(FALSE) /\ inFile' = kept /\ UNCHANGED <<up, clock, lastsess, written, kept>>

\* The destructor logs the end, flushes and is gone.
ServerEnds ==
  /\ up /\ ~saving /\ up' = FALSE
  /\ Writes /\ WriteMark(obj, kept)
  /\ disk' = SaveToString(obj', FALSE) /\ inFile' = kept'
  /\ UNCHANGED <<saving, clock, lastsess>>

\* The service dies; if it was writing the file, nothing is sure to be left.
ServerDies ==
  /\ up /\ up' = FALSE
  /\ Crash(FALSE)
  /\ kept' = {} /\ UNCHANGED <<inFile, clock, lastsess, written>>

Second == clock < Len(Days) /\ clock' = clock + 1 /\ UNCHANGED <<obj, disk, saving, up, lastsess, written, kept, inFile>>

Next == ServerInit \/ WriteLog \/ FlushEnds \/ ServerEnds \/ ServerDies \/ Second
Spec == Init /\ [][Next]_logVars

Has(o, k) == \E s \in DOMAIN o.sec : /\ o.sec[s].name = k.day
                                     /\ \E x \in Range(o.sec[s].entry) : /\ x.name[1] = k.time
                                                                         /\ Last(x.value).id = k.id
\* At the next start the last mark is found, unless another line of the file has the same second.
LastSessionKnown ==
  \A k \in inFile :
    (/\ k.mark /\ \A l \in inFile : l.mark => l.id <= k.id
     /\ \A l \in inFile \ {k} : <<l.day, l.time>> # <<k.day, k.time>>) => lastsess' = <<k.day, <<k.time>>>>

\* A line once written stays in the log, through flushes, stops and crashes, except if a start or
\* stop of the service falls into the same second as a line without a counter, which it replaces, or
\* if the service dies while it writes the file; and the next start knows when the service started
\* or stopped last (WriteLog, Init, FindEntry, LoadFromString).
LogKeepsItsLines ==
  /\ [](/\ up => \A k \in kept : Has(obj, k)
        /\ \A k \in inFile : Has(LoadFromString(NewObject, disk, FALSE), k))
  /\ [][~up /\ up' => LastSessionKnown]_logVars
=============================================================================
