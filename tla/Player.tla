------------------------------- MODULE Player -------------------------------
(* The audio player (SystrayPlayer.cpp on ActiveMovie.cpp): the playlist and what plays of it. *)
(*                                                                                             *)
(* Commands call each other: PlayNextFile ends with Command_Remove or Command_Play, and these  *)
(* with PlayNextFile.  A command is an operator from a state of the player to the one at its   *)
(* last call, with due set if that is PlayNextFile; the calls are then made one after another. *)
EXTENDS Integers, Sequences, SequencesExt

CONSTANTS
  Files,
  Renders,        \* what ActiveMovie::Open answers for each: "plays", "unplayable" (removed from the list), "fails"
  Repeats,        \* counts of the repeat field
  Stored,         \* the lists of files an earlier process may have left
  MaxList, MaxCalls         \* bounds

None == "none"
Off == -1

VARIABLES
  player,         \* see NewPlayer
  registry,       \* what SavePlaylist has stored
  calls           \* commands of the user so far

NewPlayer ==
  [list |-> <<>>,                       \* mentry: file, bRandomHasPlayed
   cur |-> 0, sel |-> 0,                \* pl_curfile, the selection of the ListBox; 0 is none
   state |-> "stop", loop |-> 0,        \* pl_state, pl_curloop
   allowed |-> FALSE,                   \* bShutdownAllowed
   open |-> None, at |-> "within",      \* the file of ActiveMovie; "end" with EC_COMPLETE to come, "over" after it
   random |-> FALSE, repeat |-> Off, shutdown |-> FALSE,    \* the check boxes
   due |-> FALSE,                       \* PlayNextFile is to be called
   heard |-> {}, clean |-> FALSE, astray |-> FALSE]         \* ghosts, for the pass through the list in random mode

Entry(file) == [file |-> file, played |-> FALSE]
ShutdownEnabled(p) == p.repeat # 0      \* IsWindowEnabled(chkshutdown)
Due(p) == [p EXCEPT !.due = TRUE]
Touched(p) == [p EXCEPT !.clean = FALSE]

Mark(p) == IF p.cur \in DOMAIN p.list THEN [p EXCEPT !.list[p.cur].played = TRUE] ELSE p

DecideNextFileToPlay(p) ==
  IF p.random THEN {i \in DOMAIN p.list : ~p.list[i].played} ELSE {p.cur + 1} \cap DOMAIN p.list

Command_Stop(p) ==
  IF p.state = "stop" THEN p
  ELSE [p EXCEPT !.state = "stop", !.open = None, !.at = "within", !.cur = 0, !.sel = 0]

Command_Pause(p) == [p EXCEPT !.allowed = FALSE, !.state = IF @ = "playing" THEN "paused" ELSE @]

Command_Play(p0, noresetcount) ==
  LET p == [p0 EXCEPT !.allowed = FALSE]
  IN CASE p.state = "stop" /\ p.list = <<>> -> p
       [] p.state = "stop" /\ p.list # <<>> ->
            Due([p EXCEPT !.state = "playing",
                          !.loop = IF noresetcount THEN @ ELSE 0,
                          !.cur = IF p.sel = 0 THEN 0 ELSE p.sel - 1,    \* the selection counts from 0
                          !.clean = p.random /\ p.sel = 0 /\ \A i \in DOMAIN p.list : ~p.list[i].played,
                          !.heard = {}])
       [] p.state = "paused" /\ p.at = "within" -> [p EXCEPT !.state = "playing"]
       [] p.state = "paused" /\ p.at # "within" -> Due([p EXCEPT !.state = "playing"])
       [] p.state = "playing" /\ p.sel = 0 -> p
       [] p.state = "playing" /\ p.sel # 0 /\ p.cur = p.sel -> [p EXCEPT !.at = "within"]
       [] p.state = "playing" /\ p.sel # 0 /\ p.cur # p.sel -> Due(Touched([p EXCEPT !.cur = p.sel - 1]))

Command_Remove_KeepsPlace(p0) ==
  LET i == p0.sel
      p == IF p0.state = "paused" THEN Command_Stop(p0) ELSE p0
      q == Touched([p EXCEPT !.list = RemoveAt(@, i), !.sel = 0])
  IN IF i = 0 THEN p0 ELSE IF p.state = "playing" /\ i = p.cur THEN Due(q) ELSE q

Command_Remove(p0) ==
  LET i == p0.sel
      p == IF p0.state = "paused" THEN Command_Stop(p0) ELSE p0
      q == Touched([p EXCEPT !.cur = IF p.state = "playing" /\ i <= @ THEN @ - 1 ELSE @,
                             !.list = RemoveAt(@, i), !.sel = 0])
  IN IF i = 0 THEN p0 ELSE IF p.state = "playing" /\ i = p.cur THEN Due(q) ELSE q

\* The chosen file is opened; one that cannot be played leaves the list, and the next is tried.
Opened(p) ==
  LET file == p.list[p.cur].file
  IN CASE Renders[file] = "plays" ->
            [p EXCEPT !.open = file, !.at = "within", !.sel = p.cur,
                      !.heard = @ \cup {p.cur}, !.astray = @ \/ (p.clean /\ p.cur \in p.heard)]
       [] Renders[file] = "unplayable" -> Command_Remove([p EXCEPT !.sel = p.cur])
       [] Renders[file] = "fails" -> [p EXCEPT !.heard = @ \cup {p.cur}]

\* The end of the list: again, or a shutdown if the user has asked for it.
PlaybackFinished(p) ==
  LET stopped == [Command_Stop(p) EXCEPT !.list = [i \in DOMAIN @ |-> Entry(@[i].file)], !.allowed = FALSE,
                                         !.astray = @ \/ (p.clean /\ p.heard # DOMAIN p.list)]
      next == [stopped EXCEPT !.loop = @ + 1]
      final(q) == [q EXCEPT !.allowed = ShutdownEnabled(q) /\ q.shutdown]
  IN CASE p.repeat = Off -> final(stopped)
       [] p.repeat = 0 -> Command_Play(next, FALSE)
       [] p.repeat > 0 /\ next.loop < p.repeat + 1 -> Command_Play(next, TRUE)
       [] p.repeat > 0 /\ next.loop >= p.repeat + 1 -> final(next)

\* The states it may leave, by the choice of the file.
PlayNextFile(p0) ==
  LET p == [p0 EXCEPT !.allowed = FALSE, !.due = FALSE]
      q == Mark([p EXCEPT !.open = None, !.at = "within"])
  IN IF p.state # "playing" THEN {p}
     ELSE IF DecideNextFileToPlay(q) = {} THEN {PlaybackFinished(q)}
     ELSE {Opened([q EXCEPT !.cur = i]) : i \in DecideNextFileToPlay(q)}

\* The states in which the calls end that a command makes last of all: between the end of the
\* list and the next one there is an entry that leaves it, or one that does not call on.
Calls(p) == [n \in 1 .. 2 * Len(p.list) + 2 |-> n]
Further(states, n) == UNION {IF q.due THEN PlayNextFile(q) ELSE {q} : q \in states}
Ended(p) == FoldLeft(Further, {p}, Calls(p))

Command_Next(p0) ==
  LET p == [p0 EXCEPT !.allowed = FALSE]
  IN CASE p.state = "stop" -> {p}
       [] p.state = "playing" -> Ended(Due(p))
       [] p.state = "paused" -> UNION {Ended(Due(q)) : q \in Ended(Command_Play(p, FALSE))}

AddNewFile(p, file) == [p EXCEPT !.list = Append(@, Entry(file))]
ClearList(p) == Touched([Command_Stop(p) EXCEPT !.list = <<>>, !.sel = 0])

\* Start and end.
Restored(r) ==
  LET cur == IF r.cur <= Len(r.files) THEN r.cur ELSE 0
      p == [NewPlayer EXCEPT !.list = [i \in DOMAIN r.files |-> Entry(r.files[i])], !.cur = cur, !.sel = cur,
                             !.random = r.random, !.repeat = IF r.repeat THEN 0 ELSE Off]
  IN IF r.state = "playing" THEN Ended(Command_Play(p, FALSE)) ELSE {p}

SavePlaylist(p) == [files |-> [i \in DOMAIN p.list |-> p.list[i].file], cur |-> p.cur, state |-> p.state,
                    random |-> p.random, repeat |-> p.repeat # Off]

playerVars == <<player, registry, calls>>

Init ==
  /\ \E files \in Stored, random, repeat \in BOOLEAN :
       registry = [SavePlaylist(NewPlayer) EXCEPT !.files = files, !.random = random, !.repeat = repeat]
  /\ player \in Restored(registry)
  /\ calls = 0

Called == calls < MaxCalls /\ calls' = calls + 1
After(states) == Called /\ player' \in states /\ UNCHANGED registry
Event(states) == player' \in states /\ UNCHANGED <<registry, calls>>

Play == After(Ended(Command_Play(player, FALSE)))
Pause == player.state = "playing" /\ After({Command_Pause(player)})
Stop == player.state # "stop" /\ After({Touched(Command_Stop(player))})
NextFile == After(Command_Next(player))
RemoveFile == player.sel # 0 /\ After(Ended(Command_Remove(player)))
Clear == After({ClearList(player)})
Add(file) == Len(player.list) < MaxList /\ After({AddNewFile(player, file)})
Select(i) == i \in DOMAIN player.list /\ After({[player EXCEPT !.sel = i]})
CheckRandom == After({Touched([player EXCEPT !.random = ~@])})
CheckRepeat(n) == player.repeat # n /\ After({[player EXCEPT !.repeat = n]})
CheckShutdown == ShutdownEnabled(player) /\ After({[player EXCEPT !.shutdown = ~@]})

\* The file comes to its end; EC_COMPLETE is posted, and counts only if the position is still the end.
FileEnds == player.open # None /\ player.state = "playing" /\ player.at = "within" /\ Event({[player EXCEPT !.at = "end"]})
Seek == player.open # None /\ player.at # "within" /\ After({[player EXCEPT !.at = "within"]})
Completed == player.at = "end" /\ Event(Ended(Due([player EXCEPT !.at = "over"])))

MenuSave == Called /\ registry' = SavePlaylist(player) /\ UNCHANGED player

\* The destructor saves and stops; a crash saves nothing, or, within SavePlaylist, leaves an empty list.
Restart == Called /\ registry' = SavePlaylist(player) /\ player' \in Restored(registry')
Crash ==
  /\ Called
  /\ registry' \in {registry, [registry EXCEPT !.files = <<>>]}
  /\ player' \in Restored(registry')

Next ==
  \/ Play \/ Pause \/ Stop \/ NextFile \/ RemoveFile \/ Clear \/ CheckRandom \/ CheckShutdown
  \/ \E file \in Files : Add(file)
  \/ \E i \in 1..MaxList : Select(i)
  \/ \E n \in Repeats \cup {Off} : CheckRepeat(n)
  \/ FileEnds \/ Seek \/ Completed \/ MenuSave \/ Restart \/ Crash

Spec == Init /\ [][Next]_playerVars

\* What plays is the current entry, whatever is added, removed, chosen or restored meanwhile.
PlaysCurrent ==
  player.open # None => player.state # "stop" /\ player.cur \in DOMAIN player.list /\ player.list[player.cur].file = player.open

\* The lock gives way to a shutdown (IsShutdownAllowed) only at rest after the end of the list.
AllowedAtEnd == player.allowed => player.state = "stop" /\ \A i \in DOMAIN player.list : ~player.list[i].played

\* A pass in random mode that the user lets alone plays no entry twice, and leaves none out.
PassIsFair == ~player.astray

\* The player keeps its place in the list (SystrayPlayer.cpp): what plays is the current entry, a
\* shutdown is allowed only at rest after the end of the list, a pass in random mode is fair, and
\* the calls of every command come to an end.
KeepsItsPlace == PlaysCurrent /\ AllowedAtEnd /\ PassIsFair /\ ~player.due
=============================================================================
