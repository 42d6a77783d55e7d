----------------------------- MODULE MCDesktop -----------------------------
(* The components that need no other to be checked, in one run: a behaviour is one of the     *)
(* component that scene names, and the variables of the others stay as they are.              *)
EXTENDS Desktop, ServerLog, IniStore, TLC

VARIABLES scene

\* Inifile: names that differ in case only, and one that does not.
MCUpperLetters == "a" :> "A" @@ "A" :> "A" @@ "b" :> "B" @@ "B" :> "B" @@ "" :> ""
MCSections == {<<"a">>, <<"A">>, <<"b">>}
MCEntries == {<<"a">>, <<"b">>}

\* The log: two lines a second, two seconds of one day and one of the next with a time of the first.
MCUpper == [p \in {"", "d1", "d2", "t1", "t2", "00", "01"} |-> p]
MCDays == <<"d1", "d1", "d2">>
MCTimes == <<"t1", "t2", "t1">>
MCCounters == <<"00", "01">>

\* Two modules whose end waits for threads, and two that end at once.
MCOrder == <<"ntprotect", "procview", "player", "netmsg">>

\* Entries and texts with and without the minus.
MCKeyNames == <<"m", "n">>
MCPlain == "-p" :> "p" @@ "-q" :> "q"

\* Two files that play, one that is missing and one that fails.
MCRenders == "a" :> "plays" @@ "b" :> "plays" @@ "m" :> "unplayable" @@ "e" :> "fails"
MCStored == {<<"a", "m", "b">>}

\* Digits, A, a, and a letter that is negative as a char; or what the calls of programs are made of.
VARIABLES text
Strings == INSTANCE Text WITH Alphabets <- {{48, 55, 65, 97, 228}, {32, 34, 46, 65, 92}}, MaxLen <- 4

\* A small window, one that cannot be moved into the work area, and the full screen.
Rect(l, t, r, b) == [left |-> l, top |-> t, right |-> r, bottom |-> b]
Place(l, t) == [left |-> l, top |-> t]
MCScreen == Rect(0, 0, 10, 8)
MCWork == Rect(0, 1, 10, 7)
MCSizes == {[width |-> 4, height |-> 3], [width |-> 4, height |-> 6], [width |-> 10, height |-> 8]}
MCPlaces == {Place(0, 0), Place(-2, 6), Place(8, 3), Place(3, 2)}

\* A menu too high for the screen, with a submenu that has one itself and ends with a separator.
MCItems == "tray" :> <<"entry", "separator", "extras", "disabled", "entry">>
           @@ "extras" :> <<"entry", "more", "separator">> @@ "more" :> <<"entry">>
MCPoints == {[x |-> 95, y |-> 75]}

vars == <<scene, iniVars, logVars, serviceVars, bootVars, playerVars, guardVars, launcherVars, text, poserVars, menuVars,
          viewVars, setupVars>>

\* A component that is not on the scene is at rest.  Init and Next are those of IniStore.
MCInit ==
  /\ scene \in {"ini", "log", "service", "process", "player", "guard", "launcher", "text", "poser", "menu", "view", "setup"}
  /\ Init /\ Log!Init /\ Service!Init /\ UserProcess!Init /\ Strings!Init /\ Popup!Init /\ Installer!Init
  /\ IF scene = "player" THEN Music!Init
     ELSE player = Music!NewPlayer /\ registry = Music!SavePlaylist(Music!NewPlayer) /\ commands = 0
  /\ Guard!Init /\ (scene # "guard" => ~guard)
  /\ Launch!Init /\ (scene # "launcher" => launch_worker = "idle")
  /\ Poser!Init /\ (scene # "poser" => window = [at |-> Place(3, 2), size |-> [width |-> 4, height |-> 3], exempt |-> FALSE])
  /\ View!Init /\ (scene # "view" => \A p \in View!Pids : procs[p] = View!None)

Rest(here) ==
  /\ UNCHANGED scene
  /\ IF here # "ini" THEN UNCHANGED iniVars ELSE TRUE
  /\ IF here # "log" THEN UNCHANGED logVars ELSE TRUE
  /\ IF here # "service" THEN UNCHANGED serviceVars ELSE TRUE
  /\ IF here # "process" THEN UNCHANGED bootVars ELSE TRUE
  /\ IF here # "player" THEN UNCHANGED playerVars ELSE TRUE
  /\ IF here # "guard" THEN UNCHANGED guardVars ELSE TRUE
  /\ IF here # "launcher" THEN UNCHANGED launcherVars ELSE TRUE
  /\ IF here # "text" THEN UNCHANGED text ELSE TRUE
  /\ IF here # "poser" THEN UNCHANGED poserVars ELSE TRUE
  /\ IF here # "menu" THEN UNCHANGED menuVars ELSE TRUE
  /\ IF here # "view" THEN UNCHANGED viewVars ELSE TRUE
  /\ IF here # "setup" THEN UNCHANGED setupVars ELSE TRUE

MCNext ==
  \/ scene = "ini" /\ Next /\ Rest("ini")
  \/ scene = "log" /\ Log!Next /\ Rest("log")
  \/ scene = "service" /\ Service!Next /\ Rest("service")
  \/ scene = "process" /\ UserProcess!Next /\ Rest("process")
  \/ scene = "player" /\ Music!Next /\ Rest("player")
  \/ scene = "guard" /\ Guard!Next /\ Rest("guard")
  \/ scene = "launcher" /\ Launch!Next /\ Rest("launcher")
  \/ scene = "text" /\ Strings!Next /\ Rest("text")
  \/ scene = "poser" /\ Poser!Next /\ Rest("poser")
  \/ scene = "menu" /\ Popup!Next /\ Rest("menu")
  \/ scene = "view" /\ View!Next /\ Rest("view")
  \/ scene = "setup" /\ Installer!Next /\ Rest("setup")

MCSpec ==
  /\ MCInit /\ [][MCNext]_vars
  /\ Service!Fairness /\ UserProcess!Fairness /\ Guard!Fairness /\ Launch!Fairness /\ Poser!Fairness /\ Installer!Fairness

\* What the modules with an instance here state.
TextsAreRight == scene = "text" => Strings!TextsAreRight
=============================================================================
