------------------------------ MODULE ProcView ------------------------------
(* The process manager (ProcView.cpp): a tree of processes with their windows, rebuilt by a    *)
(* timer when the windows have changed (AppDetect in Process.cpp), and a menu of processes,    *)
(* filled when it is opened.  From both the user may terminate a process, after a question.    *)
(* While menu or question is open other programs start and end, and the tree is rebuilt.       *)
EXTENDS Integers, Sequences, SequencesExt, FiniteSetsExt

CONSTANTS
  LastPid, Hwnds,                   \* processes have the numbers 1..LastPid, and Own
  Exes, Kernel, System, Hidden,     \* names; those in the two filter lists; those in the system directory
  StartKernel, StartSystem, StartOther,
  MaxEvents                         \* bound: processes and windows that come or go by themselves, and requests

None == "none"
Pids == 1..LastPid
NoPid == 0                          \* not a process that can be opened
NoWindow == 0

VARIABLES
  procs,      \* processes: number to name
  windows,    \* windows: handle to number of the process
  apps,       \* E1 of AppDetect: the windows at the last tick, with their names
  tree,       \* pvtc and the texts of the tree
  sel,        \* index of the selected item in tree, 0 if there is none
  menu,       \* pidc: index to process, while the menu is open
  question,   \* on the screen, or NoQuestion
  fresh,      \* ghost: numbers given to a new process since the tree, and the menu, were made
  events

viewVars == <<procs, windows, apps, tree, sel, menu, question, fresh, events>>

NoMenu == <<>>
NoQuestion == [kind |-> "none", procid |-> NoPid, hwnd |-> NoWindow, name |-> None, reused |-> FALSE]

Init ==
  /\ procs \in [Pids -> Exes \cup {None}] /\ windows = [h \in Hwnds |-> NoPid]
  /\ apps = [h \in Hwnds |-> None] /\ tree = <<>> /\ sel = 0
  /\ menu = NoMenu /\ question = NoQuestion /\ fresh = [tree |-> {}, menu |-> {}] /\ events = 0

Title(h) == IF windows[h] = NoPid THEN None ELSE procs[windows[h]]     \* a window is named after its program
Apps == [h \in Hwnds |-> Title(h)]

\* The same windows with the same titles; one of another process with both is not noticed.
AppsChanged == apps # Apps

Running == FoldLeft(LAMBDA list, p : IF procs[p] = None THEN list ELSE Append(list, p), <<>>, [i \in Pids |-> i])
WindowsOf(p) == SetToSeq({h \in Hwnds : windows[h] = p})

\* A process, then its windows.
Branch(p) ==
  <<[hwnd |-> NoWindow, procid |-> p, name |-> procs[p]]>>
  \o [i \in DOMAIN WindowsOf(p) |-> [hwnd |-> WindowsOf(p)[i], procid |-> p, name |-> procs[p]]]
NewTree == FoldLeft(LAMBDA t, p : t \o Branch(p), <<>>, Reverse(Running))

Same(a, b) == a.hwnd = b.hwnd /\ a.procid = b.procid
Refound_ByPlace(t) == IF sel \in DOMAIN t THEN sel ELSE 0
Refound(t) ==
  LET found == {i \in DOMAIN t : sel \in DOMAIN tree /\ Same(t[i], tree[sel])} IN IF found = {} THEN 0 ELSE Max(found)

\* WM_TIMER
Update ==
  /\ apps' = Apps
  /\ IF AppsChanged
     THEN tree' = NewTree /\ sel' = Refound(NewTree) /\ fresh' = [fresh EXCEPT !.tree = {}]
     ELSE UNCHANGED <<tree, sel, fresh>>
  /\ UNCHANGED <<procs, windows, menu, question, events>>

Select(i) == i \in DOMAIN tree /\ i # sel /\ sel' = i /\ UNCHANGED <<procs, windows, apps, tree, menu, question, fresh, events>>

Counts == events < MaxEvents /\ events' = events + 1
Asks(q) == question = NoQuestion /\ question' = q
About(kind, item, news) == [kind |-> kind, procid |-> item.procid, hwnd |-> item.hwnd, name |-> item.name,
                            reused |-> item.procid \in news]

\* ID_TERMINATE, ID_SENDCLOSE: what is selected is read before the question.
AskTerminate ==
  /\ sel # 0 /\ Asks(About("terminate", tree[sel], fresh.tree)) /\ Counts
  /\ UNCHANGED <<procs, windows, apps, tree, sel, menu, fresh>>

AskClose ==
  /\ sel # 0 /\ tree[sel].hwnd # NoWindow /\ Asks(About("close", tree[sel], fresh.tree)) /\ Counts
  /\ UNCHANGED <<procs, windows, apps, tree, sel, menu, fresh>>

\* The menu: each process at the next index of its class.  A class that is full runs into the next one.
Class(exe) == IF exe \in Kernel THEN "kernel" ELSE IF exe \in System THEN "system" ELSE "other"
NextIndex == [c \in {"kernel", "system", "other"} |->
                IF c = "kernel" THEN StartKernel + 1 ELSE IF c = "system" THEN StartSystem + 1 ELSE StartOther + 1]
Put(entries, hv, item) == [i \in DOMAIN entries \cup {hv} |-> IF i = hv THEN item ELSE entries[i]]
Added(acc, p) ==
  LET c == Class(procs[p])
  IN IF procs[p] \in Hidden THEN acc
     ELSE [entries |-> Put(acc.entries, acc.next[c], [procid |-> p, name |-> procs[p], hwnd |-> NoWindow]),
           next |-> [acc.next EXCEPT ![c] = @ + 1]]
Filled == FoldLeft(LAMBDA acc, p : Added(acc, p), [entries |-> NoMenu, next |-> NextIndex], Running).entries

OpenMenu ==
  /\ menu = NoMenu /\ question = NoQuestion /\ Counts
  /\ menu' = Filled /\ fresh' = [fresh EXCEPT !.menu = {}]
  /\ UNCHANGED <<procs, windows, apps, tree, sel, question>>

Asked(hv) == IF hv < StartSystem THEN "kernel" ELSE IF hv < StartOther THEN "system" ELSE "other"

\* The separator before the others can be chosen if none follows; its process has no number.
Choose ==
  /\ menu # NoMenu /\ menu' = NoMenu
  /\ \/ \E hv \in DOMAIN menu : Asks(About(Asked(hv), menu[hv], fresh.menu))
     \/ /\ DOMAIN menu \subseteq 0..StartOther
        /\ Asks(About("other", [hwnd |-> NoWindow, procid |-> NoPid, name |-> None], {}))
     \/ UNCHANGED question
  /\ UNCHANGED <<procs, windows, apps, tree, sel, fresh, events>>

Dies(p) ==
  /\ procs' = [procs EXCEPT ![p] = None]
  /\ windows' = [h \in Hwnds |-> IF windows[h] = p THEN NoPid ELSE windows[h]]

\* Yes: KillProcessCheck, or ExitAppWindow, which the window may ignore.  Or no.
Answer ==
  /\ question # NoQuestion /\ question' = NoQuestion
  /\ \/ question.kind # "close" /\ question.procid \in Pids /\ Dies(question.procid)
     \/ question.kind = "close" /\ windows' = [windows EXCEPT ![question.hwnd] = NoPid] /\ UNCHANGED procs
     \/ UNCHANGED <<procs, windows>>
  /\ UNCHANGED <<apps, tree, sel, menu, fresh, events>>

\* Other programs.  A number that is free may be given again.
Starts(p, exe) ==
  /\ Counts /\ procs[p] = None /\ procs' = [procs EXCEPT ![p] = exe]
  /\ fresh' = [tree |-> fresh.tree \cup {p}, menu |-> fresh.menu \cup {p}]
  /\ question' = [question EXCEPT !.reused = @ \/ question.procid = p]
  /\ UNCHANGED <<windows, apps, tree, sel, menu>>

Exits(p) == Counts /\ procs[p] # None /\ Dies(p) /\ UNCHANGED <<apps, tree, sel, menu, question, fresh>>

WindowOpens(h, p) ==
  /\ Counts /\ windows[h] = NoPid /\ procs[p] # None /\ windows' = [windows EXCEPT ![h] = p]
  /\ UNCHANGED <<procs, apps, tree, sel, menu, question, fresh>>

Next ==
  \/ Update \/ AskTerminate \/ AskClose \/ OpenMenu \/ Choose \/ Answer
  \/ \E i \in DOMAIN tree : Select(i)
  \/ \E p \in Pids : Exits(p) \/ (\E exe \in Exes : Starts(p, exe)) \/ (\E h \in Hwnds : WindowOpens(h, p))

Spec == Init /\ [][Next]_viewVars

\* The menu warns as the class of the process demands, unless a class has run into the next one.
WarnsRightly ==
  {StartSystem, StartOther} \cap DOMAIN menu = {} => \A hv \in DOMAIN menu : Asked(hv) = Class(menu[hv].name)

KillsWhatItNamed ==
  question # NoQuestion /\ procs' # procs /\ events' = events =>
    \A p \in Pids : procs'[p] # procs[p] => procs[p] = question.name \/ question.reused

SelectionStays ==
  tree' # tree /\ sel # 0 /\ (\E i \in DOMAIN tree' : Same(tree'[i], tree[sel])) => sel' # 0 /\ Same(tree'[sel'], tree[sel])

\* The process manager (ProcView.cpp) terminates the process that its question names, whatever has
\* been started, ended and rebuilt since, unless Windows has given its number to another meanwhile;
\* it warns by class as long as a class has room; and the selection stays with its process or window.
EndsWhatItNamed == []WarnsRightly /\ [][KillsWhatItNamed /\ SelectionStays]_viewVars
=============================================================================
