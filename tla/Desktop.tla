------------------------------ MODULE Desktop ------------------------------
(* Components that need no other: the stop of the service, the end of the user process, the      *)
(* audio player, the autostart entries, the window poser, the menus, the process manager and     *)
(* Setup, each an instance with constants and variables of its own, and what each is to keep.    *)
EXTENDS Integers, Sequences

CONSTANTS Servers, Winsuite, MaxStarts
VARIABLES sc_main, mainId, mainQuit, handler, status, report, progress, sc_object, id, thread, managed, sc_lost, starts
Service == INSTANCE ServiceControl WITH main <- sc_main, object <- sc_object, lost <- sc_lost
serviceVars == <<sc_main, mainId, mainQuit, handler, status, report, progress, sc_object, id, thread, managed, sc_lost, starts>>

CONSTANTS Order, NtProtect, Player, Clients, Pumping, MaxLocks, MaxMenus
VARIABLES main, loaded, frames, destroyed, terminated, quit, locked, permits, session, untold, locks, menus, nested, late, swallowed
UserProcess == INSTANCE Boot
bootVars == <<main, loaded, frames, destroyed, terminated, quit, locked, permits, session, untold, locks, menus, nested, late, swallowed>>

CONSTANTS Files, Renders, Repeats, Stored, MaxList, MaxCommands
VARIABLES player, registry, commands
Music == INSTANCE Player WITH MaxCalls <- MaxCommands, calls <- commands
playerVars == <<player, registry, commands>>

CONSTANTS KeyNames, GuardedTexts, MaxGuardChanges
VARIABLES reg, guardfile, guarddisk, guard, tick, todo, regvalue, asked, changes
Guard == INSTANCE Autoruns WITH
           Names <- KeyNames, Values <- GuardedTexts, MaxChanges <- MaxGuardChanges, ini <- guardfile, disk <- guarddisk
guardVars == <<reg, guardfile, guarddisk, guard, tick, todo, regvalue, asked, changes>>

CONSTANTS RunTexts, Marked, Plain, MaxRunChanges
VARIABLES launch_run, launch_worker, left, call, started, changed
Launch == INSTANCE Launcher WITH
            Names <- KeyNames, Values <- RunTexts, MaxChanges <- MaxRunChanges, run <- launch_run, worker <- launch_worker
launcherVars == <<launch_run, launch_worker, left, call, started, changed>>

CONSTANTS Screen, Work, Tolerance, Sizes, Places, MaxMoves, MaxToggles
VARIABLES window, wrc, poser_worker, poser_object, told, poser_lost, moves, toggles
Poser == INSTANCE WindowPoser WITH worker <- poser_worker, object <- poser_object, lost <- poser_lost
poserVars == <<window, wrc, poser_worker, poser_object, told, poser_lost, moves, toggles>>

CONSTANTS Items, Root, TS, Frame, Width, ScreenWidth, ScreenHeight, Points, MaxOpen
VARIABLES levels, result, menu_quit, chosen, opened
Popup == INSTANCE Menu WITH quit <- menu_quit
menuVars == <<levels, result, menu_quit, chosen, opened>>

CONSTANTS LastPid, Hwnds, Exes, Kernel, System, Hidden, StartKernel, StartSystem, StartOther, MaxEvents
VARIABLES procs, windows, apps, tree, sel, menu, question, fresh, events
View == INSTANCE ProcView
viewVars == <<procs, windows, apps, tree, sel, menu, question, fresh, events>>

CONSTANTS Components, MaxDialogs
VARIABLES wanted, setup_run, service, jobs, dialog, dialogs, refused, failed, overlapped
Installer == INSTANCE Setup WITH run <- setup_run
setupVars == <<wanted, setup_run, service, jobs, dialog, dialogs, refused, failed, overlapped>>

\* What each module states.
ServiceStops == Service!ServiceStops
EndsInOrder == UserProcess!EndsInOrder
KeepsItsPlace == Music!KeepsItsPlace
AutostartsAreGuarded == Guard!GuardsEntries /\ Launch!LaunchesMarked
WindowsStayVisible == Poser!WindowsStayVisible
MenuTellsChoice == Popup!MenuTellsChoice
EndsWhatItNamed == View!EndsWhatItNamed
SetupTakesEffect == Installer!SetupTakesEffect
=============================================================================
