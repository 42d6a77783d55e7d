\* The process ends, a menu closes, the bounds are used up.
CHECK_DEADLOCK FALSE
CONSTANTS
  \* IniStore
  Upper <- MCUpperLetters
  LookBefore = 0
  LookAhead = 1
  SectionNames <- MCSections
  EntryNames <- MCEntries
  Values <- MCEntries
  MaxCalls = 5
  \* LogFile
  LogUpper <- MCUpper
  LogLookBefore = 0
  LogLookAhead = 1
  Days <- MCDays
  Times <- MCTimes
  Counters <- MCCounters
  MaxLines = 5
  \* ServiceControl
  Servers = {"winsuite", "netmsg"}
  Winsuite = "winsuite"
  MaxStarts = 2
  \* Boot
  Order <- MCOrder
  NtProtect = "ntprotect"
  Player = "player"
  Clients = {"netmsg"}
  Pumping = {"ntprotect", "netmsg"}
  MaxLocks = 1
  MaxMenus = 1
  \* Player
  Files = {"a", "b", "m", "e"}
  Renders <- MCRenders
  Repeats = {0, 1}
  Stored <- MCStored
  MaxList = 3
  MaxCommands = 3
  \* Autoruns and Launcher
  KeyNames <- MCKeyNames
  GuardedTexts = {"", "v"}
  MaxGuardChanges = 2
  RunTexts = {"-p", "-q", "p", "q"}
  Marked = {"-p", "-q"}
  Plain <- MCPlain
  MaxRunChanges = 3
  \* WindowPoser
  Screen <- MCScreen
  Work <- MCWork
  Tolerance = 1
  Sizes <- MCSizes
  Places <- MCPlaces
  MaxMoves = 1
  MaxToggles = 2
  \* Menu
  Items <- MCItems
  Root = "tray"
  TS = 17
  Frame = 7
  Width = 40
  ScreenWidth = 100
  ScreenHeight = 80
  Points <- MCPoints
  MaxOpen = 1
  \* ProcView
  LastPid = 2
  Hwnds = {1}
  Exes = {"svchost", "csrss", "app"}
  Kernel = {"svchost"}
  System = {"csrss"}
  Hidden = {}
  StartKernel = 6
  StartSystem = 8
  StartOther = 10
  MaxEvents = 3
  \* Setup
  Components = {"Autoruns", "NTProtect"}
  MaxDialogs = 3
SPECIFICATION MCSpec

   
PROPERTIES
  KeepsItsPromise  ServiceStops EndsInOrder AutostartsAreGuarded
   MenuTellsChoice  
