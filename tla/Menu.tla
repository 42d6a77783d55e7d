-------------------------------- MODULE Menu --------------------------------
(* The popup menus (MegaPopup.cpp).  Each open menu runs a message loop of its own: a menu is  *)
(* opened by a key or button handled in the loop of the menu before, whose window procedure is *)
(* locked until then.  So there is a stack of menus and only the last one takes input.         *)
EXTENDS Integers, Sequences, SequencesExt, FiniteSetsExt

CONSTANTS
  Items,                    \* menus to sequences of "entry", "disabled", "separator", or a menu (MPM_FADED)
  Root,
  TS, Frame,                \* height of an entry; what a menu has besides
  Width, ScreenWidth, ScreenHeight,
  Points,                   \* where a menu is opened: x, y
  MaxOpen                   \* bound: menus opened

\* Results that are not an entry.
MPM_ESC == -2
MPM_PREV == -3
MPM_THREADWAIT == -5
Codes == {MPM_ESC, MPM_PREV, MPM_THREADWAIT}

VARIABLES
  levels,     \* the open menus
  result,     \* what Show returned last to the program, and what a callback was told last
  quit,       \* ghost: a loop ended by WM_QUIT
  chosen,     \* ghost: the key or button that chose: menu and entry
  opened

menuVars == <<levels, result, quit, chosen, opened>>

u(m) == Len(Items[m])
Nothing == [menu |-> Root, value |-> 0]

\* The origin is clipped; a menu higher than the screen can be scrolled (fsb).
Clip(want, size, limit) ==
  LET a == IF want + size > limit THEN limit - size ELSE want
      b == IF a < 0 THEN 0 ELSE a
  IN IF b + size > limit THEN 0 ELSE b

CalcSizeAlign(m, p, rightbottom) ==
  LET h == u(m) * TS + Frame
      fsb == h > ScreenHeight
      y == IF rightbottom THEN p.y - h ELSE p.y
      x == IF rightbottom THEN p.x - Width ELSE p.x
  IN [menu |-> m, sel |-> 0, off |-> 0, quoteMouse |-> FALSE, fsb |-> fsb,
      x |-> Clip(x, Width, ScreenWidth),
      y |-> IF fsb THEN 0 ELSE Clip(y, h, ScreenHeight),
      h |-> IF fsb THEN ScreenHeight ELSE h]

Init == levels = <<>> /\ result = Nothing /\ quit = FALSE /\ chosen = Nothing /\ opened = 0

Top == levels[Len(levels)]
Open == levels # <<>>
Item(l, i) == Items[l.menu][i]
Y(l, i) == (i - 1) * TS + l.off

SetTop(l) == levels' = [levels EXCEPT ![Len(levels)] = l] /\ UNCHANGED <<result, quit, chosen, opened>>

\* The program shows a menu; a window that cannot be created counts as <ESC>.
Show(p, rightbottom) ==
  /\ ~Open /\ opened < MaxOpen /\ opened' = opened + 1
  /\ levels' = <<CalcSizeAlign(Root, p, rightbottom)>>
  /\ quit' = FALSE /\ chosen' = Nothing /\ result' = Nothing

\* The last menu ends with res.  MPM_PREV goes back to menu jumpto (0: none) and <ESC> to the program; after any
\* other result each menu before returns the entry that is selected in it.
Closed(open, res, jumpto) ==
  IF res = MPM_PREV /\ jumpto \in 1 .. Len(open) - 1
  THEN <<[SubSeq(open, 1, jumpto) EXCEPT ![jumpto].quoteMouse = TRUE], res>>
  ELSE <<<<>>, IF res \in {MPM_PREV, MPM_ESC} \/ Len(open) = 1 THEN res ELSE open[1].sel>>

Ends(res, jumpto) ==
  /\ levels' = Closed(levels, res, jumpto)[1]
  /\ result' = IF levels' = <<>> THEN [menu |-> Root, value |-> Closed(levels, res, jumpto)[2]]
               ELSE [menu |-> Top.menu, value |-> res]
  /\ UNCHANGED opened

Esc == Open /\ Ends(MPM_ESC, 0) /\ UNCHANGED <<quit, chosen>>
LeftKey == Open /\ Ends(MPM_PREV, Len(levels) - 1) /\ UNCHANGED <<quit, chosen>>

\* WM_KILLFOCUS: to a menu before, to one of another thread (0), or elsewhere, as with <ESC>.
KillFocus ==
  /\ Open /\ UNCHANGED <<quit, chosen>>
  /\ Ends(MPM_ESC, 0) \/ \E n \in 0..(Len(levels) - 1) : Ends(MPM_PREV, n)

\* GetMessage returns 0: the loop ends, threadres is still MPM_THREADWAIT.
Quit == Open /\ Ends(MPM_THREADWAIT, 0) /\ quit' = TRUE /\ UNCHANGED chosen

\* <RETURN>, <Right> or a button: a submenu opens in the loop of a child, or cannot be created.
Return ==
  /\ Open /\ Top.sel # 0 /\ Item(Top, Top.sel) # "disabled"
  /\ UNCHANGED quit
  /\ chosen' = [menu |-> Top.menu, value |-> Top.sel]
  /\ LET item == Item(Top, Top.sel)
         corner == [x |-> Top.x + Width - 5, y |-> Top.y + Y(Top, Top.sel)]
     IN IF item \in DOMAIN Items
        THEN \/ levels' = Append(levels, CalcSizeAlign(item, corner, FALSE)) /\ UNCHANGED <<result, opened>>
             \/ Ends(MPM_ESC, 0)
        ELSE Ends(Top.sel, 0)

\* The first button after a menu has been left by a click into the one before does not count.
MouseUp ==
  \/ Open /\ Top.quoteMouse /\ SetTop([Top EXCEPT !.quoteMouse = FALSE])
  \/ Open /\ ~Top.quoteMouse /\ Return

SearchForward_AnyEntry(l) == IF l.sel < u(l.menu) THEN l.sel + 1 ELSE 1
SearchForward(l) ==
  LET found == {i \in (l.sel + 1)..u(l.menu) : Item(l, i) # "separator"} IN IF found = {} THEN 1 ELSE Min(found)
SearchBackward(l) ==
  LET found == {i \in 1..(l.sel - 1) : Item(l, i) # "separator"} IN IF found = {} THEN u(l.menu) ELSE Max(found)

KeyboardScroll(l) ==
  IF l.fsb /\ Y(l, l.sel) <= 2 * TS THEN [l EXCEPT !.off = 2 * TS - (l.sel - 1) * TS]
  ELSE IF l.fsb /\ Y(l, l.sel) >= l.h - 2 * TS THEN [l EXCEPT !.off = l.h - 2 * TS - (l.sel - 1) * TS]
  ELSE l

UpKey == Open /\ SetTop(KeyboardScroll([Top EXCEPT !.sel = SearchBackward(Top)]))
DownKey == Open /\ SetTop(KeyboardScroll([Top EXCEPT !.sel = SearchForward(Top)]))

Pointed(l, y) ==
  LET hit == {i \in 1..u(l.menu) : Y(l, i) <= y /\ y <= Y(l, i) + TS}
  IN IF hit = {} \/ Item(l, Min(hit)) = "separator" THEN 0 ELSE Min(hit)

\* At the border of a menu that does not fit the mouse scrolls it, to the end if it stays there.
MouseMove(y) ==
  /\ Open /\ y < Top.h
  /\ LET bottom == Top.h - 5 - u(Top.menu) * TS
         quarter == (u(Top.menu) + 2) \div 4                 \* Round
         rate == IF quarter = 0 THEN 10 ELSE quarter
         Far(way) == rate * ((way + rate - 1) \div rate)
         scrolled == IF Top.fsb /\ y <= 10 /\ Top.off < 0 THEN {Top.off, Top.off + rate, Top.off + Far(-Top.off)}
                     ELSE IF Top.fsb /\ y >= Top.h - 15 /\ Top.off > bottom
                     THEN {Top.off, Top.off - rate, Top.off - Far(Top.off - bottom)}
                     ELSE {Top.off}
     IN \E off \in scrolled : SetTop([Top EXCEPT !.off = off, !.sel = Pointed([Top EXCEPT !.off = off], y)])

Next ==
  \/ \E p \in Points, rightbottom \in BOOLEAN : Show(p, rightbottom)
  \/ Esc \/ LeftKey \/ KillFocus \/ Quit \/ Return \/ MouseUp \/ UpKey \/ DownKey
  \/ \E y \in {k * TS + TS \div 2 : k \in 0..(ScreenHeight \div TS)} : MouseMove(y)

Spec == Init /\ [][Next]_menuVars

\* Where the first or the last entry is a separator, the keys stop at it.
Border(l) == l.sel \in {1, u(l.menu)}
OnScreen(l) ==
  /\ l.x >= 0 /\ (Width <= ScreenWidth => l.x + Width <= ScreenWidth)
  /\ l.y >= 0 /\ l.y + l.h <= ScreenHeight

MenusAreSound ==
  \A k \in DOMAIN levels :
    LET l == levels[k]
    IN /\ OnScreen(l)
       /\ l.sel # 0 => Item(l, l.sel) # "separator" \/ Border(l)
       /\ k < Len(levels) => levels[k + 1].menu = Item(l, l.sel)

\* After a key the selected entry can be seen.
SeenAfterKey ==
  Len(levels') = Len(levels) /\ Open /\ levels'[Len(levels)].sel # Top.sel /\ (UpKey \/ DownKey) =>
    LET l == levels'[Len(levels)] IN Y(l, l.sel) >= 0 /\ Y(l, l.sel) + TS <= l.h

\* The program, or the callback of a submenu, is told an entry only if that was chosen there, or
\* in a menu below it; a loop ended by WM_QUIT in a submenu looks like a choice to the menus before.
Rows == UNION {{m} \X (1 .. u(m)) : m \in DOMAIN Items}
HasSubmenus(S) ==
  \A c \in S : Items[c[1]][c[2]] \in DOMAIN Items => {Items[c[1]][c[2]]} \X (1 .. u(Items[c[1]][c[2]])) \subseteq S
Below(m, i) == {c \in Rows : \A S \in SUBSET Rows : <<m, i>> \in S /\ HasSubmenus(S) => c \in S}

ToldIsChosen ==
  result.value >= 1 => \/ quit
                       \/ /\ <<chosen.menu, chosen.value>> \in Below(result.menu, result.value)
                          /\ Items[chosen.menu][chosen.value] \notin DOMAIN Items \cup {"disabled"}

\* A menu (MegaPopup::Show) lies on the screen, marks what it marks, shows what the keys select, and
\* tells its program what the user has chosen, through all submenus.
MenuTellsChoice == [](MenusAreSound /\ ToldIsChosen) /\ [][SeenAfterKey]_menuVars
=============================================================================
