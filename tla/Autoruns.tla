------------------------------ MODULE Autoruns ------------------------------
(* The guard of the autostart entries (Autoruns.cpp): one registry key (Run of the user, say)  *)
(* and the section of the guard file that remembers what the user has accepted.  At every tick *)
(* the guard compares the two and asks the user about each difference.  While a question is    *)
(* open messages are dispatched: the editor works on, other programs always do.                *)
EXTENDS Naturals, Sequences

CONSTANTS
  Names,            \* of entries, in the order of enumeration
  Values,           \* texts; "" is one
  MaxChanges        \* bound: changes by other programs or the editor, and restarts

None == "no entry"
Number == "a number"      \* a value that is not REG_SZ
Blank == ""

Entries == {Names[i] : i \in DOMAIN Names}
NoEntries == [n \in Entries |-> None]

VARIABLES
  reg,              \* the registry key
  ini, disk,        \* the section of the guard file, in memory and on disk
  guard,            \* guard_inited
  tick,             \* CheckRegSection: "idle", "registry" or "cache" (its two loops)
  todo,             \* what the loop still has to look at
  regvalue,         \* the variable regRead reads into
  asked,            \* the dialog: kind, name, value, prev, or NoDialog
  changes

NoDialog == [kind |-> "none", name |-> None, value |-> None, prev |-> None]
guardVars == <<reg, ini, disk, guard, tick, todo, regvalue, asked, changes>>

Text(n) == reg[n] \in Values                 \* regValueExistType is REG_SZ
Overlay(old, new) == [n \in Entries |-> IF n \in DOMAIN new THEN new[n] ELSE old[n]]

\* regRead leaves its variable as it was if there is no text to read.
regRead(n) == IF Text(n) THEN reg[n] ELSE regvalue

\* Guard_FlushINI opens the file for a moment; another program may get in the way of the saving.
Guard_FlushINI == disk' \in {ini', disk}

Init ==
  /\ reg = NoEntries /\ ini = NoEntries /\ disk = NoEntries /\ guard \in BOOLEAN
  /\ tick = "idle" /\ todo = <<>> /\ regvalue = Blank /\ asked = NoDialog /\ changes = 0

Ticks ==
  /\ guard /\ tick = "idle"
  /\ tick' = "registry" /\ todo' = SelectSeq(Names, Text) /\ regvalue' = Blank
  /\ UNCHANGED <<reg, ini, disk, guard, asked, changes>>

\* An entry of the registry: known with this value, added, or changed.
CheckEntry ==
  /\ tick = "registry" /\ todo # <<>> /\ asked = NoDialog
  /\ LET n == Head(todo)
         v == regRead(n)
         kind == IF ini[n] = None THEN "added" ELSE "changed"
     IN /\ regvalue' = v
        /\ IF ini[n] = v
           THEN todo' = Tail(todo) /\ UNCHANGED asked
           ELSE asked' = [kind |-> kind, name |-> n, value |-> v, prev |-> ini[n]] /\ UNCHANGED todo
  /\ UNCHANGED <<reg, ini, disk, guard, tick, changes>>

\* An entry of the cache that is no longer in the registry.
CheckCached ==
  /\ tick = "cache" /\ todo # <<>> /\ asked = NoDialog
  /\ LET n == Head(todo)
         inivalue == IF ini[n] = None THEN Blank ELSE ini[n]
     IN IF Text(n)
        THEN todo' = Tail(todo) /\ UNCHANGED asked
        ELSE asked' = [kind |-> "deleted", name |-> n, value |-> None, prev |-> inivalue] /\ UNCHANGED todo
  /\ UNCHANGED <<reg, ini, disk, guard, tick, regvalue, changes>>

NextLoop ==
  /\ tick # "idle" /\ todo = <<>>
  /\ tick' = IF tick = "registry" THEN "cache" ELSE "idle"
  /\ todo' = IF tick = "registry" THEN SelectSeq(Names, LAMBDA n : ini[n] # None) ELSE <<>>
  /\ UNCHANGED <<reg, ini, disk, guard, regvalue, asked, changes>>

Answered == asked # NoDialog /\ asked' = NoDialog /\ todo' = Tail(todo) /\ UNCHANGED <<guard, tick, regvalue, changes>>

Accept_Rereads ==
  /\ Answered
  /\ ini' = [ini EXCEPT ![asked.name] = IF asked.kind = "deleted" THEN None ELSE regRead(asked.name)]
  /\ Guard_FlushINI
  /\ UNCHANGED reg

Accept ==
  /\ Answered
  /\ ini' = [ini EXCEPT ![asked.name] = asked.value]
  /\ Guard_FlushINI
  /\ UNCHANGED reg

\* An added entry is deleted again, another gets the value it had.  Nobody looks whether that succeeds.
Restore ==
  /\ Answered
  /\ reg' \in {reg, [reg EXCEPT ![asked.name] = asked.prev]}
  /\ UNCHANGED <<ini, disk>>

Changed == changes < MaxChanges /\ changes' = changes + 1

\* The editor writes to the registry and past the guard.  CommitChangesToRegistry reports success once
\* the batch file is started, whether or not it has had its effect.
EditorChanges(c) ==
  /\ Changed /\ (tick = "idle" \/ asked # NoDialog)
  /\ \/ UNCHANGED <<reg, ini, disk>>
     \/ /\ reg' \in {reg, Overlay(reg, c)}
        /\ ini' = IF guard THEN Overlay(ini, c) ELSE ini
        /\ IF guard THEN Guard_FlushINI ELSE UNCHANGED disk
  /\ UNCHANGED <<guard, tick, todo, regvalue, asked>>

Write(n, v) == EditorChanges([m \in {n} |-> v])
Delreg(n) == EditorChanges([m \in {n} |-> None])
Rename(old, new, v) == EditorChanges([m \in {old, new} |-> IF m = new THEN v ELSE None])

OtherProgram(n, v) ==
  /\ Changed /\ reg[n] # v /\ reg' = [reg EXCEPT ![n] = v]
  /\ UNCHANGED <<ini, disk, guard, tick, todo, regvalue, asked>>

\* The process ends, perhaps within Save, and starts again; the file may then be in use elsewhere.
Restart ==
  /\ Changed
  /\ ini' \in {disk, NoEntries} /\ disk' = ini' /\ guard' \in BOOLEAN
  /\ tick' = "idle" /\ todo' = <<>> /\ regvalue' = Blank /\ asked' = NoDialog
  /\ UNCHANGED reg

Timer == Ticks \/ CheckEntry \/ CheckCached \/ NextLoop
User == Accept \/ Restore
Editor == \E n, m \in Entries, v \in Values : Write(n, v) \/ Delreg(n) \/ (n # m /\ Rename(n, m, v))

Next ==
  \/ Timer \/ User \/ Editor \/ Restart
  \/ \E n \in Entries, v \in Values \cup {None, Number} : OtherProgram(n, v)

Fairness == WF_guardVars(Timer) /\ WF_guardVars(User)
Spec == Init /\ [][Next]_guardVars /\ Fairness

\* The cache only takes what a dialog shows or the editor was told.
OnlyVouched ==
  \A n \in Entries :
    ini'[n] # ini[n] => \/ asked.name = n /\ ini'[n] = asked.value
                        \/ Editor \/ Restart

Differs(n) == ini[n] # IF Text(n) THEN reg[n] ELSE None

\* The guard (CheckRegSection) remembers only what the user was shown, however the registry changes
\* while the question is open; and it asks about every difference that stays.
GuardsEntries ==
  /\ [][OnlyVouched]_guardVars
  /\ \A n \in Entries : guard /\ Differs(n) ~> ~guard \/ ~Differs(n) \/ asked.name = n
=============================================================================
