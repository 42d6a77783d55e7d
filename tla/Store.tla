------------------------------- MODULE Store -------------------------------
(* What an INI file promises its callers: values under a section and a key, upper and lower case *)
(* alike, the copy on disk as it was at the last save, and that copy after a restart.            *)
CONSTANTS Sections, Keys, Data,   \* in upper case; values
          None                    \* nothing stored

VARIABLES
  map,      \* sections to keys to values
  saved,    \* the copy on disk, in a set that is empty while it is being replaced
  answer    \* what was returned last

vars == <<map, saved, answer>>

NoSections == [S \in {} |-> None]
NoKeys == [K \in {} |-> None]

Without(f, x) == [y \in DOMAIN f \ {x} |-> f[y]]
With(f, x, v) == [y \in DOMAIN f \cup {x} |-> IF y = x THEN v ELSE f[y]]

\* A copy partly lost: sections and keys that were there, no others.
PartOf(c, copy) ==
  /\ DOMAIN c \subseteq DOMAIN copy
  /\ \A S \in DOMAIN c : /\ DOMAIN c[S] \subseteq DOMAIN copy[S]
                         /\ \A K \in DOMAIN c[S] : c[S][K] = copy[S][K]
PartsOf(copy) == {c \in UNION {[A -> UNION {[B -> Data] : B \in SUBSET Keys}] : A \in SUBSET Sections} : PartOf(c, copy)}

Init == map = NoSections /\ saved = {NoSections} /\ answer = None

AddSection(S) == map' = (IF S \in DOMAIN map THEN map ELSE With(map, S, NoKeys)) /\ UNCHANGED <<saved, answer>>
DropSection(S) == map' = Without(map, S) /\ UNCHANGED <<saved, answer>>
Put(S, K, v) ==
  /\ map' = IF S \in DOMAIN map THEN [map EXCEPT ![S] = With(@, K, v)] ELSE map
  /\ UNCHANGED <<saved, answer>>
PutNew(S, K, v) == IF S \in DOMAIN map /\ K \in DOMAIN map[S] THEN UNCHANGED vars ELSE Put(S, K, v)
Drop(S, K) == map' = [T \in DOMAIN map |-> IF T = S THEN Without(map[T], K) ELSE map[T]] /\ UNCHANGED <<saved, answer>>

Get(S, K) ==
  /\ answer' = IF S \in DOMAIN map /\ K \in DOMAIN map[S] THEN map[S][K] ELSE None
  /\ UNCHANGED <<map, saved>>

\* A save replaces the copy; a restart in the middle of it finds part of the new one.
SaveBegins == saved' = {} /\ UNCHANGED <<map, answer>>
SaveEnds == saved = {} /\ saved' = {map} /\ UNCHANGED <<map, answer>>
Reload == map' \in saved /\ UNCHANGED <<saved, answer>>
RestartInSave(rest) == saved = {} /\ map' = rest /\ saved' = {rest} /\ UNCHANGED answer
New == map' = NoSections /\ UNCHANGED <<saved, answer>>

Next ==
  \/ \E S \in Sections :
       \/ AddSection(S) \/ DropSection(S)
       \/ \E K \in Keys : Drop(S, K) \/ Get(S, K) \/ \E v \in Data : Put(S, K, v) \/ PutNew(S, K, v)
  \/ SaveBegins \/ SaveEnds \/ Reload \/ New
  \/ \E rest \in PartsOf(map) : RestartInSave(rest)

Spec == Init /\ [][Next]_vars
=============================================================================
