-------------------------------- MODULE Text --------------------------------
(* Searching, cutting and converting texts (TheString.cpp, VbStd.cpp), taking a call of a      *)
(* program apart, and sorting a directory (FileSystem.cpp).  A text is a sequence of bytes,    *)
(* positions count from 1, and 0 stands for nothing found.  The functions are checked against  *)
(* definitions of another form for every text that can be typed with one of some alphabets.    *)
EXTENDS Integers, SequencesExt, FiniteSetsExt

CONSTANTS
  Alphabets,        \* sets of bytes
  MaxLen            \* bound

VARIABLES text

FirstOf(positions) == IF positions = {} THEN 0 ELSE Min(positions)

LastOf(positions) == IF positions = {} THEN 0 ELSE Max(positions)

\* Searching.
InStrFirst(s, char, start) == FirstOf({i \in start..Len(s) : s[i] = char})
InStrLast(s, char) == LastOf({i \in DOMAIN s : s[i] = char})          \* callers begin at the end

Occurs(s, what, i) == SubSeq(s, i, i + Len(what) - 1) = what
InStr_OneShort(s, what, start) ==
  LET end == Len(s) - Len(what)
  IN FirstOf({i \in start..end : end <= Len(s) /\ Occurs(s, what, i)})
InStr(s, what, start) ==
  LET end == Len(s) - Len(what) + 1      \* beyond the text if what is empty: never found
  IN FirstOf({i \in start..end : end <= Len(s) /\ Occurs(s, what, i)})

\* Cutting.  Positions and counts are unsigned, so a negative one is beyond every text; -1 is "all".
mid(s, start, count) ==
  LET rest == Len(s) - start + 1
      n == IF count < 0 \/ count > rest THEN rest ELSE count
  IN IF start \in DOMAIN s THEN SubSeq(s, start, start + n - 1) ELSE <<>>

Left(s, len) == mid(s, 1, len)
Right(s, len) == mid(s, Len(s) - len + 1, len)
cutoffLeftChars(s, count) == [i \in 1..(Len(s) - count) |-> s[i + count]]

RECURSIVE Replacing(_, _, _, _)
Replacing(s, what, new, startchar) ==
  LET i == InStr(s, what, startchar)
  IN IF i = 0 THEN s
     ELSE Replacing(Left(s, i - 1) \o new \o mid(s, i + Len(what), -1), what, new, i + Len(new))
Replace(s, what, new) == Replacing(s, what, new, 1)

\* The fields of <d>field<d>field...; a delimiter at the end adds an empty one.
RECURSIVE Splitting(_, _, _)
Splitting(s, d, after) ==
  LET start == InStrFirst(s, d, after + 1)
      end == InStrFirst(s, d, start + 1)
  IN IF start = 0 THEN <<>>
     ELSE <<mid(s, start + 1, IF end > 0 THEN end - start - 1 ELSE -1)>> \o Splitting(s, d, start)
split(s, d) == Splitting(s, d, 0)

\* The fields of field<d>field<d>...  Past the last delimiter the search begins again at the start.
RECURSIVE Delimiters(_, _, _)
Delimiters(s, d, which) ==               \* lastpos and pos after so many rounds
  IF which = 0 THEN <<0, 0>>
  ELSE LET pos == Delimiters(s, d, which - 1)[2] IN <<pos, InStrFirst(s, d, pos + 1)>>
StringPart(s, which, d) ==
  LET lastpos == Delimiters(s, d, which)[1]
      pos == Delimiters(s, d, which)[2]
  IN IF pos = 0 THEN <<>> ELSE mid(s, lastpos + 1, pos - lastpos - 1)

\* Converting.
UCase(s) == [i \in DOMAIN s |-> IF s[i] \in (97..122) \cup {228, 246, 252} THEN s[i] - 32 ELSE s[i]]

LCase(s) == [i \in DOMAIN s |-> IF s[i] \in (65..90) \cup {196, 214, 220} THEN s[i] + 32 ELSE s[i]]

Digits == 48..57
DigitEnd(s) == LET other == {i \in DOMAIN s : s[i] \notin Digits} IN IF other = {} THEN Len(s) ELSE Min(other) - 1

\* Digits after the first other character count as zero: (long) pow(10, -1) is 0.  At most nine digits fit.
CLong(s) ==
  LET end == DigitEnd(s)
  IN FoldFunction(+, 0, [i \in 1..end |-> (s[i] - 48) * 10^(end - i)])

ChrString(len, char) == [i \in 1..len |-> char]
FillStr(s, len, char) == ChrString(len - Len(s), char) \o s

\* char is signed.
Signed(c) == IF c > 127 THEN c - 256 ELSE c

HexDigit(n) == IF n <= 9 THEN 48 + n ELSE 55 + n
byte2hex(b) == <<HexDigit(b \div 16), HexDigit(b % 16)>>
hex2byte(c, d) ==          \* of any two bytes
  LET value(x) == IF Signed(x) >= 65 THEN Signed(x) - 55 ELSE Signed(x) - 48
  IN (16 * value(c) + value(d)) % 256
str2hex(s) == FlattenSeq([i \in DOMAIN s |-> byte2hex(s[i])])
hex2str(s) == IF Len(s) % 2 = 1 THEN <<>> ELSE [i \in 1..(Len(s) \div 2) |-> hex2byte(s[2 * i - 1], s[2 * i])]

\* Comparing.
streq(a, b) == Len(a) = Len(b) /\ \A i \in DOMAIN a : a[i] = b[i]
intstreq(a, b) ==
  LET i == FirstOf({j \in DOMAIN a : j > Len(b) \/ a[j] # b[j]})
  IN IF i = 0 THEN (IF Len(b) > Len(a) THEN -(Len(a) + 1) ELSE 0)
     ELSE IF i > Len(b) THEN Len(a) + 1
     ELSE IF Signed(a[i]) < Signed(b[i]) THEN -i ELSE i

\* The call of a program: a path, in quotes if it has blanks, and perhaps a blank and parameters.
Quote == 34
Blank == 32
Backslash == 92
FindSpaceParameter(call) ==
  LET quote == IF call # <<>> /\ call[1] = Quote THEN InStrFirst(call, Quote, 2) ELSE 0
  IN InStrFirst(call, Blank, quote + 1)

\* The code looks at the last byte even of what is a single quote, which is the byte before the text.
Cutquotes(s, quote) ==
  LET cut == IF s # <<>> /\ s[1] = quote THEN Right(s, Len(s) - 1) ELSE s
  IN IF cut # <<>> /\ Last(cut) = quote THEN Front(cut) ELSE cut

Program(call) ==
  LET space == FindSpaceParameter(call) IN Cutquotes(IF space = 0 THEN call ELSE SubSeq(call, 1, space - 1), Quote)
GetFilenameFromCall(call) ==
  LET bs == InStrLast(Program(call), Backslash)
  IN IF bs = 0 THEN Program(call) ELSE Right(Program(call), Len(Program(call)) - bs)
GetPathFromCall(call) ==
  LET bs == InStrLast(Program(call), Backslash)
  IN IF bs = 0 THEN Program(call) ELSE SubSeq(Program(call), 1, bs - 1)
GetParamsFromCall(call) ==
  LET space == FindSpaceParameter(call) IN IF space = 0 THEN <<>> ELSE Right(call, Len(call) - space)

GetExtFromFilename(file) ==
  LET pos == InStrLast(file, 46) IN IF pos = 0 THEN <<>> ELSE Right(file, Len(file) - pos)
Cutb(path) == IF path # <<>> /\ Last(path) = Backslash THEN Front(path) ELSE path

\* Sorting by name (FS_NAME); kabutt counts from 0.
SortCondition1(a, b) == intstreq(UCase(a), UCase(b)) < 0

RECURSIVE Sinking(_, _, _, _)
Sinking(files, kabutt, heap, k) ==
  LET left == 2 * kabutt + 1
      right == left < heap - 1 /\ SortCondition1(files[left + 1], files[left + 2])
      next == IF right THEN left + 1 ELSE left
  IN IF kabutt < heap \div 2 /\ SortCondition1(k, files[next + 1])
     THEN Sinking([files EXCEPT ![kabutt + 1] = files[next + 1]], next, heap, k)
     ELSE [files EXCEPT ![kabutt + 1] = k]
AdjustHeap(files, kabutt, heap) == Sinking(files, kabutt, heap, files[kabutt + 1])

Swap(files, i, j) == [files EXCEPT ![i] = files[j], ![j] = files[i]]
HeapSort(files) ==
  LET u == Len(files)
      heaped == FoldLeft(LAMBDA f, i : AdjustHeap(f, (u \div 2) - i, u), files, [i \in 1..(u \div 2) |-> i])
  IN FoldLeft(LAMBDA f, i : AdjustHeap(Swap(f, 1, u - i + 1), 0, u - i), heaped, [i \in 1..(u - 1) |-> i])

\* A text is typed.
Init == text = <<>>
Type(alphabet, c) == Len(text) < MaxLen /\ Range(text) \subseteq alphabet /\ text' = Append(text, c)
Next == \E alphabet \in Alphabets : \E c \in alphabet : Type(alphabet, c)
Spec == Init /\ [][Next]_text

\* The other forms.
RECURSIVE Substituted(_, _, _)
Substituted(s, what, new) ==
  IF s = <<>> THEN <<>>
  ELSE IF IsPrefix(what, s) THEN new \o Substituted(SubSeq(s, Len(what) + 1, Len(s)), what, new)
  ELSE <<s[1]>> \o Substituted(Tail(s), what, new)

Fields(s, d, before) ==      \* before: the text ahead of the first delimiter is a field too
  FoldLeft(LAMBDA fields, c : IF c = d THEN Append(fields, <<>>)
                              ELSE IF fields = <<>> THEN fields
                              ELSE [fields EXCEPT ![Len(fields)] = Append(@, c)],
           IF before THEN <<<<>>>> ELSE <<>>, s)

Below(a, b) ==
  \/ a # b /\ IsPrefix(a, b)
  \/ \E i \in DOMAIN a \cap DOMAIN b : SubSeq(a, 1, i - 1) = SubSeq(b, 1, i - 1) /\ Signed(a[i]) < Signed(b[i])

Alphabet == CHOOSE alphabet \in Alphabets : Range(text) \subseteq alphabet
Short == {<<>>} \cup {<<c>> : c \in Alphabet} \cup {<<c, d>> : c, d \in Alphabet}
Halves == {<<Left(text, i), Right(text, Len(text) - i)>> : i \in 0..Len(text)}

Replaces == \A what \in Short \ {<<>>}, new \in Short : Replace(text, what, new) = Substituted(text, what, new)
Splits == \A d \in Alphabet : /\ split(text, d) = Fields(text, d, FALSE)
                              /\ \A which \in 1..(Len(Fields(text, d, TRUE)) - 1) :
                                   StringPart(text, which, d) = Fields(text, d, TRUE)[which]
Cuts == \A h \in Halves : h[1] \o h[2] = text /\ cutoffLeftChars(text, Len(h[1])) = h[2]
Converts ==
  /\ CLong(FillStr(text, MaxLen, 48)) = CLong(text)
  /\ CLong(text) = FoldLeft(LAMBDA n, c : 10 * n + c - 48, 0, Left(text, DigitEnd(text)))
  /\ UCase(LCase(text)) = UCase(text) /\ LCase(UCase(text)) = LCase(text)
  /\ hex2str(str2hex(text)) = text
Compares == \A h \in Halves : /\ intstreq(h[1], h[2]) < 0 <=> Below(h[1], h[2])
                              /\ intstreq(h[1], h[2]) = 0 <=> h[1] = h[2]
                              /\ streq(h[1], h[2]) <=> h[1] = h[2]

\* A path written as a call, with or without parameters, is found again, and so is what it consists of.
Quoted(path) == <<Quote>> \o path \o <<Quote>>
ResolvesTo(call, path, params) ==
  /\ GetParamsFromCall(call) = params
  /\ LET folder == GetPathFromCall(call)
         file == GetFilenameFromCall(call)
     IN IF Backslash \in Range(path) THEN folder \o <<Backslash>> \o file = path /\ Backslash \notin Range(file)
        ELSE folder = path /\ file = path
Resolves ==
  \A h \in Halves : Quote \notin Range(h[1]) =>
    LET path == h[1]
        params == h[2]
    IN /\ ResolvesTo(Quoted(path), path, <<>>) /\ ResolvesTo(Quoted(path) \o <<Blank>> \o params, path, params)
       /\ Blank \notin Range(path) => ResolvesTo(path \o <<Blank>> \o params, path, params)
       /\ LET file == GetFilenameFromCall(Quoted(path))
              ext == GetExtFromFilename(file)
          IN IsSuffix(ext, file) /\ 46 \notin Range(ext) /\ (ext # <<>> => file[Len(file) - Len(ext)] = 46)
       /\ Cutb(path \o <<Backslash>>) = path /\ (Cutb(path) = path \/ Cutb(path) \o <<Backslash>> = path)
Sorts ==
  LET files == HeapSort([i \in DOMAIN text |-> <<text[i]>>])
  IN /\ \A i \in 1..(Len(text) - 1) : ~SortCondition1(files[i + 1], files[i])
     /\ \A c \in Alphabet : Cardinality({i \in DOMAIN files : files[i] = <<c>>}) = Cardinality({i \in DOMAIN text : text[i] = c})

\* The functions on texts (TheString.cpp, VbStd.cpp, FileSystem.cpp) do what their names say, at the
\* borders too: overlapping and empty replacements, empty fields, texts one the beginning of the
\* other, calls that are empty or consist of blanks, points and backslashes.
TextsAreRight == Replaces /\ Splits /\ Cuts /\ Converts /\ Compares /\ Resolves /\ Sorts
=============================================================================
