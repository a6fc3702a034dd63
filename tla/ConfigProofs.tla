---------------------------- MODULE ConfigProofs ----------------------------
(***************************************************************************)
(* Proofs about the configuration file: what its two parsers find in it and *)
(* what write_profile_string does to it, for every file; and that the       *)
(* settings of a service that runs are complete and those of its file, for  *)
(* every table of settings, whatever is edited and whenever it is killed.   *)
(***************************************************************************)
EXTENDS Config, Induction, SequenceTheorems

-----------------------------------------------------------------------------
(* Least and greatest numbers *)

LEMMA MinIs ==
  ASSUME NEW S \in SUBSET Nat, S # {}
  PROVE  Min(S) \in S /\ \A m \in S : Min(S) <= m
<1>1. \E x \in S : \A y \in S : x <= y
  BY Least
<1> QED
  BY <1>1 DEF Min

LEMMA MinUnique ==
  ASSUME NEW S \in SUBSET Nat, NEW n \in S, \A m \in S : n <= m
  PROVE  Min(S) = n
<1>1. Min(S) \in S /\ Min(S) <= n
  BY MinIs
<1>2. Min(S) \in Nat /\ n \in Nat /\ n <= Min(S)
  BY <1>1
<1> QED
  BY <1>1, <1>2

LEMMA MaxIs ==
  ASSUME NEW bound \in Nat, NEW S \in SUBSET (0 .. bound), S # {}
  PROVE  Max(S) \in S /\ \A m \in S : m <= Max(S)
<1>1. \E x \in S : \A y \in S : x >= y
  BY Greatest
<1> QED
  BY <1>1 DEF Max

LEMMA LastOfIs ==
  ASSUME NEW lines \in SUBSET Nat, NEW i \in Nat
  PROVE  /\ LastOf(lines, i) \in {0} \cup {j \in lines : j < i}
         /\ \A j \in lines : j < i => j <= LastOf(lines, i)
<1> DEFINE S == {0} \cup {j \in lines : j < i}
<1>1. S \in SUBSET (0 .. i) /\ S # {} /\ \A j \in lines : j < i => j \in S
  <2>1. \A j \in lines : j \in Nat
    OBVIOUS
  <2>2. \A j \in S : j \in 0 .. i
    BY <2>1
  <2> QED
    BY <2>2
<1>2. LastOf(lines, i) = Max(S)
  BY DEF LastOf
<1> HIDE DEF S
<1>3. Max(S) \in S /\ \A m \in S : m <= Max(S)
  BY <1>1, MaxIs
<1> QED
  BY <1>1, <1>2, <1>3 DEF S

LEMMA LastOfUnique ==
  ASSUME NEW lines \in SUBSET Nat, NEW i \in Nat,
         NEW h \in {0} \cup {j \in lines : j < i},
         \A j \in lines : j < i => j <= h
  PROVE  LastOf(lines, i) = h
<1> DEFINE l == LastOf(lines, i)
<1>1. /\ l \in {0} \cup {j \in lines : j < i}
      /\ \A j \in lines : j < i => j <= l
  BY LastOfIs
<1> HIDE DEF l
<1>2. l \in Nat /\ h \in Nat
  BY <1>1
<1>3. h <= l
  BY <1>1, <1>2
<1>4. l <= h
  BY <1>1, <1>2
<1> QED
  BY <1>2, <1>3, <1>4 DEF l

-----------------------------------------------------------------------------
(* Lines and headers *)

Files == Seq(Lines)

LEMMA LineFields ==
  ASSUME NEW file \in Files, NEW i \in 1 .. Len(file)
  PROVE  /\ file[i] \in Lines /\ file[i].indent \in BOOLEAN
         /\ file[i].kind \in {"header", "entry", "loose", "text", "note", "blank"}
         /\ file[i].name \in STRING /\ file[i].value \in STRING
<1>1. file[i] \in Lines
  BY ElementOfSeq DEF Files
<1> QED
  BY <1>1 DEF Lines

LEMMA FileFacts ==
  ASSUME NEW file \in Files
  PROVE  /\ Len(file) \in Nat /\ DOMAIN file = 1 .. Len(file)
         /\ FileHeaders(file) \in SUBSET Nat
         /\ \A h : h \in FileHeaders(file) <=>
              h \in 1 .. Len(file) /\ file[h].kind = "header" /\ ~file[h].indent
<1>1. Len(file) \in Nat /\ DOMAIN file = 1 .. Len(file)
  BY LenProperties DEF Files
<1> QED
  BY <1>1 DEF FileHeaders, Of

(* the header a line stands under, 0 if there is none *)
HeaderOf(file, i) == LastOf(FileHeaders(file), i)

LEMMA HeaderOfIs ==
  ASSUME NEW file \in Files, NEW i \in Nat
  PROVE  /\ HeaderOf(file, i) \in Nat
         /\ HeaderOf(file, i) # 0 =>
              HeaderOf(file, i) < i /\ HeaderOf(file, i) \in FileHeaders(file)
         /\ \A h \in FileHeaders(file) : h < i => h <= HeaderOf(file, i)
<1>1. FileHeaders(file) \in SUBSET Nat
  BY FileFacts
<1> QED
  BY <1>1, LastOfIs DEF HeaderOf

LEMMA HeaderOfUnique ==
  ASSUME NEW file \in Files, NEW i \in Nat, NEW h \in FileHeaders(file), h < i,
         \A j \in FileHeaders(file) : j < i => j <= h
  PROVE  HeaderOf(file, i) = h
<1>1. FileHeaders(file) \in SUBSET Nat
  BY FileFacts
<1> QED
  BY <1>1, LastOfUnique DEF HeaderOf

LEMMA NoHeaderOf ==
  ASSUME NEW file \in Files, NEW i \in Nat,
         \A j \in FileHeaders(file) : ~(j < i)
  PROVE  HeaderOf(file, i) = 0
<1>1. FileHeaders(file) \in SUBSET Nat
  BY FileFacts
<1> QED
  BY <1>1, LastOfUnique DEF HeaderOf

LEMMA LineAfterIs ==
  ASSUME NEW file \in Files, NEW h \in 1 .. Len(file)
  PROVE  /\ LineAfter(file, h) \in h + 1 .. Len(file) + 1
         /\ \A i \in h + 1 .. LineAfter(file, h) - 1 : file[i].kind = "blank"
         /\ LineAfter(file, h) <= Len(file) =>
              file[LineAfter(file, h)].kind # "blank"
<1> DEFINE S == {i \in h + 1 .. Len(file) : file[i].kind # "blank"}
                  \cup {Len(file) + 1}
<1>1. Len(file) \in Nat
  BY FileFacts
<1>2. /\ S \in SUBSET Nat /\ S # {} /\ S \subseteq h + 1 .. Len(file) + 1
      /\ \A i \in S : i <= Len(file) => file[i].kind # "blank"
      /\ \A i \in h + 1 .. Len(file) : i \notin S => file[i].kind = "blank"
  BY <1>1
<1>3. LineAfter(file, h) = Min(S)
  BY DEF LineAfter
<1> HIDE DEF S
<1>4. Min(S) \in S /\ \A m \in S : Min(S) <= m
  BY <1>2, MinIs
<1>5. Min(S) \in h + 1 .. Len(file) + 1
  BY <1>2, <1>4
<1>6. ASSUME NEW i \in h + 1 .. Min(S) - 1
      PROVE  file[i].kind = "blank"
  <2>1. i \in h + 1 .. Len(file) /\ i \notin S
    BY <1>1, <1>4, <1>5
  <2> QED
    BY <1>2, <2>1
<1> QED
  BY <1>2, <1>3, <1>4, <1>5, <1>6

LEMMA LineAfterUnique ==
  ASSUME NEW file \in Files, NEW h \in 1 .. Len(file),
         NEW i \in h + 1 .. Len(file), file[i].kind # "blank",
         \A j \in h + 1 .. i - 1 : file[j].kind = "blank"
  PROVE  LineAfter(file, h) = i
<1> DEFINE a == LineAfter(file, h)
<1>1. Len(file) \in Nat
  BY FileFacts
<1>2. /\ a \in h + 1 .. Len(file) + 1
      /\ \A j \in h + 1 .. a - 1 : file[j].kind = "blank"
      /\ a <= Len(file) => file[a].kind # "blank"
  BY LineAfterIs
<1> HIDE DEF a
<1>3. ~(a < i)
  BY <1>1, <1>2
<1>4. ~(i < a)
  BY <1>1, <1>2
<1> QED
  BY <1>1, <1>2, <1>3, <1>4 DEF a

-----------------------------------------------------------------------------
(* What parse_file finds depends on the kinds, the names and the            *)
(* indentation of the lines up to the one it is in.                         *)

Alike(file, other, n) ==
  /\ n <= Len(file) /\ n <= Len(other)
  /\ \A i \in 1 .. n : /\ file[i].kind = other[i].kind
                       /\ file[i].name = other[i].name
                       /\ file[i].indent = other[i].indent

LEMMA AlikeSymmetric ==
  ASSUME NEW file, NEW other, NEW n, Alike(file, other, n)
  PROVE  Alike(other, file, n)
BY DEF Alike

LEMMA HeadersAlike ==
  ASSUME NEW file \in Files, NEW other \in Files, NEW n \in Nat,
         Alike(file, other, n)
  PROVE  \A i \in 1 .. n : i \in FileHeaders(file) <=> i \in FileHeaders(other)
<1>1. \A i \in 1 .. n : i \in 1 .. Len(file) /\ i \in 1 .. Len(other)
  BY FileFacts DEF Alike
<1> QED
  BY <1>1, FileFacts DEF Alike

LEMMA HeaderOfAlike ==
  ASSUME NEW file \in Files, NEW other \in Files, NEW n \in Nat,
         Alike(file, other, n), NEW i \in 1 .. n + 1
  PROVE  HeaderOf(file, i) = HeaderOf(other, i)
<1> DEFINE h == HeaderOf(file, i)
<1>1. i \in Nat
  OBVIOUS
<1>2. /\ h \in Nat
      /\ h # 0 => h < i /\ h \in FileHeaders(file)
      /\ \A j \in FileHeaders(file) : j < i => j <= h
  BY <1>1, HeaderOfIs
<1>3. /\ \A j : j \in FileHeaders(other) => j \in Nat /\ j >= 1
      /\ \A j : j \in FileHeaders(file) => j \in Nat /\ j >= 1
  BY FileFacts
<1>4. \A j \in 1 .. n : j \in FileHeaders(file) <=> j \in FileHeaders(other)
  BY HeadersAlike
<1> HIDE DEF h
<1>5. \A j \in FileHeaders(other) : j < i => j \in FileHeaders(file)
  BY <1>3, <1>4
<1>6. CASE h = 0
  <2>1. \A j \in FileHeaders(other) : ~(j < i)
    BY <1>2, <1>3, <1>5, <1>6
  <2> QED
    BY <1>1, <1>6, <2>1, NoHeaderOf DEF h
<1>7. CASE h # 0
  <2>1. h \in FileHeaders(other) /\ h < i
    BY <1>2, <1>3, <1>4, <1>7
  <2>2. \A j \in FileHeaders(other) : j < i => j <= h
    BY <1>2, <1>5
  <2>3. HeaderOf(other, i) = h
    BY <1>1, <2>1, <2>2, HeaderOfUnique
  <2> QED
    BY <2>3 DEF h
<1> QED
  BY <1>6, <1>7

LEMMA LineAfterAlike ==
  ASSUME NEW file \in Files, NEW other \in Files, NEW n \in Nat,
         Alike(file, other, n), NEW i \in 1 .. n, NEW h \in 1 .. n, h < i,
         i = LineAfter(file, h)
  PROVE  i = LineAfter(other, h)
<1>1. /\ Len(file) \in Nat /\ Len(other) \in Nat
      /\ n <= Len(file) /\ n <= Len(other)
  BY FileFacts DEF Alike
<1>2. h \in 1 .. Len(file) /\ h \in 1 .. Len(other) /\ i \in h + 1 .. Len(other)
      /\ i <= Len(file)
  BY <1>1
<1>3. /\ file[i].kind # "blank"
      /\ \A j \in h + 1 .. i - 1 : file[j].kind = "blank"
  BY <1>2, LineAfterIs
<1>4. /\ other[i].kind # "blank"
      /\ \A j \in h + 1 .. i - 1 : other[j].kind = "blank"
  BY <1>3 DEF Alike
<1> QED
  BY <1>2, <1>4, LineAfterUnique

(* line i holds the key in the section *)
IsKeyLine(file, section, key, i) ==
  /\ i \in 1 .. Len(file) /\ file[i].kind = "entry"
  /\ file[i].name # "" /\ IsPrefix(file[i].name, key)
  /\ HeaderOf(file, i) # 0 /\ IsPrefix(file[HeaderOf(file, i)].name, section)
  /\ file[i].indent => i = LineAfter(file, HeaderOf(file, i))

LEMMA KeyLinesIs ==
  ASSUME NEW file \in Files, NEW section, NEW key
  PROVE  /\ KeyLines(file, section, key) \in SUBSET Nat
         /\ \A i : i \in KeyLines(file, section, key) <=>
                   IsKeyLine(file, section, key, i)
<1>1. \A i : i \in Of(file, {"entry"}) <=>
            i \in 1 .. Len(file) /\ file[i].kind = "entry"
  BY FileFacts DEF Of
<1>2. KeyLines(file, section, key) =
        {i \in Of(file, {"entry"}) :
           /\ file[i].name # "" /\ IsPrefix(file[i].name, key)
           /\ HeaderOf(file, i) # 0
           /\ IsPrefix(file[HeaderOf(file, i)].name, section)
           /\ file[i].indent => i = LineAfter(file, HeaderOf(file, i))}
  BY Zenon DEF KeyLines, HeaderOf
<1>3. \A i : i \in KeyLines(file, section, key) <=>
            IsKeyLine(file, section, key, i)
  BY <1>1, <1>2, Zenon DEF IsKeyLine
<1>4. \A i : IsKeyLine(file, section, key, i) => i \in Nat
  <2>1. \A i : IsKeyLine(file, section, key, i) => i \in 1 .. Len(file)
    BY Zenon DEF IsKeyLine
  <2> QED
    BY <2>1
<1> QED
  BY <1>3, <1>4, Zenon

LEMMA KeyLinesAlike ==
  ASSUME NEW file \in Files, NEW other \in Files, NEW n \in Nat,
         Alike(file, other, n), NEW section, NEW key
  PROVE  \A i \in 1 .. n : i \in KeyLines(file, section, key) <=>
                           i \in KeyLines(other, section, key)
<1>1. ASSUME NEW f \in Files, NEW g \in Files, Alike(f, g, n),
             NEW i \in 1 .. n, i \in KeyLines(f, section, key)
      PROVE  i \in KeyLines(g, section, key)
  <2> DEFINE h == HeaderOf(f, i)
  <2>1. /\ f[i].kind = "entry"
        /\ f[i].name # "" /\ IsPrefix(f[i].name, key)
        /\ h # 0 /\ IsPrefix(f[h].name, section)
        /\ f[i].indent => i = LineAfter(f, h)
    <3>1. IsKeyLine(f, section, key, i)
      BY <1>1, KeyLinesIs
    <3> QED
      BY <3>1 DEF IsKeyLine
  <2>2. h = HeaderOf(g, i)
    BY <1>1, HeaderOfAlike
  <2>i. i \in Nat /\ i <= n
    OBVIOUS
  <2>3. h \in Nat /\ h < i
    BY <2>1, <2>i, HeaderOfIs
  <2> HIDE DEF h
  <2>4. h \in 1 .. n
    <3>1. h # 0
      BY <2>1
    <3> QED
      BY <2>3, <2>i, <3>1
  <2>5. g[i].indent => i = LineAfter(g, h)
    <3> SUFFICES ASSUME g[i].indent
                 PROVE  i = LineAfter(g, h)
      OBVIOUS
    <3>1. f[i].indent
      BY <1>1 DEF Alike
    <3> QED
      BY <1>1, <2>1, <2>3, <2>4, <3>1, LineAfterAlike
  <2>6. i \in 1 .. Len(g)
    BY <1>1, FileFacts DEF Alike
  <2>7. /\ g[i].kind = "entry" /\ g[i].name = f[i].name
        /\ g[h].name = f[h].name
    BY <1>1, <2>1, <2>4 DEF Alike
  <2>8. IsKeyLine(g, section, key, i)
    BY <2>1, <2>2, <2>5, <2>6, <2>7 DEF IsKeyLine
  <2> QED
    BY <2>8, KeyLinesIs
<1>2. Alike(other, file, n)
  BY AlikeSymmetric
<1> QED
  BY <1>1, <1>2

-----------------------------------------------------------------------------
(* What write_profile_string makes of a file *)

LEMMA InsertAtIs ==
  ASSUME NEW S, NEW s \in Seq(S), NEW i \in 1 .. Len(s), NEW e \in S
  PROVE  /\ InsertAt(s, i, e) \in Seq(S) /\ Len(InsertAt(s, i, e)) = Len(s) + 1
         /\ InsertAt(s, i, e)[i] = e
         /\ \A j \in 1 .. i - 1 : InsertAt(s, i, e)[j] = s[j]
         /\ \A j \in i .. Len(s) : InsertAt(s, i, e)[j + 1] = s[j]
<1> DEFINE L == Len(s)
           a == SubSeq(s, 1, i - 1)
           b == SubSeq(s, i, L)
           ae == a \o <<e>>
<1>0. L \in Nat /\ i \in 1 .. L /\ \A j \in 1 .. L : s[j] \in S
  BY ElementOfSeq
<1>1. /\ a \in Seq(S) /\ Len(a) = i - 1
      /\ \A j \in 1 .. i - 1 : a[j] = s[j]
  <2>1. \A j \in 1 .. i - 1 : s[j] \in S
    BY <1>0
  <2> QED
    BY <2>1, <1>0, SubSeqProperties
<1>2. /\ b \in Seq(S) /\ Len(b) = L - i + 1
      /\ \A j \in 1 .. L - i + 1 : b[j] = s[i + j - 1]
  <2>1. \A j \in i .. L : s[j] \in S
    BY <1>0
  <2> HIDE DEF L
  <2> QED
    BY <2>1, <1>0, SubSeqProperties
<1>3. <<e>> \in Seq(S) /\ Len(<<e>>) = 1 /\ <<e>>[1] = e
  OBVIOUS
<1> HIDE DEF a, b, L
<1>4. /\ ae \in Seq(S) /\ Len(ae) = i
      /\ \A j \in 1 .. i - 1 : ae[j] = s[j]
      /\ ae[i] = e
  <2>1. /\ a \o <<e>> \in Seq(S) /\ Len(a \o <<e>>) = Len(a) + Len(<<e>>)
        /\ \A j \in 1 .. Len(a) + Len(<<e>>) : (a \o <<e>>)[j] =
              IF j <= Len(a) THEN a[j] ELSE <<e>>[j - Len(a)]
    BY <1>1, <1>3, ConcatProperties
  <2>2. Len(ae) = i /\ Len(a) + Len(<<e>>) = i
    BY <1>0, <1>1, <1>3, <2>1
  <2>3. \A j \in 1 .. i - 1 : ae[j] = s[j]
    BY <1>0, <1>1, <2>1, <2>2
  <2>4. ae[i] = e
    <3>1. i \in 1 .. i /\ ~(i <= i - 1) /\ i - (i - 1) = 1
      BY <1>0
    <3> QED
      BY <1>1, <1>3, <2>1, <2>2, <3>1
  <2> QED
    BY <2>1, <2>2, <2>3, <2>4
<1> HIDE DEF ae
<1> DEFINE w == ae \o b
<1>5. /\ w \in Seq(S) /\ Len(w) = L + 1
      /\ \A j \in 1 .. L + 1 : w[j] = IF j <= i THEN ae[j] ELSE b[j - i]
  <2>1. /\ w \in Seq(S) /\ Len(w) = Len(ae) + Len(b)
        /\ \A j \in 1 .. Len(ae) + Len(b) : w[j] =
              IF j <= Len(ae) THEN ae[j] ELSE b[j - Len(ae)]
    BY <1>2, <1>4, ConcatProperties
  <2>2. Len(ae) + Len(b) = L + 1 /\ Len(ae) = i
    BY <1>0, <1>2, <1>4
  <2> QED
    BY <2>1, <2>2
<1>6. InsertAt(s, i, e) = w
  BY DEF InsertAt, w, ae, a, b, L
<1> HIDE DEF w
<1>7. w[i] = e
  BY <1>0, <1>4, <1>5
<1>8. ASSUME NEW j \in 1 .. i - 1
      PROVE  w[j] = s[j]
  BY <1>0, <1>4, <1>5
<1>9. ASSUME NEW j \in i .. L
      PROVE  w[j + 1] = s[j]
  <2>1. /\ j + 1 \in 1 .. L + 1 /\ ~(j + 1 <= i)
        /\ (j + 1) - i \in 1 .. L - i + 1 /\ i + ((j + 1) - i) - 1 = j
    BY <1>0
  <2> QED
    BY <1>2, <1>5, <2>1
<1> QED
  BY <1>5, <1>6, <1>7, <1>8, <1>9 DEF L

(* file with line added at i *)
Added(file, i, line, written) ==
  /\ written \in Files /\ Len(written) = Len(file) + 1
  /\ \A j \in 1 .. i - 1 : written[j] = file[j]
  /\ written[i].kind = line.kind /\ written[i].name = line.name
  /\ written[i].value = line.value
  /\ written[i].indent <=> i <= Len(file) /\ file[i].indent
  /\ \A j \in i .. Len(file) :
       /\ written[j + 1].kind = file[j].kind
       /\ written[j + 1].name = file[j].name
       /\ written[j + 1].value = file[j].value
       /\ written[j + 1].indent <=> j # i /\ file[j].indent

LEMMA AddAtIs ==
  ASSUME NEW file \in Files, NEW i \in 1 .. Len(file) + 1,
         NEW line \in Lines, ~line.indent
  PROVE  Added(file, i, line, AddAt(file, i, line))
<1> DEFINE written == AddAt(file, i, line)
<1>0. Len(file) \in Nat /\ file \in Seq(Lines)
  BY FileFacts DEF Files
<1>1. CASE i > Len(file)
  <2>1. i = Len(file) + 1 /\ written = Append(file, line)
    BY <1>0, <1>1 DEF AddAt
  <2>2. /\ written \in Seq(Lines) /\ Len(written) = Len(file) + 1
        /\ \A j \in 1 .. Len(file) : written[j] = file[j]
        /\ written[i] = line
    BY <1>0, <2>1, AppendProperties
  <2>3. \A j \in i .. Len(file) : FALSE
    BY <1>0, <2>1
  <2> HIDE DEF written
  <2>4. Added(file, i, line, written)
    BY <1>0, <2>1, <2>2, <2>3 DEF Added, Files
  <2> QED
    BY <2>4 DEF written
<1>2. CASE ~(i > Len(file))
  <2> DEFINE f == [file EXCEPT ![i].indent = FALSE]
             l == [line EXCEPT !.indent = file[i].indent]
             old == [file[i] EXCEPT !.indent = FALSE]
  <2>1. i \in 1 .. Len(file) /\ i <= Len(file)
    BY <1>0, <1>2
  <2>2. /\ old \in Lines /\ old.kind = file[i].kind /\ old.name = file[i].name
        /\ old.value = file[i].value /\ old.indent = FALSE
    <3>1. file[i] \in Lines
      BY <2>1, LineFields
    <3> QED
      BY <3>1 DEF Lines
  <2>3. /\ l \in Lines /\ l.kind = line.kind /\ l.name = line.name
        /\ l.value = line.value /\ l.indent = file[i].indent
    <3>1. file[i].indent \in BOOLEAN
      BY <2>1, LineFields
    <3> QED
      BY <3>1 DEF Lines
  <2>4. f = [file EXCEPT ![i] = old]
    BY DEF f
  <2> HIDE DEF f, l, old
  <2>5. /\ f \in Seq(Lines) /\ Len(f) = Len(file)
        /\ \A j \in 1 .. Len(file) : f[j] = IF j = i THEN old ELSE file[j]
    BY <1>0, <2>1, <2>2, <2>4, ExceptSeq
  <2>6. written = InsertAt(f, i, l)
    BY <1>2 DEF AddAt, f, l
  <2> HIDE DEF written
  <2>7. /\ written \in Seq(Lines) /\ Len(written) = Len(file) + 1
        /\ written[i] = l
        /\ \A j \in 1 .. i - 1 : written[j] = f[j]
        /\ \A j \in i .. Len(file) : written[j + 1] = f[j]
    <3>1. f \in Seq(Lines) /\ i \in 1 .. Len(f) /\ l \in Lines
      BY <2>1, <2>3, <2>5
    <3> DEFINE w == InsertAt(f, i, l)
    <3>2. /\ w \in Seq(Lines) /\ Len(w) = Len(f) + 1 /\ w[i] = l
          /\ \A j \in 1 .. i - 1 : w[j] = f[j]
          /\ \A j \in i .. Len(f) : w[j + 1] = f[j]
      BY <3>1, InsertAtIs
    <3>3. written = w
      BY <2>6
    <3> HIDE DEF w
    <3> QED
      BY <2>5, <3>2, <3>3
  <2>8. ASSUME NEW j \in 1 .. i - 1
        PROVE  written[j] = file[j]
    BY <1>0, <2>1, <2>5, <2>7
  <2>9. ASSUME NEW j \in i .. Len(file)
        PROVE  /\ written[j + 1].kind = file[j].kind
               /\ written[j + 1].name = file[j].name
               /\ written[j + 1].value = file[j].value
               /\ written[j + 1].indent <=> j # i /\ file[j].indent
    <3>1. written[j + 1] = f[j] /\ j \in 1 .. Len(file)
      BY <1>0, <2>1, <2>7
    <3>2. f[j] = IF j = i THEN old ELSE file[j]
      BY <2>5, <3>1
    <3> QED
      BY <2>2, <3>1, <3>2
  <2>10. Added(file, i, line, written)
    BY <2>1, <2>3, <2>7, <2>8, <2>9 DEF Added, Files
  <2> QED
    BY <2>10 DEF written
<1> QED
  BY <1>1, <1>2

(* file with the value of line i replaced *)
LEMMA ValueReplaced ==
  ASSUME NEW file \in Files, NEW i \in 1 .. Len(file), NEW value \in STRING
  PROVE  LET written == [file EXCEPT ![i].value = value]
         IN /\ written \in Files /\ Len(written) = Len(file)
            /\ Alike(file, written, Len(file))
            /\ written[i].value = value
            /\ \A j \in 1 .. Len(file) : j # i => written[j] = file[j]
<1> DEFINE line == [file[i] EXCEPT !.value = value]
           written == [file EXCEPT ![i].value = value]
<1>1. /\ line \in Lines /\ line.kind = file[i].kind /\ line.name = file[i].name
      /\ line.indent = file[i].indent /\ line.value = value
  <2>1. file[i] \in Lines
    BY LineFields
  <2> QED
    BY <2>1 DEF Lines
<1>2. written = [file EXCEPT ![i] = line]
  OBVIOUS
<1> HIDE DEF line, written
<1>3. /\ written \in Files /\ Len(written) = Len(file)
      /\ \A j \in 1 .. Len(file) : written[j] = IF j = i THEN line ELSE file[j]
  BY <1>1, <1>2, ExceptSeq DEF Files
<1>4. Alike(file, written, Len(file))
  <2>1. Len(file) \in Nat
    BY FileFacts
  <2> QED
    BY <1>1, <1>3, <2>1 DEF Alike
<1>5. written[i].value = value /\ \A j \in 1 .. Len(file) : j # i => written[j] = file[j]
  BY <1>1, <1>3
<1> QED
  BY <1>3, <1>4, <1>5 DEF written

(* file with the section, and the line in it, added at its end *)
SectionAdded(file, section, line, written) ==
  LET L == Len(file)
      k == IF file = << >> THEN 0 ELSE 1
  IN /\ written \in Files /\ Len(written) = L + k + 2
     /\ \A j \in 1 .. L : written[j] = file[j]
     /\ k = 1 => written[L + 1] = Blank
     /\ written[L + k + 1] = Header(section)
     /\ written[L + k + 2] = line

LEMMA BlankLine ==
  Blank \in Lines /\ Blank.kind = "blank" /\ Blank.indent = FALSE
BY ConfigAssumption DEF Blank, Line, Lines

LEMMA HeaderLine ==
  ASSUME NEW section \in STRING
  PROVE  /\ Header(section) \in Lines
         /\ Header(section).kind = "header" /\ Header(section).name = section
         /\ Header(section).indent = FALSE
BY ConfigAssumption DEF Header, Line, Lines

LEMMA EntryLine ==
  ASSUME NEW key \in STRING, NEW value \in STRING
  PROVE  /\ Entry(key, value) \in Lines
         /\ Entry(key, value).kind = "entry" /\ Entry(key, value).name = key
         /\ Entry(key, value).value = value /\ Entry(key, value).indent = FALSE
BY DEF Entry, Line, Lines

LEMMA SectionAddedIs ==
  ASSUME NEW file \in Files, NEW section \in STRING, NEW line \in Lines
  PROVE  SectionAdded(file, section, line,
           file \o (IF file = << >> THEN << >> ELSE <<Blank>>)
             \o <<Header(section), line>>)
<1> DEFINE L == Len(file)
           h == Header(section)
           a == IF file = << >> THEN << >> ELSE <<Blank>>
           b == <<h, line>>
           k == IF file = << >> THEN 0 ELSE 1
           fa == file \o a
           w == fa \o b
<1>1. h \in Lines /\ Blank \in Lines
  BY HeaderLine, BlankLine
<1>2. /\ a \in Seq(Lines) /\ Len(a) = k
      /\ k = 1 => a[1] = Blank
  <2>1. CASE file = << >>
    BY <2>1
  <2>2. CASE file # << >>
    <3>1. a = <<Blank>> /\ k = 1
      BY <2>2
    <3> HIDE DEF a, k
    <3> QED
      BY <1>1, <3>1
  <2> QED
    BY <2>1, <2>2
<1> HIDE DEF h
<1>3. b \in Seq(Lines) /\ Len(b) = 2 /\ b[1] = h /\ b[2] = line
  BY <1>1
<1>4. file \in Seq(Lines) /\ L \in Nat /\ k \in {0, 1}
  BY FileFacts DEF Files
<1> HIDE DEF a, b, k, L
<1>5. /\ fa \in Seq(Lines) /\ Len(fa) = L + k
      /\ \A j \in 1 .. L + k : fa[j] = IF j <= L THEN file[j] ELSE a[j - L]
  BY <1>2, <1>4, ConcatProperties DEF L
<1> HIDE DEF fa
<1>6. /\ w \in Seq(Lines) /\ Len(w) = L + k + 2
      /\ \A j \in 1 .. L + k + 2 :
           w[j] = IF j <= L + k THEN fa[j] ELSE b[j - (L + k)]
  <2>1. /\ w \in Seq(Lines) /\ Len(w) = Len(fa) + Len(b)
        /\ \A j \in 1 .. Len(fa) + Len(b) :
             w[j] = IF j <= Len(fa) THEN fa[j] ELSE b[j - Len(fa)]
    BY <1>3, <1>5, ConcatProperties
  <2> HIDE DEF w
  <2> QED
    BY <1>3, <1>4, <1>5, <2>1
<1> HIDE DEF w
<1>7. ASSUME NEW j \in 1 .. L
      PROVE  w[j] = file[j]
  BY <1>4, <1>5, <1>6
<1>8. k = 1 => w[L + 1] = Blank
  BY <1>2, <1>4, <1>5, <1>6
<1>9. w[L + k + 1] = h
  BY <1>3, <1>4, <1>6
<1>10. w[L + k + 2] = line
  BY <1>3, <1>4, <1>6
<1>11. SectionAdded(file, section, line, w)
  BY <1>6, <1>7, <1>8, <1>9, <1>10 DEF SectionAdded, Files, k, L, h
<1> QED
  BY <1>11 DEF w, fa, a, b, h

LEMMA SectionLinesIs ==
  ASSUME NEW file \in Files, NEW section
  PROVE  /\ \A h : h \in SectionLines(file, section) <=>
              h \in FileHeaders(file) /\ IsPrefix(file[h].name, section)
         /\ SectionLines(file, section) # {} =>
              /\ Max(SectionLines(file, section)) \in SectionLines(file, section)
              /\ \A h \in SectionLines(file, section) :
                    h <= Max(SectionLines(file, section))
<1>1. \A h : h \in SectionLines(file, section) <=>
         h \in FileHeaders(file) /\ IsPrefix(file[h].name, section)
  BY DEF SectionLines
<1>2. Len(file) \in Nat /\ \A h \in FileHeaders(file) : h \in 0 .. Len(file)
  BY FileFacts
<1>3. SectionLines(file, section) \in SUBSET (0 .. Len(file))
  BY <1>1, <1>2
<1> QED
  BY <1>1, <1>2, <1>3, MaxIs

(* The three things write_profile_string does. *)
LEMMA WriteIs ==
  ASSUME NEW file \in Files, NEW section \in STRING, NEW key \in STRING,
         NEW value \in STRING
  PROVE  LET written == write_profile_string(file, section, key, value)
             found == KeyLines(file, section, key)
             headers == SectionLines(file, section)
         IN \/ /\ headers = {}
               /\ SectionAdded(file, section, Entry(key, value), written)
            \/ /\ headers # {} /\ found = {}
               /\ Added(file, LineAfter(file, Max(headers)), Entry(key, value),
                        written)
            \/ /\ found # {}
               /\ written = [file EXCEPT ![Min(found)].value = value]
<1> DEFINE written == write_profile_string(file, section, key, value)
           found == KeyLines(file, section, key)
           headers == SectionLines(file, section)
           line == Entry(key, value)
<1>1. line \in Lines /\ ~line.indent
  BY EntryLine
<1>2. CASE headers = {}
  <2>1. written = file \o (IF file = << >> THEN << >> ELSE <<Blank>>)
                    \o <<Header(section), line>>
    BY <1>2 DEF write_profile_string
  <2> HIDE DEF written, line
  <2> QED
    BY <1>1, <1>2, <2>1, SectionAddedIs DEF written, line
<1>3. CASE headers # {} /\ found = {}
  <2> DEFINE h == Max(headers)
  <2>1. written = AddAt(file, LineAfter(file, h), line)
    BY <1>3 DEF write_profile_string, SectionEnd
  <2>2. h \in FileHeaders(file)
    BY <1>3, SectionLinesIs
  <2> HIDE DEF h
  <2>3. h \in 1 .. Len(file) /\ Len(file) \in Nat
    BY <2>2, FileFacts
  <2>4. LineAfter(file, h) \in 1 .. Len(file) + 1
    BY <2>3, LineAfterIs
  <2> HIDE DEF written, line
  <2>5. Added(file, LineAfter(file, h), line, written)
    BY <1>1, <2>1, <2>4, AddAtIs
  <2> QED
    BY <1>3, <2>5 DEF h, written, line
<1>4. CASE headers # {} /\ found # {}
  BY <1>4 DEF write_profile_string
<1> QED
  BY <1>2, <1>3, <1>4

-----------------------------------------------------------------------------
(* Reading what has been written *)

LEMMA FirstIsRead ==
  ASSUME NEW file \in Files, NEW section, NEW key, NEW default,
         NEW i \in KeyLines(file, section, key),
         \A j \in 1 .. i - 1 : j \notin KeyLines(file, section, key)
  PROVE  read_profile_string(file, section, key, default) = file[i].value
<1> DEFINE found == KeyLines(file, section, key)
<1>1. found \in SUBSET Nat /\ \A j \in found : j >= 1
  <2>1. \A j \in found : IsKeyLine(file, section, key, j)
    BY KeyLinesIs
  <2>2. \A j \in found : j \in 1 .. Len(file)
    BY <2>1 DEF IsKeyLine
  <2>3. found \in SUBSET Nat
    BY KeyLinesIs
  <2> QED
    BY <2>2, <2>3
<1>2. i \in found /\ found # {}
  OBVIOUS
<1>3. read_profile_string(file, section, key, default) = file[Min(found)].value
  BY <1>2 DEF read_profile_string
<1>4. \A j \in 1 .. i - 1 : j \notin found
  OBVIOUS
<1> HIDE DEF found
<1>5. \A j \in found : i <= j
  BY <1>1, <1>2, <1>4
<1>6. Min(found) = i
  BY <1>1, <1>2, <1>5, MinUnique
<1> QED
  BY <1>3, <1>6

(* the last header parse_file takes for the section *)
LastSection(file, section, h) ==
  /\ h \in FileHeaders(file) /\ IsPrefix(file[h].name, section)
  /\ \A j \in SectionLines(file, section) : j <= h

EntryFor(line, key) ==
  line.kind = "entry" /\ line.name # "" /\ IsPrefix(line.name, key)

(* An entry that is added there is the first one found. *)
LEMMA AddedIsFirst ==
  ASSUME NEW file \in Files, NEW written, NEW section, NEW key, NEW line \in Lines,
         NEW h \in Nat, LastSection(file, section, h),
         Added(file, LineAfter(file, h), line, written),
         EntryFor(line, key),
         KeyLines(file, section, key) = {}
  PROVE  /\ LineAfter(file, h) \in KeyLines(written, section, key)
         /\ \A j \in 1 .. LineAfter(file, h) - 1 :
              j \notin KeyLines(written, section, key)
<1> DEFINE i == LineAfter(file, h)
<1>1. h \in 1 .. Len(file) /\ Len(file) \in Nat /\ h \in FileHeaders(file)
  BY FileFacts DEF LastSection
<1>2. /\ i \in h + 1 .. Len(file) + 1
      /\ \A j \in h + 1 .. i - 1 : file[j].kind = "blank"
  BY <1>1, LineAfterIs
<1>3. Added(file, i, line, written)
  OBVIOUS
<1> HIDE DEF i
<1>4. i \in Nat /\ i - 1 \in Nat /\ h \in 1 .. i - 1
  BY <1>1, <1>2
<1>5. /\ written \in Files /\ Len(written) = Len(file) + 1
      /\ written[i].kind = "entry" /\ written[i].name = line.name
  BY <1>3 DEF Added, EntryFor
<1>6. Alike(file, written, i - 1)
  BY <1>1, <1>2, <1>3 DEF Added, Alike
<1>7. \A j \in 1 .. i - 1 : j \notin KeyLines(written, section, key)
  BY <1>4, <1>5, <1>6, KeyLinesAlike
<1>8. HeaderOf(written, i) = h
  <2>1. h \in FileHeaders(written)
    BY <1>1, <1>4, <1>5, <1>6, HeadersAlike
  <2>2. ASSUME NEW j \in FileHeaders(written), j < i
        PROVE  j <= h
    <3>1. j \in 1 .. i - 1
      BY <1>4, <1>5, <2>2, FileFacts
    <3>2. file[j].kind = "header"
      BY <1>5, <1>6, <3>1, FileFacts DEF Alike
    <3> QED
      BY <1>1, <1>2, <3>1, <3>2
  <2>3. h < i
    BY <1>4
  <2> QED
    BY <1>4, <1>5, <2>1, <2>2, <2>3, HeaderOfUnique
<1>9. written[h].name = file[h].name
  BY <1>4, <1>6 DEF Alike
<1>10. i = LineAfter(written, h)
  <2>1. h \in 1 .. Len(written) /\ i \in h + 1 .. Len(written)
    BY <1>1, <1>2, <1>5
  <2>2. \A j \in h + 1 .. i - 1 : written[j].kind = "blank"
    BY <1>1, <1>2, <1>6 DEF Alike
  <2> QED
    BY <1>5, <2>1, <2>2, LineAfterUnique
<1>11. h # 0 /\ i \in 1 .. Len(written)
  BY <1>1, <1>2, <1>5
<1>12. IsKeyLine(written, section, key, i)
  BY <1>5, <1>8, <1>9, <1>10, <1>11 DEF IsKeyLine, LastSection, EntryFor
<1>13. i \in KeyLines(written, section, key)
  BY <1>5, <1>12, KeyLinesIs
<1> QED
  BY <1>7, <1>13 DEF i

(* One that is added in a section of its own, too. *)
LEMMA SectionAddedIsFirst ==
  ASSUME NEW file \in Files, NEW written, NEW section \in STRING, NEW key,
         NEW line \in Lines, SectionAdded(file, section, line, written),
         EntryFor(line, key), ~line.indent, IsPrefix(section, section),
         KeyLines(file, section, key) = {}
  PROVE  /\ Len(written) \in KeyLines(written, section, key)
         /\ written[Len(written)] = line
         /\ \A j \in 1 .. Len(written) - 1 :
              j \notin KeyLines(written, section, key)
<1> DEFINE L == Len(file)
           k == IF file = << >> THEN 0 ELSE 1
           i == L + k + 2
<1>1. /\ written \in Files /\ Len(written) = i
      /\ \A j \in 1 .. L : written[j] = file[j]
      /\ k = 1 => written[L + 1] = Blank
      /\ written[L + k + 1] = Header(section)
      /\ written[i] = line
  BY DEF SectionAdded
<1>2. L \in Nat /\ k \in {0, 1}
  BY FileFacts
<1> HIDE DEF L, k
<1>3. Alike(file, written, L)
  BY <1>1, <1>2 DEF Alike, L
<1>4. ASSUME NEW j \in 1 .. i - 1, j \in KeyLines(written, section, key)
      PROVE  FALSE
  <2>1. written[j].kind = "entry"
    <3>1. IsKeyLine(written, section, key, j)
      BY <1>1, <1>4, KeyLinesIs
    <3> QED
      BY <3>1 DEF IsKeyLine
  <2>2. CASE j \in 1 .. L
    BY <1>1, <1>2, <1>3, <1>4, <2>2, KeyLinesAlike
  <2>3. CASE j = L + 1 /\ k = 1
    BY <1>1, <2>1, <2>3, BlankLine
  <2>4. CASE j = L + k + 1
    BY <1>1, <2>1, <2>4, HeaderLine
  <2> QED
    BY <1>2, <2>2, <2>3, <2>4
<1>5. HeaderOf(written, i) = L + k + 1
  <2>1. L + k + 1 \in 1 .. Len(written) /\ L + k + 1 < i /\ i \in Nat
    BY <1>1, <1>2
  <2>2. L + k + 1 \in FileHeaders(written)
    <3>1. /\ written[L + k + 1].kind = "header" /\ ~written[L + k + 1].indent
      BY <1>1, HeaderLine
    <3> QED
      BY <1>1, <2>1, <3>1, FileFacts
  <2>3. \A j \in FileHeaders(written) : j < i => j <= L + k + 1
    <3>1. \A j \in FileHeaders(written) : j \in Nat
      BY <1>1, FileFacts
    <3> QED
      BY <1>2, <3>1
  <2> QED
    BY <1>1, <2>1, <2>2, <2>3, HeaderOfUnique
<1>6. IsKeyLine(written, section, key, i)
  <2>1. i \in 1 .. Len(written) /\ L + k + 1 # 0
    BY <1>1, <1>2
  <2>2. IsPrefix(written[L + k + 1].name, section)
    BY <1>1, HeaderLine
  <2> QED
    BY <1>1, <1>5, <2>1, <2>2 DEF IsKeyLine, EntryFor
<1>7. i \in KeyLines(written, section, key)
  BY <1>1, <1>6, KeyLinesIs
<1> QED
  BY <1>1, <1>4, <1>7

(* names that parse_file can look for *)
Findable(section, key) ==
  key # "" /\ IsPrefix(section, section) /\ IsPrefix(key, key)

(* Whatever the file, what write_profile_string writes is what              *)
(* read_profile_string reads (ini.c:327-373 and 406-478).                   *)
LEMMA WrittenIsRead ==
  ASSUME NEW file \in Files, NEW section \in STRING, NEW key \in STRING,
         NEW value \in STRING, NEW default, Findable(section, key)
  PROVE  read_profile_string(write_profile_string(file, section, key, value),
                             section, key, default) = value
<1> DEFINE written == write_profile_string(file, section, key, value)
           found == KeyLines(file, section, key)
           headers == SectionLines(file, section)
           line == Entry(key, value)
<1>1. line \in Lines /\ ~line.indent /\ line.value = value /\ EntryFor(line, key)
  <2>1. line.name = key /\ line.kind = "entry"
    BY EntryLine
  <2> QED
    BY <2>1, EntryLine DEF EntryFor, Findable
<1>2. \/ /\ headers = {}
         /\ SectionAdded(file, section, line, written)
      \/ /\ headers # {} /\ found = {}
         /\ Added(file, LineAfter(file, Max(headers)), line, written)
      \/ /\ found # {}
         /\ written = [file EXCEPT ![Min(found)].value = value]
  BY WriteIs
<1> HIDE DEF line
<1>3. ASSUME found = {}, headers = {}, SectionAdded(file, section, line, written)
      PROVE  read_profile_string(written, section, key, default) = value
  <2> HIDE DEF written
  <2>1. /\ Len(written) \in KeyLines(written, section, key)
        /\ written[Len(written)] = line
        /\ \A j \in 1 .. Len(written) - 1 :
             j \notin KeyLines(written, section, key)
    BY <1>1, <1>3, SectionAddedIsFirst DEF Findable
  <2>2. written \in Files
    BY <1>3 DEF SectionAdded
  <2> QED
    BY <1>1, <2>1, <2>2, FirstIsRead
<1>4. ASSUME found = {}, headers # {},
             Added(file, LineAfter(file, Max(headers)), line, written)
      PROVE  read_profile_string(written, section, key, default) = value
  <2> DEFINE h == Max(headers)
             i == LineAfter(file, h)
  <2> HIDE DEF written
  <2>1. LastSection(file, section, h)
    BY <1>4, SectionLinesIs DEF LastSection
  <2>2. h \in Nat
    BY <2>1, FileFacts DEF LastSection
  <2> HIDE DEF h
  <2>3. /\ i \in KeyLines(written, section, key)
        /\ \A j \in 1 .. i - 1 : j \notin KeyLines(written, section, key)
    BY <1>1, <1>4, <2>1, <2>2, AddedIsFirst DEF h
  <2>4. written \in Files /\ written[i].value = value
    BY <1>1, <1>4 DEF Added, h
  <2> QED
    BY <2>3, <2>4, FirstIsRead
<1>5. ASSUME found # {}, written = [file EXCEPT ![Min(found)].value = value]
      PROVE  read_profile_string(written, section, key, default) = value
  <2> DEFINE i == Min(found)
  <2>1. /\ found \in SUBSET Nat
        /\ \A j : j \in found => j \in 1 .. Len(file)
    BY KeyLinesIs DEF IsKeyLine
  <2>2. i \in found /\ \A j \in found : i <= j
    BY <1>5, <2>1, MinIs
  <2>3. i \in 1 .. Len(file) /\ Len(file) \in Nat
    BY <2>1, <2>2, FileFacts
  <2>4. /\ written \in Files /\ Len(written) = Len(file)
        /\ Alike(file, written, Len(file))
        /\ written[i].value = value
    <3> DEFINE w == [file EXCEPT ![i].value = value]
    <3> HIDE DEF i, written
    <3>1. /\ w \in Files /\ Len(w) = Len(file)
          /\ Alike(file, w, Len(file)) /\ w[i].value = value
      BY <2>3, ValueReplaced
    <3>2. written = w
      BY <1>5 DEF i
    <3> QED
      BY <3>1, <3>2
  <2> HIDE DEF written
  <2>5. \A j \in 1 .. Len(file) : j \in found <=> j \in KeyLines(written, section, key)
    BY <2>3, <2>4, KeyLinesAlike
  <2>6. i \in KeyLines(written, section, key)
    BY <2>2, <2>3, <2>5
  <2> HIDE DEF i, found
  <2>7. \A j \in 1 .. i - 1 : j \in 1 .. Len(file) /\ j \notin found
    BY <2>2, <2>3
  <2>8. \A j \in 1 .. i - 1 : j \notin KeyLines(written, section, key)
    BY <2>5, <2>7
  <2> QED
    BY <2>4, <2>6, <2>8, FirstIsRead
<1>6. headers = {} => found = {}
  <2> SUFFICES ASSUME headers = {}, NEW i \in found
               PROVE  FALSE
    OBVIOUS
  <2>1. IsKeyLine(file, section, key, i)
    BY KeyLinesIs
  <2>2. /\ HeaderOf(file, i) # 0 /\ i \in Nat
        /\ IsPrefix(file[HeaderOf(file, i)].name, section)
    <3>1. i \in 1 .. Len(file)
      BY <2>1 DEF IsKeyLine
    <3>2. i \in Nat
      BY <3>1
    <3> QED
      BY <2>1, <3>2, Zenon DEF IsKeyLine
  <2>3. HeaderOf(file, i) \in headers
    BY <2>2, HeaderOfIs, SectionLinesIs
  <2> QED
    BY <2>3
<1> QED
  BY <1>2, <1>3, <1>4, <1>5, <1>6

-----------------------------------------------------------------------------
(* What ini_parse_file goes through, line by line *)

(* what a line can say of an entry: a value or, continuing it, all of itself *)
Said == STRING \cup {Whole(line) : line \in Lines}
HandlerCalls == [line : Nat, section : STRING, key : STRING, value : Said]
States == [section : STRING, prev_name : STRING, calls : Seq(HandlerCalls)]
AtStart == [section |-> "", prev_name |-> "", calls |-> << >>]

LEMMA AtLineCases ==
  ASSUME NEW st \in States, NEW n \in Nat, NEW line \in Lines
  PROVE  /\ line.kind \in {"note", "blank"} => AtLine(st, n, line) = st
         /\ line.kind \notin {"note", "blank"} =>
              /\ line.indent /\ st.prev_name # "" =>
                   AtLine(st, n, line) = AtContinuation(st, n, line)
              /\ ~(line.indent /\ st.prev_name # "") =>
                   /\ line.kind = "header" => AtLine(st, n, line) = AtHeader(st, line)
                   /\ line.kind \in {"entry", "loose"} =>
                        AtLine(st, n, line) = AtEntry(st, n, line)
                   /\ line.kind = "text" => AtLine(st, n, line) = st
<1>1. /\ line.kind \in {"header", "entry", "loose", "text", "note", "blank"}
      /\ line.indent \in BOOLEAN
  BY DEF Lines
<1>2. CASE line.kind \in {"note", "blank"}
  BY <1>2 DEF AtLine
<1>3. CASE line.kind \notin {"note", "blank"} /\ line.indent /\ st.prev_name # ""
  BY <1>3 DEF AtLine
<1>4. CASE line.kind = "header" /\ ~(line.indent /\ st.prev_name # "")
  BY <1>4 DEF AtLine
<1>5. CASE line.kind \in {"entry", "loose"} /\ ~(line.indent /\ st.prev_name # "")
  BY <1>5 DEF AtLine
<1>6. CASE line.kind = "text" /\ ~(line.indent /\ st.prev_name # "")
  BY <1>6 DEF AtLine
<1> QED
  BY <1>1, <1>2, <1>3, <1>4, <1>5, <1>6

(* the call a line makes *)
EntryCall(st, n, line) ==
  [line |-> n, section |-> st.section, key |-> line.name, value |-> line.value]
ContinuationCall(st, n, line) ==
  [line |-> n, section |-> st.section, key |-> st.prev_name,
   value |-> Whole(line)]

LEMMA CallTypes ==
  ASSUME NEW st \in States, NEW n \in Nat, NEW line \in Lines
  PROVE  /\ EntryCall(st, n, line) \in HandlerCalls
         /\ ContinuationCall(st, n, line) \in HandlerCalls
<1>1. line.name \in STRING /\ line.value \in Said /\ Whole(line) \in Said
  BY DEF Lines, Said
<1>2. st.section \in STRING /\ st.prev_name \in STRING
  BY DEF States
<1> QED
  BY <1>1, <1>2 DEF EntryCall, ContinuationCall, HandlerCalls

(* what a line changes *)
LEMMA AtHeaderIs ==
  ASSUME NEW st \in States, NEW line \in Lines
  PROVE  /\ AtHeader(st, line) \in States
         /\ AtHeader(st, line).section = line.name
         /\ AtHeader(st, line).prev_name = ""
         /\ AtHeader(st, line).calls = st.calls
<1>1. line.name \in STRING /\ "" \in STRING
  BY ConfigAssumption DEF Lines
<1> QED
  BY <1>1 DEF AtHeader, States

LEMMA AtEntryIs ==
  ASSUME NEW st \in States, NEW n \in Nat, NEW line \in Lines
  PROVE  /\ AtEntry(st, n, line) \in States
         /\ AtEntry(st, n, line).section = st.section
         /\ AtEntry(st, n, line).prev_name = line.name
         /\ AtEntry(st, n, line).calls = Append(st.calls, EntryCall(st, n, line))
<1>1. st.calls \in Seq(HandlerCalls) /\ EntryCall(st, n, line) \in HandlerCalls
  BY CallTypes DEF States
<1>2. Append(st.calls, EntryCall(st, n, line)) \in Seq(HandlerCalls)
  BY <1>1, AppendProperties
<1>3. line.name \in STRING
  BY DEF Lines
<1> QED
  BY <1>2, <1>3 DEF AtEntry, EntryCall, States

LEMMA AtContinuationIs ==
  ASSUME NEW st \in States, NEW n \in Nat, NEW line \in Lines
  PROVE  /\ AtContinuation(st, n, line) \in States
         /\ AtContinuation(st, n, line).section = st.section
         /\ AtContinuation(st, n, line).prev_name = st.prev_name
         /\ AtContinuation(st, n, line).calls =
              Append(st.calls, ContinuationCall(st, n, line))
<1>1. /\ st.calls \in Seq(HandlerCalls)
      /\ ContinuationCall(st, n, line) \in HandlerCalls
  BY CallTypes DEF States
<1>2. Append(st.calls, ContinuationCall(st, n, line)) \in Seq(HandlerCalls)
  BY <1>1, AppendProperties
<1> QED
  BY <1>2 DEF AtContinuation, ContinuationCall, States

LEMMA AtLineType ==
  ASSUME NEW st \in States, NEW n \in Nat, NEW line \in Lines
  PROVE  AtLine(st, n, line) \in States
<1>1. line.kind \in {"header", "entry", "loose", "text", "note", "blank"}
  BY DEF Lines
<1> QED
  BY <1>1, AtLineCases, AtHeaderIs, AtEntryIs, AtContinuationIs

(* the values of scan in Scan, for any number of lines *)
Scans(file, run) ==
  /\ run \in [0 .. Len(file) -> States] /\ run[0] = AtStart
  /\ \A n \in 1 .. Len(file) : run[n] = AtLine(run[n - 1], n, file[n])

LEMMA ScanRuns ==
  ASSUME NEW file \in Files
  PROVE  \E run : Scans(file, run)
<1> DEFINE L == Len(file)
           step == [n \in 1 .. L |-> [st \in States |-> AtLine(st, n, file[n])]]
<1>1. L \in Nat
  BY FileFacts
<1>2. ASSUME NEW n \in 1 .. L, NEW st \in States
      PROVE  AtLine(st, n, file[n]) \in States
  <2>1. n \in Nat /\ file[n] \in Lines
    BY LineFields
  <2> QED
    BY <2>1, AtLineType
<1>3. step \in [1 .. L -> [States -> States]]
  BY <1>2
<1>4. \A n \in 1 .. L, st \in States : step[n][st] = AtLine(st, n, file[n])
  OBVIOUS
<1>5. AtStart \in States
  <2>1. "" \in STRING /\ << >> \in Seq(HandlerCalls)
    <3>1. "" \in STRING
      BY ConfigAssumption
    <3>2. << >> \in Seq(HandlerCalls)
      OBVIOUS
    <3> QED
      BY <3>1, <3>2
  <2> QED
    BY <2>1 DEF AtStart, States
<1> HIDE DEF step, L
<1>6. PICK run : Runs(run, L, States, AtStart, step)
  BY <1>1, <1>3, <1>5, LoopRuns
<1>7. /\ run \in [0 .. L -> States] /\ run[0] = AtStart
      /\ \A n \in 1 .. L : run[n] = step[n][run[n - 1]]
  BY <1>6 DEF Runs
<1>8. ASSUME NEW n \in 1 .. L
      PROVE  run[n] = AtLine(run[n - 1], n, file[n])
  <2>1. run[n - 1] \in States
    BY <1>1, <1>7
  <2> QED
    BY <1>4, <1>7, <2>1
<1> QED
  BY <1>7, <1>8 DEF L, Scans

LEMMA ScanIsRun ==
  ASSUME NEW file \in Files, NEW run, Scans(file, run), NEW m \in 0 .. Len(file)
  PROVE  Scan(file, m) = run[m]
<1> DEFINE Is(f) == f = [n \in 0 .. m |->
                           IF n = 0 THEN AtStart
                           ELSE AtLine(f[n - 1], n, file[n])]
           scan == CHOOSE f : Is(f)
           part == [n \in 0 .. m |-> run[n]]
<1>0. Len(file) \in Nat /\ m \in Nat /\ m <= Len(file)
  BY FileFacts
<1>1. Scan(file, m) = scan[m]
  BY DEF Scan, AtStart
<1>2. Is(part)
  <2>1. ASSUME NEW n \in 0 .. m
        PROVE  run[n] = IF n = 0 THEN AtStart
                        ELSE AtLine(part[n - 1], n, file[n])
    <3>1. CASE n = 0
      BY <3>1 DEF Scans
    <3>2. CASE n # 0
      <4>1. n \in 1 .. Len(file) /\ n - 1 \in 0 .. m
        BY <1>0, <3>2
      <4>2. part[n - 1] = run[n - 1]
        BY <4>1
      <4> HIDE DEF part
      <4> QED
        BY <3>2, <4>1, <4>2 DEF Scans
    <3> QED
      BY <3>1, <3>2
  <2> QED
    BY <2>1, Zenon
<1>3. Is(scan)
  <2> HIDE DEF Is
  <2> QED
    BY <1>2, Zenon
<1> HIDE DEF scan
<1> DEFINE S == {n \in 0 .. m : scan[n] = run[n]}
<1>4. 0 \in S
  BY <1>0, <1>3 DEF Scans
<1>5. ASSUME NEW n \in 1 .. m, n - 1 \in S
      PROVE  n \in S
  <2>1. n \in 1 .. Len(file) /\ n \in 0 .. m /\ n # 0
    BY <1>0
  <2>2. scan[n] = AtLine(scan[n - 1], n, file[n])
    BY <1>3, <2>1
  <2>3. run[n] = AtLine(run[n - 1], n, file[n])
    BY <2>1 DEF Scans
  <2>4. scan[n - 1] = run[n - 1]
    BY <1>5
  <2> QED
    BY <2>1, <2>2, <2>3, <2>4
<1> HIDE DEF S
<1>6. \A n \in 0 .. m : n \in S
  <2>1. \A n \in 1 .. m : n - 1 \in S => n \in S
    BY <1>5
  <2> QED
    BY <1>0, <1>4, <2>1, LoopInduction
<1>7. m \in S
  BY <1>0, <1>6
<1> QED
  BY <1>1, <1>7 DEF S

LEMMA ScanSteps ==
  ASSUME NEW file \in Files
  PROVE  /\ Scan(file, 0) = AtStart
         /\ \A m \in 0 .. Len(file) : Scan(file, m) \in States
         /\ \A m \in 1 .. Len(file) :
              Scan(file, m) = AtLine(Scan(file, m - 1), m, file[m])
<1>1. PICK run : Scans(file, run)
  BY ScanRuns
<1>2. \A m \in 0 .. Len(file) : Scan(file, m) = run[m]
  BY <1>1, ScanIsRun
<1>3. Len(file) \in Nat
  BY FileFacts
<1>4. /\ run \in [0 .. Len(file) -> States] /\ run[0] = AtStart
      /\ \A n \in 1 .. Len(file) : run[n] = AtLine(run[n - 1], n, file[n])
  BY <1>1 DEF Scans
<1>5. ASSUME NEW m \in 1 .. Len(file)
      PROVE  Scan(file, m) = AtLine(Scan(file, m - 1), m, file[m])
  <2>1. m \in 0 .. Len(file) /\ m - 1 \in 0 .. Len(file)
    BY <1>3
  <2> QED
    BY <1>2, <1>4, <2>1
<1> QED
  BY <1>2, <1>3, <1>4, <1>5

-----------------------------------------------------------------------------
(* What handler leaves behind *)

(* the i-th call is about x *)
About(calls, i, x) ==
  i \in 1 .. Len(calls) /\ calls[i].section = x.section /\ calls[i].key = x.key
(* of several calls about x the last one counts *)
LastAbout(calls, i, x) ==
  About(calls, i, x) /\ \A j \in i + 1 .. Len(calls) : ~About(calls, j, x)

SomeNames(X) == X \subseteq [section : STRING, key : STRING]

(* what is found after n calls *)
FoundAfter(calls, n, old, found, x) ==
  \/ found[x] = old[x] /\ \A i \in 1 .. n : ~About(calls, i, x)
  \/ \E i \in 1 .. n : /\ About(calls, i, x) /\ found[x] = calls[i].value
                       /\ \A j \in i + 1 .. n : ~About(calls, j, x)

(* what handler does to what is found *)
Put(found, call, X) ==
  \A x \in X : handler(found, call)[x] =
                IF call.section = x.section /\ call.key = x.key
                  THEN call.value ELSE found[x]

LEMMA HandlerIs ==
  ASSUME NEW X, SomeNames(X), NEW T, NEW found \in [X -> T],
         NEW call \in HandlerCalls, call.value \in T
  PROVE  handler(found, call) \in [X -> T] /\ Put(found, call, X)
<1> DEFINE y == [section |-> call.section, key |-> call.key]
<1>1. \A x \in X : x = y <=> call.section = x.section /\ call.key = x.key
  <2> TAKE x \in X
  <2>1. x \in [section : STRING, key : STRING]
    BY DEF SomeNames
  <2> QED
    BY <2>1
<1>2. handler(found, call) =
        IF y \in X THEN [found EXCEPT ![y] = call.value] ELSE found
  BY DEF handler
<1> HIDE DEF y
<1> QED
  BY <1>1, <1>2 DEF Put

(* the values of cfg in Handled, for any number of calls *)
Handles(calls, X, T, old, run) ==
  /\ run \in [0 .. Len(calls) -> [X -> T]] /\ run[0] = old
  /\ \A n \in 1 .. Len(calls) : run[n] = handler(run[n - 1], calls[n])

LEMMA HandledRuns ==
  ASSUME NEW calls \in Seq(HandlerCalls), NEW X, SomeNames(X), NEW T,
         Said \subseteq T, NEW old \in [X -> T]
  PROVE  \E run : /\ Handles(calls, X, T, old, run)
                  /\ Handled(calls, old) = run[Len(calls)]
<1> DEFINE L == Len(calls)
           V == [X -> T]
           step == [n \in 1 .. L |-> [v \in V |-> handler(v, calls[n])]]
           Is(f) == f = [n \in 0 .. L |-> IF n = 0 THEN old
                                          ELSE handler(f[n - 1], calls[n])]
           cfgs == CHOOSE f : Is(f)
<1>1. L \in Nat
  OBVIOUS
<1>2. ASSUME NEW n \in 1 .. L, NEW v \in V
      PROVE  handler(v, calls[n]) \in V
  <2>1. calls[n] \in HandlerCalls
    BY ElementOfSeq
  <2>2. calls[n].value \in T
    BY <2>1 DEF HandlerCalls
  <2> QED
    BY <2>1, <2>2, HandlerIs
<1>3. step \in [1 .. L -> [V -> V]]
  BY <1>2
<1>4. \A n \in 1 .. L, v \in V : step[n][v] = handler(v, calls[n])
  OBVIOUS
<1>5. Handled(calls, old) = cfgs[L]
  BY DEF Handled
<1>v. old \in V
  OBVIOUS
<1> HIDE DEF step, L, V
<1>6. PICK run : Runs(run, L, V, old, step)
  <2> HIDE DEF cfgs, Is
  <2> QED
    BY <1>1, <1>3, <1>v, LoopRuns
<1>7. /\ run \in [0 .. L -> V] /\ run[0] = old
      /\ \A n \in 1 .. L : run[n] = step[n][run[n - 1]]
  BY <1>6 DEF Runs
<1>8. ASSUME NEW n \in 1 .. L
      PROVE  run[n] = handler(run[n - 1], calls[n])
  <2>1. run[n - 1] \in V
    BY <1>1, <1>7
  <2> QED
    BY <1>4, <1>7, <2>1
<1>9. Is(run)
  <2>1. ASSUME NEW n \in 0 .. L
        PROVE  run[n] = IF n = 0 THEN old ELSE handler(run[n - 1], calls[n])
    <3>1. CASE n = 0
      BY <1>7, <3>1
    <3>2. CASE n # 0
      BY <1>1, <1>8, <3>2
    <3> QED
      BY <3>1, <3>2
  <2> QED
    BY <1>7, <2>1
<1>10. Is(cfgs)
  <2> HIDE DEF Is
  <2> QED
    BY <1>9, Zenon
<1> HIDE DEF cfgs
<1> DEFINE S == {n \in 0 .. L : cfgs[n] = run[n]}
<1>11. 0 \in S
  BY <1>1, <1>7, <1>10
<1>12. ASSUME NEW n \in 1 .. L, n - 1 \in S
       PROVE  n \in S
  <2>1. n \in 0 .. L /\ n # 0
    BY <1>1
  <2>2. cfgs[n] = handler(cfgs[n - 1], calls[n])
    BY <1>10, <2>1
  <2> QED
    BY <1>8, <1>12, <2>1, <2>2
<1> HIDE DEF S
<1>13. \A n \in 0 .. L : n \in S
  <2>1. \A n \in 1 .. L : n - 1 \in S => n \in S
    BY <1>12
  <2> QED
    BY <1>1, <1>11, <2>1, LoopInduction
<1>14. cfgs[L] = run[L]
  BY <1>1, <1>13 DEF S
<1>15. Handles(calls, X, T, old, run)
  BY <1>7, <1>8 DEF Handles, L, V
<1> QED
  BY <1>5, <1>14, <1>15 DEF L

LEMMA HandledIs ==
  ASSUME NEW calls \in Seq(HandlerCalls), NEW X, SomeNames(X), NEW T,
         Said \subseteq T, NEW old \in [X -> T]
  PROVE  /\ Handled(calls, old) \in [X -> T]
         /\ \A x \in X :
              FoundAfter(calls, Len(calls), old, Handled(calls, old), x)
<1>1. PICK run : /\ Handles(calls, X, T, old, run)
                 /\ Handled(calls, old) = run[Len(calls)]
  BY HandledRuns
<1>2. /\ run \in [0 .. Len(calls) -> [X -> T]] /\ run[0] = old
      /\ \A n \in 1 .. Len(calls) : run[n] = handler(run[n - 1], calls[n])
  BY <1>1 DEF Handles
<1>3. Len(calls) \in Nat
  OBVIOUS
<1> DEFINE S == {n \in 0 .. Len(calls) :
                   \A x \in X : FoundAfter(calls, n, old, run[n], x)}
<1>4. 0 \in S
  BY <1>2, <1>3 DEF FoundAfter
<1>5. ASSUME NEW n \in 1 .. Len(calls), n - 1 \in S
      PROVE  n \in S
  <2>1. calls[n] \in HandlerCalls
    BY ElementOfSeq
  <2>2. calls[n].value \in T
    BY <2>1 DEF HandlerCalls
  <2>3. run[n - 1] \in [X -> T]
    BY <1>2, <1>3
  <2>4. \A x \in X :
          run[n][x] = IF calls[n].section = x.section /\ calls[n].key = x.key
                        THEN calls[n].value ELSE run[n - 1][x]
    <3> DEFINE call == calls[n]
               found == run[n - 1]
    <3>1. call \in HandlerCalls /\ call.value \in T /\ found \in [X -> T]
      BY <2>1, <2>2, <2>3
    <3>2. run[n] = handler(found, call)
      BY <1>2
    <3> HIDE DEF call, found
    <3>3. Put(found, call, X)
      BY <3>1, HandlerIs
    <3> QED
      BY <3>2, <3>3 DEF call, found, Put
  <2>5. ASSUME NEW x \in X
        PROVE  FoundAfter(calls, n, old, run[n], x)
    <3>1. FoundAfter(calls, n - 1, old, run[n - 1], x)
      BY <1>5
    <3>2. CASE About(calls, n, x)
      <4>1. run[n][x] = calls[n].value
        BY <2>4, <3>2 DEF About
      <4>2. n \in 1 .. n /\ \A j \in n + 1 .. n : FALSE
        BY <1>3
      <4> QED
        BY <3>2, <4>1, <4>2 DEF FoundAfter
    <3>3. CASE ~About(calls, n, x)
      <4>1. run[n][x] = run[n - 1][x]
        BY <2>4, <3>3 DEF About
      <4>2. \A i \in 1 .. n : i = n \/ i \in 1 .. n - 1
        BY <1>3
      <4>3. \A i \in 1 .. n - 1 : i \in 1 .. n /\ \A j \in i + 1 .. n :
               j = n \/ j \in i + 1 .. n - 1
        BY <1>3
      <4> QED
        BY <3>1, <3>3, <4>1, <4>2, <4>3 DEF FoundAfter
    <3> QED
      BY <3>2, <3>3
  <2> QED
    BY <1>3, <2>5
<1> HIDE DEF S
<1>6. \A n \in 0 .. Len(calls) : n \in S
  <2>1. \A n \in 1 .. Len(calls) : n - 1 \in S => n \in S
    BY <1>5
  <2> QED
    BY <1>3, <1>4, <2>1, LoopInduction
<1>7. Len(calls) \in 0 .. Len(calls)
  BY <1>3
<1>8. \A x \in X : FoundAfter(calls, Len(calls), old, run[Len(calls)], x)
  BY <1>6, <1>7 DEF S
<1>9. run[Len(calls)] \in [X -> T]
  BY <1>2, <1>7
<1> QED
  BY <1>1, <1>8, <1>9

-----------------------------------------------------------------------------
(* A file without loose or indented lines, as the service itself saves it:  *)
(* handler is called for its entries, with the headers they stand under.    *)

Plain(file) ==
  \A i \in 1 .. Len(file) :
     ~file[i].indent /\ file[i].kind \in {"header", "entry", "blank"}

SectionOf(file, i) ==
  IF HeaderOf(file, i) = 0 THEN "" ELSE file[HeaderOf(file, i)].name

LEMMA HeaderOfNext ==
  ASSUME NEW file \in Files, NEW m \in Nat, m >= 1
  PROVE  /\ m \in FileHeaders(file) => HeaderOf(file, m + 1) = m
         /\ m \notin FileHeaders(file) =>
              HeaderOf(file, m + 1) = HeaderOf(file, m)
<1>1. \A j \in FileHeaders(file) : j \in Nat /\ j >= 1
  BY FileFacts
<1>2. ASSUME m \in FileHeaders(file)
      PROVE  HeaderOf(file, m + 1) = m
  <2>1. m < m + 1 /\ m + 1 \in Nat /\ \A j \in FileHeaders(file) : j < m + 1 => j <= m
    BY <1>1
  <2> QED
    BY <1>2, <2>1, HeaderOfUnique
<1>3. ASSUME m \notin FileHeaders(file)
      PROVE  HeaderOf(file, m + 1) = HeaderOf(file, m)
  <2> DEFINE h == HeaderOf(file, m)
  <2>1. /\ h \in Nat
        /\ h # 0 => h < m /\ h \in FileHeaders(file)
        /\ \A j \in FileHeaders(file) : j < m => j <= h
    BY HeaderOfIs
  <2> HIDE DEF h
  <2>2. \A j \in FileHeaders(file) : j < m + 1 => j < m
    BY <1>1, <1>3
  <2>3. CASE h = 0
    <3>1. \A j \in FileHeaders(file) : ~(j < m + 1)
      BY <1>1, <2>1, <2>2, <2>3
    <3> QED
      BY <2>3, <3>1, NoHeaderOf DEF h
  <2>4. CASE h # 0
    <3>1. h \in FileHeaders(file) /\ h < m + 1 /\ m + 1 \in Nat
      BY <2>1, <2>4
    <3>2. \A j \in FileHeaders(file) : j < m + 1 => j <= h
      BY <2>1, <2>2
    <3>3. HeaderOf(file, m + 1) = h
      BY <3>1, <3>2, HeaderOfUnique
    <3> QED
      BY <3>3 DEF h
  <2> QED
    BY <2>3, <2>4
<1> QED
  BY <1>2, <1>3

(* the call that is made for line l *)
CallFor(file, call, l) ==
  /\ file[l].kind = "entry" /\ call.line = l /\ call.key = file[l].name
  /\ call.value = file[l].value /\ call.section = SectionOf(file, l)

PlainScanned(file, m, st) ==
  /\ st.section = SectionOf(file, m + 1)
  /\ \A i \in 1 .. Len(st.calls) : \E l \in 1 .. m : CallFor(file, st.calls[i], l)
  /\ \A l \in 1 .. m : file[l].kind = "entry" =>
        \E i \in 1 .. Len(st.calls) : CallFor(file, st.calls[i], l)

LEMMA PlainLine ==
  ASSUME NEW file \in Files, Plain(file), NEW m \in 1 .. Len(file),
         NEW st \in States, PlainScanned(file, m - 1, st)
  PROVE  PlainScanned(file, m, AtLine(st, m, file[m]))
<1> DEFINE line == file[m]
           new == AtLine(st, m, line)
<1>1. m \in Nat /\ m >= 1 /\ Len(file) \in Nat
  BY FileFacts
<1>2. line \in Lines
  BY LineFields
<1>3. ~line.indent /\ line.kind \in {"header", "entry", "blank"}
  BY DEF Plain
<1>4. m \in FileHeaders(file) <=> line.kind = "header"
  BY <1>3, FileFacts
<1>5. /\ st.section = SectionOf(file, m)
      /\ \A i \in 1 .. Len(st.calls) :
            \E l \in 1 .. m - 1 : CallFor(file, st.calls[i], l)
      /\ \A l \in 1 .. m - 1 : file[l].kind = "entry" =>
            \E i \in 1 .. Len(st.calls) : CallFor(file, st.calls[i], l)
  <2>1. (m - 1) + 1 = m
    BY <1>1
  <2> QED
    BY <2>1 DEF PlainScanned
<1>6. \A l \in 1 .. m : l = m \/ l \in 1 .. m - 1
  BY <1>1
<1>7. \A l \in 1 .. m - 1 : l \in 1 .. m
  BY <1>1
<1> HIDE DEF line
<1>8. CASE line.kind = "blank"
  <2>1. new = st
    BY <1>1, <1>2, <1>8, AtLineCases
  <2>2. SectionOf(file, m + 1) = SectionOf(file, m)
    BY <1>1, <1>4, <1>8, HeaderOfNext DEF SectionOf
  <2>3. file[m].kind # "entry"
    BY <1>8 DEF line
  <2> HIDE DEF new
  <2>4. PlainScanned(file, m, new)
    BY <1>5, <1>6, <1>7, <2>1, <2>2, <2>3 DEF PlainScanned
  <2> QED
    BY <2>4 DEF new, line
<1>9. CASE line.kind = "header"
  <2>1. new = AtHeader(st, line)
    BY <1>1, <1>2, <1>3, <1>9, AtLineCases
  <2>2. new.section = line.name /\ new.calls = st.calls
    <3> HIDE DEF new
    <3> QED
      BY <1>2, <2>1, AtHeaderIs
  <2>3. SectionOf(file, m + 1) = line.name
    <3>1. HeaderOf(file, m + 1) = m /\ m # 0
      BY <1>1, <1>4, <1>9, HeaderOfNext
    <3> QED
      BY <3>1 DEF SectionOf, line
  <2>4. file[m].kind # "entry"
    BY <1>9 DEF line
  <2> HIDE DEF new
  <2>5. PlainScanned(file, m, new)
    BY <1>5, <1>6, <1>7, <2>2, <2>3, <2>4 DEF PlainScanned
  <2> QED
    BY <2>5 DEF new, line
<1>10. CASE line.kind = "entry"
  <2> DEFINE call == EntryCall(st, m, line)
             L == Len(st.calls)
  <2>1. new = AtEntry(st, m, line)
    BY <1>1, <1>2, <1>3, <1>10, AtLineCases
  <2>2. new.section = st.section /\ new.calls = Append(st.calls, call)
    <3> HIDE DEF new
    <3> QED
      BY <1>1, <1>2, <2>1, AtEntryIs
  <2>3. call \in HandlerCalls /\ st.calls \in Seq(HandlerCalls)
    BY <1>1, <1>2, CallTypes DEF States
  <2>4. SectionOf(file, m + 1) = SectionOf(file, m)
    BY <1>1, <1>4, <1>10, HeaderOfNext DEF SectionOf
  <2>5. CallFor(file, call, m)
    BY <1>5, <1>10 DEF CallFor, EntryCall, line
  <2> HIDE DEF new, call
  <2>6. /\ Len(new.calls) = L + 1 /\ L \in Nat /\ new.calls[L + 1] = call
        /\ \A i \in 1 .. L : new.calls[i] = st.calls[i]
    BY <2>2, <2>3, AppendProperties
  <2> HIDE DEF L
  <2>7. ASSUME NEW i \in 1 .. Len(new.calls)
        PROVE  \E l \in 1 .. m : CallFor(file, new.calls[i], l)
    <3>1. CASE i = L + 1
      <4>1. m \in 1 .. m
        BY <1>1
      <4> QED
        BY <2>5, <2>6, <3>1, <4>1
    <3>2. CASE i # L + 1
      <4>1. i \in 1 .. L /\ new.calls[i] = st.calls[i]
        BY <2>6, <3>2
      <4>2. \E l \in 1 .. m - 1 : CallFor(file, st.calls[i], l)
        BY <1>5, <4>1 DEF L
      <4> QED
        BY <1>7, <4>1, <4>2
    <3> QED
      BY <3>1, <3>2
  <2>8. ASSUME NEW l \in 1 .. m, file[l].kind = "entry"
        PROVE  \E i \in 1 .. Len(new.calls) : CallFor(file, new.calls[i], l)
    <3>1. CASE l = m
      <4>1. L + 1 \in 1 .. Len(new.calls)
        BY <2>6
      <4> QED
        BY <2>5, <2>6, <3>1, <4>1
    <3>2. CASE l # m
      <4>1. \E i \in 1 .. L : CallFor(file, st.calls[i], l)
        BY <1>5, <1>6, <2>8, <3>2 DEF L
      <4>2. \A i \in 1 .. L : i \in 1 .. Len(new.calls)
        BY <2>6
      <4> QED
        BY <2>6, <4>1, <4>2
    <3> QED
      BY <3>1, <3>2
  <2>9. PlainScanned(file, m, new)
    BY <1>5, <2>2, <2>4, <2>7, <2>8 DEF PlainScanned
  <2> QED
    BY <2>9 DEF new, line
<1> QED
  BY <1>3, <1>8, <1>9, <1>10

LEMMA PlainCalls ==
  ASSUME NEW file \in Files, Plain(file)
  PROVE  /\ Calls(file) \in Seq(HandlerCalls)
         /\ \A i \in 1 .. Len(Calls(file)) :
              \E l \in 1 .. Len(file) : CallFor(file, Calls(file)[i], l)
         /\ \A l \in 1 .. Len(file) : file[l].kind = "entry" =>
              \E i \in 1 .. Len(Calls(file)) : CallFor(file, Calls(file)[i], l)
<1> DEFINE L == Len(file)
           S == {m \in 0 .. L : PlainScanned(file, m, Scan(file, m))}
<1>1. L \in Nat
  BY FileFacts
<1>2. /\ Scan(file, 0) = AtStart
      /\ \A m \in 0 .. L : Scan(file, m) \in States
      /\ \A m \in 1 .. L : Scan(file, m) = AtLine(Scan(file, m - 1), m, file[m])
  BY ScanSteps
<1>3. 0 \in S
  <2>1. AtStart.section = "" /\ AtStart.calls = << >>
    BY DEF AtStart
  <2>2. SectionOf(file, 0 + 1) = ""
    <3>1. \A j \in FileHeaders(file) : ~(j < 1)
      BY FileFacts
    <3>2. HeaderOf(file, 1) = 0
      BY <3>1, NoHeaderOf
    <3> QED
      BY <3>2 DEF SectionOf
  <2>3. PlainScanned(file, 0, AtStart)
    <3>1. Len(<< >>) = 0
      BY EmptySeq
    <3>2. Len(AtStart.calls) = 0
      BY <2>1, <3>1, Zenon
    <3>3. 1 .. 0 = {}
      OBVIOUS
    <3>4. /\ \A i \in 1 .. Len(AtStart.calls) : FALSE
          /\ \A l \in 1 .. 0 : FALSE
      BY <3>2, <3>3, Zenon
    <3> HIDE DEF L, S
    <3> QED
      BY <2>1, <2>2, <3>4, Zenon DEF PlainScanned
  <2> QED
    BY <1>1, <1>2, <2>3
<1> HIDE DEF L
<1>4. ASSUME NEW m \in 1 .. L, m - 1 \in S
      PROVE  m \in S
  <2>1. m - 1 \in 0 .. L /\ m \in 0 .. L /\ m \in 1 .. Len(file)
    BY <1>1 DEF L
  <2>2. PlainScanned(file, m - 1, Scan(file, m - 1))
    BY <1>4
  <2>3. Scan(file, m - 1) \in States
    BY <1>2, <2>1
  <2>4. PlainScanned(file, m, AtLine(Scan(file, m - 1), m, file[m]))
    BY <2>1, <2>2, <2>3, PlainLine
  <2> QED
    BY <1>2, <2>1, <2>4
<1> HIDE DEF S
<1>5. \A m \in 0 .. L : m \in S
  <2>1. \A m \in 1 .. L : m - 1 \in S => m \in S
    BY <1>4
  <2> QED
    BY <1>1, <1>3, <2>1, LoopInduction
<1>6. L \in 0 .. L
  BY <1>1
<1>7. PlainScanned(file, L, Scan(file, L))
  BY <1>5, <1>6 DEF S
<1>8. Scan(file, L).calls = Calls(file)
  BY DEF Calls, L
<1>9. Calls(file) \in Seq(HandlerCalls)
  BY <1>2, <1>6, <1>8 DEF States
<1> QED
  BY <1>7, <1>8, <1>9 DEF PlainScanned, L

-----------------------------------------------------------------------------
(* The file a service saves *)

LEMMA SettingFacts ==
  /\ Len(Settings) \in Nat /\ Len(Settings) >= 1
  /\ DOMAIN Settings = 1 .. Len(Settings)
  /\ \A j \in 1 .. Len(Settings) : Settings[j] \in SettingSet
  /\ \A x \in SettingSet : \E j \in 1 .. Len(Settings) : x = Settings[j]
  /\ SomeNames(SettingSet)
<1>1. /\ Settings \in Seq([section : STRING, key : STRING])
      /\ Settings # << >>
  BY NamesAssumption
<1> DEFINE N == [section : STRING, key : STRING]
<1> HIDE DEF N
<1>2. Len(Settings) \in Nat /\ Len(Settings) >= 1
  <2>1. Settings \in Seq(N)
    BY <1>1 DEF N
  <2>2. Len(Settings) \in Nat \ {0}
    BY <1>1, <2>1, EmptySeq
  <2> QED
    BY <2>2
<1>3. /\ DOMAIN Settings = 1 .. Len(Settings)
      /\ \A j \in 1 .. Len(Settings) : Settings[j] \in N
  <2>1. Settings \in Seq(N)
    BY <1>1 DEF N
  <2> QED
    BY <2>1, LenProperties, ElementOfSeq
<1>4. /\ \A j \in 1 .. Len(Settings) : Settings[j] \in SettingSet
      /\ \A x \in SettingSet : \E j \in 1 .. Len(Settings) : x = Settings[j]
  BY <1>3 DEF SettingSet, Range
<1>5. SettingSet \subseteq N
  BY <1>3, <1>4
<1> QED
  BY <1>2, <1>3, <1>4, <1>5 DEF SomeNames, N

LEMMA NameFacts ==
  ASSUME NEW x \in SettingSet
  PROVE  /\ x.section \in STRING /\ x.key \in STRING
         /\ Findable(x.section, x.key)
<1>1. x \in [section : STRING, key : STRING]
  BY SettingFacts DEF SomeNames
<1>2. /\ x.key # ""
      /\ IsPrefix(x.section, x.section) <=> x.section = x.section
      /\ x.section = x.section => (IsPrefix(x.key, x.key) <=> x.key = x.key)
  BY NamesAssumption
<1> QED
  BY <1>1, <1>2 DEF Findable

LEMMA PrefixesEqual ==
  ASSUME NEW x \in SettingSet, NEW y \in SettingSet,
         IsPrefix(x.section, y.section), IsPrefix(x.key, y.key)
  PROVE  x = y
<1>1. /\ x \in [section : STRING, key : STRING]
      /\ y \in [section : STRING, key : STRING]
  BY SettingFacts DEF SomeNames
<1>2. /\ IsPrefix(x.section, y.section) <=> x.section = y.section
      /\ x.section = y.section => (IsPrefix(x.key, y.key) <=> x.key = y.key)
  BY NamesAssumption
<1>3. x.section = y.section /\ x.key = y.key
  BY <1>2
<1> QED
  BY <1>1, <1>3

(* line i is an entry of the setting x *)
SavedAs(file, i, x) ==
  /\ i \in 1 .. Len(file) /\ file[i].kind = "entry" /\ file[i].name = x.key
  /\ HeaderOf(file, i) # 0 /\ file[HeaderOf(file, i)].name = x.section

SavedLine(file, i, J, values) ==
  /\ ~file[i].indent
  /\ \/ file[i].kind = "blank"
     \/ /\ file[i].kind = "header"
        /\ \E j \in J : file[i].name = Settings[j].section
     \/ \E j \in J : /\ SavedAs(file, i, Settings[j])
                          /\ file[i].value = values[Settings[j]]

(* the settings whose places are in J have been saved in an empty file *)
Saved(file, J, values) ==
  /\ file \in Files
  /\ \A i \in 1 .. Len(file) : SavedLine(file, i, J, values)
  /\ \A j \in J : \E i \in 1 .. Len(file) : SavedAs(file, i, Settings[j])

LEMMA NothingSaved ==
  ASSUME NEW values
  PROVE  Saved(<< >>, {}, values)
<1>1. << >> \in Files /\ Len(<< >>) = 0
  BY EmptySeq DEF Files
<1>2. 1 .. 0 = {}
  OBVIOUS
<1> QED
  BY <1>1, <1>2, Zenon DEF Saved

LEMMA SavedIsPlain ==
  ASSUME NEW file, NEW J, NEW values, Saved(file, J, values)
  PROVE  file \in Files /\ Plain(file)
BY DEF Saved, SavedLine, SavedAs, Plain

(* the place of x is in J *)
Among(x, J) == \E j \in J : x = Settings[j]

(* Both parsers find in such a file what has been saved. *)
LEMMA SavedKeyLines ==
  ASSUME NEW file, NEW J \in SUBSET DOMAIN Settings, NEW values,
         Saved(file, J, values), NEW x \in SettingSet,
         NEW i \in KeyLines(file, x.section, x.key)
  PROVE  i \in 1 .. Len(file) /\ file[i].value = values[x] /\ Among(x, J)
<1>1. file \in Files
  BY DEF Saved
<1>2. IsKeyLine(file, x.section, x.key, i)
  BY <1>1, KeyLinesIs
<1>3. /\ i \in 1 .. Len(file) /\ file[i].kind = "entry"
      /\ IsPrefix(file[i].name, x.key)
      /\ IsPrefix(file[HeaderOf(file, i)].name, x.section)
  BY <1>2 DEF IsKeyLine
<1>4. SavedLine(file, i, J, values)
  BY <1>3 DEF Saved
<1>5. PICK j \in J : /\ SavedAs(file, i, Settings[j])
                          /\ file[i].value = values[Settings[j]]
  BY <1>3, <1>4 DEF SavedLine
<1>6. j \in 1 .. Len(Settings)
  BY SettingFacts
<1>7. Settings[j] \in SettingSet
  BY <1>6, SettingFacts
<1>8. /\ IsPrefix(Settings[j].section, x.section)
      /\ IsPrefix(Settings[j].key, x.key)
  BY <1>3, <1>5 DEF SavedAs
<1>9. Settings[j] = x
  BY <1>7, <1>8, PrefixesEqual
<1>10. Among(x, J)
  BY <1>9 DEF Among
<1> QED
  BY <1>3, <1>5, <1>9, <1>10

SettingRead(file, x) == read_profile_string(file, x.section, x.key, Null)

LEMMA SavedIsRead ==
  ASSUME NEW file, NEW J \in SUBSET DOMAIN Settings, NEW values,
         Saved(file, J, values), NEW x, Among(x, J)
  PROVE  SettingRead(file, x) = values[x]
<1> DEFINE found == KeyLines(file, x.section, x.key)
<1>0. PICK j \in J : x = Settings[j]
  BY DEF Among
<1>1. file \in Files
  BY DEF Saved
<1>2. j \in 1 .. Len(Settings)
  BY SettingFacts
<1>3. x \in SettingSet
  BY <1>0, <1>2, SettingFacts
<1>4. PICK i \in 1 .. Len(file) : SavedAs(file, i, x)
  BY <1>0 DEF Saved
<1>5. i \in found
  <2>1. ~file[i].indent
    BY DEF Saved, SavedLine
  <2>2. Findable(x.section, x.key)
    BY <1>3, NameFacts
  <2> HIDE DEF found
  <2>3. IsKeyLine(file, x.section, x.key, i)
    BY <1>4, <2>1, <2>2 DEF SavedAs, IsKeyLine, Findable
  <2> QED
    BY <1>1, <2>3, KeyLinesIs DEF found
<1>6. found \in SUBSET Nat
  BY <1>1, KeyLinesIs
<1>7. SettingRead(file, x) = file[Min(found)].value
  BY <1>5 DEF SettingRead, read_profile_string
<1>8. Min(found) \in found
  <2> HIDE DEF found
  <2> QED
    BY <1>5, <1>6, MinIs
<1>9. file[Min(found)].value = values[x]
  <2> DEFINE m == Min(found)
  <2>1. m \in KeyLines(file, x.section, x.key)
    BY <1>8
  <2> HIDE DEF m, found
  <2>2. file[m].value = values[x]
    BY <1>3, <2>1, SavedKeyLines
  <2> QED
    BY <2>2 DEF m
<1> QED
  BY <1>7, <1>9

(* old has the values of the settings before the file is parsed *)
Loadable(old, T) == Said \subseteq T /\ old \in [SettingSet -> T]

LEMMA SavedIsLoaded ==
  ASSUME NEW file, NEW J \in SUBSET DOMAIN Settings, NEW values,
         Saved(file, J, values), NEW x, Among(x, J),
         NEW T, NEW old, Loadable(old, T)
  PROVE  ini_parse(file, old)[x] = values[x]
<1> DEFINE calls == Calls(file)
           found == Handled(calls, old)
<1>0. PICK j \in J : x = Settings[j]
  BY DEF Among
<1>1. file \in Files /\ Plain(file)
  BY SavedIsPlain
<1>2. j \in 1 .. Len(Settings)
  BY SettingFacts
<1>3. x \in SettingSet /\ SomeNames(SettingSet)
  BY <1>0, <1>2, SettingFacts
<1>4. PICK i \in 1 .. Len(file) : SavedAs(file, i, x)
  BY <1>0 DEF Saved
<1>5. /\ calls \in Seq(HandlerCalls)
      /\ \A c \in 1 .. Len(calls) :
           \E l \in 1 .. Len(file) : CallFor(file, calls[c], l)
      /\ \A l \in 1 .. Len(file) : file[l].kind = "entry" =>
           \E c \in 1 .. Len(calls) : CallFor(file, calls[c], l)
  BY <1>1, PlainCalls
<1>6. ini_parse(file, old) = found
  BY DEF ini_parse
<1> HIDE DEF calls
<1>7. FoundAfter(calls, Len(calls), old, found, x)
  <2>1. Said \subseteq T /\ old \in [SettingSet -> T]
    BY DEF Loadable
  <2> QED
    BY <1>3, <1>5, <2>1, HandledIs
<1> HIDE DEF found
<1>8. PICK c \in 1 .. Len(calls) : CallFor(file, calls[c], i)
  BY <1>4, <1>5 DEF SavedAs
<1>9. About(calls, c, x)
  BY <1>4, <1>8 DEF SavedAs, CallFor, SectionOf, About
<1>10. PICK d \in 1 .. Len(calls) : About(calls, d, x) /\ found[x] = calls[d].value
  BY <1>7, <1>9 DEF FoundAfter
<1>11. PICK l \in 1 .. Len(file) : CallFor(file, calls[d], l)
  BY <1>5
<1>12. SavedLine(file, l, J, values) /\ file[l].kind = "entry"
  BY <1>11 DEF Saved, CallFor
<1>13. PICK m \in J : /\ SavedAs(file, l, Settings[m])
                           /\ file[l].value = values[Settings[m]]
  BY <1>12 DEF SavedLine
<1>14. Settings[m].section = x.section /\ Settings[m].key = x.key
  BY <1>10, <1>11, <1>13 DEF SavedAs, CallFor, SectionOf, About
<1>15. Settings[m] \in SettingSet
  <2>1. m \in 1 .. Len(Settings)
    BY SettingFacts
  <2> QED
    BY <2>1, SettingFacts
<1>16. Settings[m] = x
  <2>1. IsPrefix(x.section, x.section) /\ IsPrefix(x.key, x.key)
    BY <1>3, NameFacts DEF Findable
  <2> QED
    BY <1>3, <1>14, <1>15, <2>1, PrefixesEqual
<1>17. found[x] = values[x]
  BY <1>10, <1>11, <1>13, <1>16 DEF CallFor
<1> QED
  BY <1>6, <1>17

-----------------------------------------------------------------------------
(* Saving one setting more *)

Place(i, p) == IF i < p THEN i ELSE i + 1

(* the lines of file are in written, those from p on one line further down, *)
(* under the headers they stood under                                       *)
Moved(file, written, p) ==
  /\ \A i \in 1 .. Len(file) :
       /\ Place(i, p) \in 1 .. Len(written)
       /\ written[Place(i, p)].kind = file[i].kind
       /\ written[Place(i, p)].name = file[i].name
       /\ written[Place(i, p)].value = file[i].value
       /\ ~file[i].indent => ~written[Place(i, p)].indent
       /\ HeaderOf(file, i) # 0 =>
            HeaderOf(written, Place(i, p)) = Place(HeaderOf(file, i), p)

LEMMA MovedSavedAs ==
  ASSUME NEW file \in Files, NEW written \in Files, NEW p, Moved(file, written, p),
         NEW i \in 1 .. Len(file), NEW x, SavedAs(file, i, x)
  PROVE  SavedAs(written, Place(i, p), x)
<1> DEFINE h == HeaderOf(file, i)
<1>1. h # 0 /\ file[h].name = x.section /\ file[i].kind = "entry" /\ file[i].name = x.key
  BY DEF SavedAs
<1>2. i \in Nat /\ Len(file) \in Nat
  BY FileFacts
<1>3. h \in 1 .. Len(file)
  <2>1. h \in FileHeaders(file)
    BY <1>1, <1>2, HeaderOfIs
  <2> QED
    BY <2>1, FileFacts
<1> HIDE DEF h
<1>4. written[Place(h, p)].name = file[h].name /\ Place(h, p) \in 1 .. Len(written)
  BY <1>3 DEF Moved
<1>5. /\ Place(i, p) \in 1 .. Len(written)
      /\ written[Place(i, p)].kind = file[i].kind
      /\ written[Place(i, p)].name = file[i].name
      /\ HeaderOf(written, Place(i, p)) = Place(h, p)
  BY <1>1 DEF Moved, h
<1>6. Place(h, p) # 0
  BY <1>4, FileFacts
<1> QED
  BY <1>1, <1>4, <1>5, <1>6 DEF SavedAs

LEMMA MovedSavedLine ==
  ASSUME NEW file \in Files, NEW written \in Files, NEW p, Moved(file, written, p),
         NEW i \in 1 .. Len(file), NEW J, NEW n, NEW values,
         SavedLine(file, i, J, values)
  PROVE  SavedLine(written, Place(i, p), J \cup {n}, values)
<1> DEFINE q == Place(i, p)
<1>1. /\ q \in 1 .. Len(written) /\ written[q].kind = file[i].kind
      /\ written[q].name = file[i].name /\ written[q].value = file[i].value
      /\ ~written[q].indent
  BY DEF Moved, SavedLine
<1>2. \A j \in J : j \in J \cup {n}
  OBVIOUS
<1>3. \A x : SavedAs(file, i, x) => SavedAs(written, q, x)
  BY MovedSavedAs
<1> HIDE DEF q
<1>4. SavedLine(written, q, J \cup {n}, values)
  BY <1>1, <1>2, <1>3 DEF SavedLine
<1> QED
  BY <1>4 DEF q

(* Lines that are added at the end move no other. *)
LEMMA SameLinesMoved ==
  ASSUME NEW file \in Files, NEW written \in Files, Len(file) <= Len(written),
         \A i \in 1 .. Len(file) : written[i] = file[i]
  PROVE  Moved(file, written, Len(file) + 1)
<1> DEFINE L == Len(file)
           p == L + 1
<1>1. L \in Nat /\ Len(written) \in Nat
  BY FileFacts
<1>2. Alike(file, written, L)
  BY <1>1 DEF Alike
<1>3. ASSUME NEW i \in 1 .. L
      PROVE  /\ Place(i, p) = i /\ i \in 1 .. Len(written)
             /\ HeaderOf(file, i) = HeaderOf(written, i)
             /\ HeaderOf(file, i) # 0 => Place(HeaderOf(file, i), p) = HeaderOf(file, i)
  <2>1. Place(i, p) = i /\ i \in 1 .. Len(written) /\ i \in 1 .. L + 1
    BY <1>1 DEF Place
  <2>2. HeaderOf(file, i) = HeaderOf(written, i)
    BY <1>1, <1>2, <2>1, HeaderOfAlike
  <2>3. HeaderOf(file, i) # 0 => HeaderOf(file, i) \in Nat /\ HeaderOf(file, i) < i
    BY <1>1, HeaderOfIs
  <2>4. HeaderOf(file, i) # 0 => Place(HeaderOf(file, i), p) = HeaderOf(file, i)
    BY <1>1, <2>3 DEF Place
  <2> QED
    BY <2>1, <2>2, <2>4
<1> HIDE DEF p
<1>4. Moved(file, written, p)
  BY <1>3 DEF Moved
<1> QED
  BY <1>4 DEF p

(* An entry that is added moves those below it by one line. *)
LEMMA AddedMoved ==
  ASSUME NEW file \in Files, Plain(file), NEW p \in 1 .. Len(file) + 1,
         NEW line, EntryFor(line, line.name), NEW written,
         Added(file, p, line, written)
  PROVE  Moved(file, written, p)
<1> DEFINE L == Len(file)
<1>1. /\ L \in Nat /\ p \in Nat /\ p >= 1 /\ p <= L + 1
      /\ written \in Files /\ Len(written) = L + 1
  BY FileFacts DEF Added
<1>2. written[p].kind = "entry"
  BY DEF Added, EntryFor
<1>3. ASSUME NEW i \in 1 .. L
      PROVE  /\ Place(i, p) \in 1 .. Len(written) /\ ~file[i].indent
             /\ written[Place(i, p)].kind = file[i].kind
             /\ written[Place(i, p)].name = file[i].name
             /\ written[Place(i, p)].value = file[i].value
             /\ ~written[Place(i, p)].indent
  <2>1. ~file[i].indent
    BY DEF Plain
  <2>2. CASE i < p
    <3>1. Place(i, p) = i /\ i \in 1 .. Len(written) /\ i \in 1 .. p - 1
      BY <1>1, <2>2 DEF Place
    <3>2. written[i] = file[i]
      BY <3>1 DEF Added
    <3> QED
      BY <2>1, <3>1, <3>2
  <2>3. CASE ~(i < p)
    <3>1. Place(i, p) = i + 1 /\ i + 1 \in 1 .. Len(written) /\ i \in p .. Len(file)
      BY <1>1, <2>3 DEF Place
    <3>2. /\ written[i + 1].kind = file[i].kind
          /\ written[i + 1].name = file[i].name
          /\ written[i + 1].value = file[i].value
          /\ written[i + 1].indent <=> i # p /\ file[i].indent
      BY <3>1 DEF Added
    <3> QED
      BY <2>1, <3>1, <3>2
  <2> QED
    BY <2>2, <2>3
<1>4. ASSUME NEW h \in FileHeaders(file)
      PROVE  Place(h, p) \in FileHeaders(written)
  <2>1. h \in 1 .. L /\ file[h].kind = "header"
    BY FileFacts
  <2> QED
    BY <1>1, <1>3, <2>1, FileFacts
<1>5. ASSUME NEW g \in FileHeaders(written)
      PROVE  g \in Nat /\ \E h \in FileHeaders(file) : h \in Nat /\ g = Place(h, p)
  <2>1. g \in 1 .. L + 1 /\ written[g].kind = "header"
    BY <1>1, FileFacts
  <2>2. g # p
    BY <1>2, <2>1
  <2>3. \E h \in 1 .. L : g = Place(h, p)
    <3>1. CASE g < p
      <4>1. g \in 1 .. L /\ g = Place(g, p)
        BY <1>1, <2>1, <3>1 DEF Place
      <4> QED
        BY <4>1
    <3>2. CASE ~(g < p)
      <4>1. g - 1 \in 1 .. L /\ g = Place(g - 1, p)
        BY <1>1, <2>1, <2>2, <3>2 DEF Place
      <4> QED
        BY <4>1
    <3> QED
      BY <3>1, <3>2
  <2>4. PICK h \in 1 .. L : g = Place(h, p)
    BY <2>3
  <2>5. file[h].kind = "header" /\ ~file[h].indent
    BY <1>3, <2>1, <2>4
  <2>6. h \in FileHeaders(file)
    BY <2>5, FileFacts
  <2> QED
    BY <2>1, <2>4, <2>6
<1>6. ASSUME NEW i \in 1 .. L, HeaderOf(file, i) # 0
      PROVE  HeaderOf(written, Place(i, p)) = Place(HeaderOf(file, i), p)
  <2> DEFINE h == HeaderOf(file, i)
             q == Place(i, p)
             r == Place(h, p)
  <2>1. /\ i \in Nat /\ h \in Nat /\ h < i /\ h \in FileHeaders(file)
        /\ \A j \in FileHeaders(file) : j < i => j <= h
    BY <1>1, <1>6, HeaderOfIs
  <2> HIDE DEF h
  <2>2. q \in Nat /\ r \in Nat /\ r < q
    BY <1>1, <2>1 DEF Place
  <2>3. r \in FileHeaders(written)
    BY <1>4, <2>1
  <2>4. ASSUME NEW g \in FileHeaders(written), g < q
        PROVE  g <= r
    <3>1. PICK j \in FileHeaders(file) : j \in Nat /\ g = Place(j, p)
      BY <1>5
    <3>2. j < i
      BY <1>1, <2>1, <2>4, <3>1 DEF Place
    <3>3. j <= h
      BY <2>1, <3>2
    <3> QED
      BY <1>1, <2>1, <3>1, <3>3 DEF Place
  <2> HIDE DEF q, r
  <2>5. HeaderOf(written, q) = r
    BY <1>1, <2>2, <2>3, <2>4, HeaderOfUnique
  <2> QED
    BY <2>5 DEF q, r, h
<1>7. Moved(file, written, p)
  BY <1>3, <1>6 DEF Moved
<1> QED
  BY <1>7

(* what is new in written, beside the lines of file: blank lines, headers of *)
(* settings saved, and one entry of the setting that is being saved          *)
MovedKeepsSaved(file, written, p, J, n, values) ==
  \A l \in 1 .. Len(written) :
     \/ \E i \in 1 .. Len(file) : l = Place(i, p)
     \/ SavedLine(written, l, J \cup {n}, values)

LEMMA SavedGrows ==
  ASSUME NEW file, NEW J, NEW n, NEW values, Saved(file, J, values),
         NEW written \in Files, NEW p, Moved(file, written, p),
         MovedKeepsSaved(file, written, p, J, n, values),
         NEW l, SavedAs(written, l, Settings[n])
  PROVE  Saved(written, J \cup {n}, values)
<1>1. /\ file \in Files /\ \A i \in 1 .. Len(file) : SavedLine(file, i, J, values)
      /\ \A j \in J : \E i \in 1 .. Len(file) : SavedAs(file, i, Settings[j])
  BY DEF Saved
<1>2. ASSUME NEW m \in 1 .. Len(written)
      PROVE  SavedLine(written, m, J \cup {n}, values)
  <2>1. CASE \E i \in 1 .. Len(file) : m = Place(i, p)
    <3>1. PICK i \in 1 .. Len(file) : m = Place(i, p)
      BY <2>1
    <3>2. SavedLine(file, i, J, values)
      BY <1>1
    <3> QED
      BY <1>1, <3>1, <3>2, MovedSavedLine
  <2>2. CASE SavedLine(written, m, J \cup {n}, values)
    BY <2>2
  <2> QED
    BY <2>1, <2>2 DEF MovedKeepsSaved
<1>3. ASSUME NEW j \in J \cup {n}
      PROVE  \E m \in 1 .. Len(written) : SavedAs(written, m, Settings[j])
  <2>1. CASE j = n
    BY <2>1 DEF SavedAs
  <2>2. CASE j # n
    <3>1. j \in J
      BY <2>2
    <3>2. PICK i \in 1 .. Len(file) : SavedAs(file, i, Settings[j])
      BY <1>1, <3>1
    <3>3. SavedAs(written, Place(i, p), Settings[j])
      BY <1>1, <3>2, MovedSavedAs
    <3> QED
      BY <3>3 DEF SavedAs
  <2> QED
    BY <2>1, <2>2
<1> QED
  BY <1>2, <1>3 DEF Saved

LEMMA NextNotFound ==
  ASSUME NEW file, NEW J \in SUBSET DOMAIN Settings,
         NEW n \in DOMAIN Settings \ J, NEW values,
         Saved(file, J, values)
  PROVE  KeyLines(file, Settings[n].section, Settings[n].key) = {}
<1> DEFINE x == Settings[n]
<1>1. n \in 1 .. Len(Settings)
  BY SettingFacts
<1>2. x \in SettingSet
  BY <1>1, SettingFacts
<1>3. \A j \in J : x # Settings[j]
  <2>1. \A j \in J : j \in DOMAIN Settings /\ n \in DOMAIN Settings /\ j # n
    OBVIOUS
  <2> QED
    BY <2>1, ConfigAssumption
<1> HIDE DEF x
<1>4. ASSUME NEW i \in KeyLines(file, x.section, x.key)
      PROVE  FALSE
  <2>1. Among(x, J)
    BY <1>2, <1>4, SavedKeyLines
  <2> QED
    BY <1>3, <2>1 DEF Among
<1> QED
  BY <1>4 DEF x

(* the section is saved for the first time *)
LEMMA SavingSection ==
  ASSUME NEW file, NEW J \in SUBSET DOMAIN Settings,
         NEW n \in DOMAIN Settings \ J,
         NEW values \in [SettingSet -> STRING], Saved(file, J, values),
         NEW x, x = Settings[n], NEW written,
         SectionAdded(file, x.section, Entry(x.key, values[x]), written)
  PROVE  Saved(written, J \cup {n}, values)
<1> DEFINE L == Len(file)
           e == IF file = << >> THEN 0 ELSE 1
           line == Entry(x.key, values[x])
           p == L + 1
           l == L + e + 2
<1>1. /\ written \in Files /\ Len(written) = l
      /\ \A j \in 1 .. L : written[j] = file[j]
      /\ e = 1 => written[L + 1] = Blank
      /\ written[L + e + 1] = Header(x.section)
      /\ written[l] = line
  BY DEF SectionAdded
<1>2. file \in Files
  BY DEF Saved
<1>3. L \in Nat /\ e \in {0, 1}
  BY <1>2, FileFacts
<1>4. n \in 1 .. Len(Settings)
  BY SettingFacts
<1>5. x \in SettingSet
  BY <1>4, SettingFacts
<1>6. x.section \in STRING /\ x.key \in STRING /\ values[x] \in STRING
  BY <1>5, NameFacts
<1>7. /\ Header(x.section).kind = "header" /\ Header(x.section).name = x.section
      /\ Header(x.section).indent = FALSE
  BY <1>6, HeaderLine
<1>8. /\ line.kind = "entry" /\ line.name = x.key /\ line.value = values[x]
      /\ line.indent = FALSE
  <2> DEFINE m == x.key
             v == values[x]
  <2>1. m \in STRING /\ v \in STRING
    BY <1>6
  <2> HIDE DEF m, v
  <2>2. /\ Entry(m, v) \in Lines
        /\ Entry(m, v).kind = "entry" /\ Entry(m, v).name = m
        /\ Entry(m, v).value = v /\ Entry(m, v).indent = FALSE
    BY <2>1, EntryLine
  <2> QED
    BY <2>2 DEF m, v
<1> HIDE DEF L, e, line
<1>9. Moved(file, written, p)
  <2>1. Len(file) <= Len(written)
    BY <1>1, <1>3 DEF L
  <2> QED
    BY <1>1, <1>2, <2>1, SameLinesMoved DEF L
<1>10. L + e + 1 \in 1 .. Len(written) /\ l \in 1 .. Len(written)
  BY <1>1, <1>3
<1>11. HeaderOf(written, l) = L + e + 1
  <2>1. L + e + 1 \in FileHeaders(written)
    BY <1>1, <1>7, <1>10, FileFacts
  <2>2. l \in Nat /\ L + e + 1 < l
    BY <1>3
  <2>3. \A j \in FileHeaders(written) : j < l => j <= L + e + 1
    <3>1. \A j \in FileHeaders(written) : j \in Nat
      BY <1>1, FileFacts
    <3> QED
      BY <1>3, <3>1
  <2> QED
    BY <1>1, <2>1, <2>2, <2>3, HeaderOfUnique
<1>12. SavedAs(written, l, x)
  <2>1. L + e + 1 # 0
    BY <1>3
  <2> QED
    BY <1>1, <1>7, <1>8, <1>10, <1>11, <2>1 DEF SavedAs
<1>13. n \in J \cup {n}
  OBVIOUS
<1>14. SavedLine(written, l, J \cup {n}, values)
  BY <1>1, <1>8, <1>12, <1>13 DEF SavedLine
<1>15. SavedLine(written, L + e + 1, J \cup {n}, values)
  BY <1>1, <1>7, <1>13 DEF SavedLine
<1>16. e = 1 => SavedLine(written, L + 1, J \cup {n}, values)
  BY <1>1, BlankLine DEF SavedLine
<1>17. ASSUME NEW m \in 1 .. Len(written)
       PROVE  \/ \E i \in 1 .. Len(file) : m = Place(i, p)
              \/ SavedLine(written, m, J \cup {n}, values)
  <2>1. CASE m \in 1 .. L
    <3>1. m = Place(m, p)
      BY <1>3, <2>1 DEF Place
    <3> QED
      BY <2>1, <3>1 DEF L
  <2>2. \/ m \in 1 .. L \/ m = l \/ m = L + e + 1
        \/ e = 1 /\ m = L + 1
    BY <1>1, <1>3
  <2> QED
    BY <1>14, <1>15, <1>16, <2>1, <2>2
<1> HIDE DEF p, l
<1>18. MovedKeepsSaved(file, written, p, J, n, values)
  BY <1>17 DEF MovedKeepsSaved
<1>19. SavedAs(written, l, Settings[n])
  BY <1>12
<1> QED
  BY <1>1, <1>9, <1>18, <1>19, SavedGrows

(* a section that is saved already gets an entry more *)
LEMMA SavingEntry ==
  ASSUME NEW file, NEW J \in SUBSET DOMAIN Settings,
         NEW n \in DOMAIN Settings \ J,
         NEW values \in [SettingSet -> STRING], Saved(file, J, values),
         NEW x, x = Settings[n], NEW written,
         NEW h \in Nat, LastSection(file, x.section, h),
         Added(file, LineAfter(file, h), Entry(x.key, values[x]), written)
  PROVE  Saved(written, J \cup {n}, values)
<1> DEFINE L == Len(file)
           line == Entry(x.key, values[x])
           p == LineAfter(file, h)
<1>1. file \in Files /\ Plain(file)
  BY SavedIsPlain
<1>2. h \in 1 .. L /\ L \in Nat
  BY <1>1, FileFacts DEF LastSection
<1>3. n \in 1 .. Len(Settings)
  BY SettingFacts
<1>4. x \in SettingSet
  BY <1>3, SettingFacts
<1>5. /\ x.section \in STRING /\ x.key \in STRING /\ values[x] \in STRING
      /\ Findable(x.section, x.key)
  BY <1>4, NameFacts
<1>6. /\ line \in Lines
      /\ line.kind = "entry" /\ line.name = x.key /\ line.value = values[x]
      /\ line.indent = FALSE
  <2> DEFINE m == x.key
             v == values[x]
  <2>1. m \in STRING /\ v \in STRING
    BY <1>5
  <2> HIDE DEF m, v
  <2>2. /\ Entry(m, v) \in Lines
        /\ Entry(m, v).kind = "entry" /\ Entry(m, v).name = m
        /\ Entry(m, v).value = v /\ Entry(m, v).indent = FALSE
    BY <2>1, EntryLine
  <2> QED
    BY <2>2 DEF m, v
<1>7. EntryFor(line, x.key) /\ EntryFor(line, line.name)
  BY <1>5, <1>6 DEF EntryFor, Findable
<1>8. p \in 1 .. L + 1
  BY <1>1, <1>2, LineAfterIs
<1>9. KeyLines(file, x.section, x.key) = {}
  BY NextNotFound
<1> HIDE DEF line
<1>10. p \in KeyLines(written, x.section, x.key)
  <2>1. Added(file, LineAfter(file, h), line, written)
    BY DEF line
  <2> QED
    BY <1>1, <1>6, <1>7, <1>9, <2>1, AddedIsFirst
<1>11. Added(file, p, line, written)
  BY DEF line
<1> HIDE DEF p
<1>12. /\ written \in Files /\ Len(written) = L + 1
       /\ written[p].kind = "entry" /\ written[p].name = x.key
       /\ written[p].value = values[x]
       /\ written[p].indent <=> p <= L /\ file[p].indent
  BY <1>6, <1>11 DEF Added
<1>13. Moved(file, written, p)
  BY <1>1, <1>7, <1>8, <1>11, AddedMoved
<1>14. ASSUME NEW m \in 1 .. Len(written), m # p
       PROVE  \E i \in 1 .. Len(file) : m = Place(i, p)
  <2>1. CASE m < p
    <3>1. m \in 1 .. Len(file) /\ m = Place(m, p)
      BY <1>2, <1>8, <2>1 DEF Place
    <3> QED
      BY <3>1
  <2>2. CASE ~(m < p)
    <3>1. m - 1 \in 1 .. Len(file) /\ m = Place(m - 1, p)
      BY <1>2, <1>8, <1>12, <1>14, <2>2 DEF Place
    <3> QED
      BY <3>1
  <2> QED
    BY <2>1, <2>2
<1>15. SavedAs(written, p, x)
  <2> DEFINE g == HeaderOf(written, p)
  <2>1. /\ p \in 1 .. Len(written) /\ g # 0
        /\ IsPrefix(written[g].name, x.section)
    <3>1. IsKeyLine(written, x.section, x.key, p)
      BY <1>10, <1>12, KeyLinesIs
    <3> QED
      BY <3>1 DEF IsKeyLine
  <2>2. p \in Nat
    BY <1>2, <1>8
  <2>3. g \in FileHeaders(written) /\ g < p /\ g \in Nat
    BY <1>12, <2>1, <2>2, HeaderOfIs
  <2> HIDE DEF g
  <2>4. g \in 1 .. Len(written) /\ g # p /\ written[g].kind = "header"
    BY <1>12, <2>2, <2>3, FileFacts
  <2>5. PICK i \in 1 .. Len(file) : g = Place(i, p)
    BY <1>14, <2>4
  <2>6. file[i].kind = "header" /\ file[i].name = written[g].name
    BY <1>13, <2>4, <2>5 DEF Moved
  <2>7. SavedLine(file, i, J, values)
    BY DEF Saved
  <2>8. PICK j \in J : file[i].name = Settings[j].section
    BY <2>6, <2>7 DEF SavedLine, SavedAs
  <2>9. Settings[j] \in SettingSet
    <3>1. j \in 1 .. Len(Settings)
      BY <1>3, SettingFacts
    <3> QED
      BY <3>1, SettingFacts
  <2>10. Settings[j].section = x.section
    <3>1. IsPrefix(Settings[j].section, x.section)
      BY <2>1, <2>6, <2>8
    <3> QED
      BY <1>4, <2>9, <3>1, NamesAssumption
  <2> QED
    BY <1>12, <2>1, <2>6, <2>8, <2>10 DEF SavedAs, g
<1>16. SavedLine(written, p, J \cup {n}, values)
  <2>1. ~written[p].indent
    <3>1. p <= L => ~file[p].indent
      BY <1>1, <1>2, <1>8 DEF Plain
    <3> QED
      BY <1>12, <3>1
  <2>2. n \in J \cup {n}
    OBVIOUS
  <2> QED
    BY <1>12, <1>15, <2>1, <2>2 DEF SavedLine
<1>17. MovedKeepsSaved(file, written, p, J, n, values)
  BY <1>14, <1>16 DEF MovedKeepsSaved
<1>18. SavedAs(written, p, Settings[n])
  BY <1>15
<1> QED
  BY <1>12, <1>13, <1>17, <1>18, SavedGrows

LEMMA SavingStep ==
  ASSUME NEW file, NEW J \in SUBSET DOMAIN Settings,
         NEW n \in DOMAIN Settings \ J,
         NEW values \in [SettingSet -> STRING], Saved(file, J, values)
  PROVE  LET x == Settings[n]
         IN Saved(write_profile_string(file, x.section, x.key, values[x]),
                  J \cup {n}, values)
<1> DEFINE x == Settings[n]
           written == write_profile_string(file, x.section, x.key, values[x])
           headers == SectionLines(file, x.section)
           line == Entry(x.key, values[x])
<1>1. file \in Files
  BY DEF Saved
<1>2. n \in 1 .. Len(Settings)
  BY SettingFacts
<1>3. x \in SettingSet
  BY <1>2, SettingFacts
<1>4. x.section \in STRING /\ x.key \in STRING /\ values[x] \in STRING
  BY <1>3, NameFacts
<1>5. KeyLines(file, x.section, x.key) = {}
  BY NextNotFound
<1>6. \/ /\ headers = {} /\ SectionAdded(file, x.section, line, written)
      \/ /\ headers # {}
         /\ Added(file, LineAfter(file, Max(headers)), line, written)
  <2> HIDE DEF x
  <2> QED
    BY <1>1, <1>4, <1>5, WriteIs
<1>7. CASE headers = {} /\ SectionAdded(file, x.section, line, written)
  <2> HIDE DEF written
  <2>1. Saved(written, J \cup {n}, values)
    BY <1>7, SavingSection
  <2> QED
    BY <2>1 DEF written
<1>8. CASE headers # {} /\ Added(file, LineAfter(file, Max(headers)), line, written)
  <2> DEFINE h == Max(headers)
  <2>1. LastSection(file, x.section, h)
    BY <1>1, <1>8, SectionLinesIs DEF LastSection
  <2>2. h \in Nat
    BY <1>1, <2>1, FileFacts DEF LastSection
  <2>3. Added(file, LineAfter(file, h), line, written)
    BY <1>8
  <2> HIDE DEF written, h, headers
  <2>4. Saved(written, J \cup {n}, values)
    BY <2>1, <2>2, <2>3, SavingEntry
  <2> QED
    BY <2>4 DEF written
<1> QED
  BY <1>6, <1>7, <1>8

-----------------------------------------------------------------------------
(* What somebody may do to a file that has every setting *)

(* ini_parse finds every setting *)
Complete(file) ==
  \A x \in SettingSet :
     \E i \in 1 .. Len(Calls(file)) : About(Calls(file), i, x)

(* calls about the same names, whatever their values *)
SameName(call, other) == call.section = other.section /\ call.key = other.key
SameCalls(calls, others) ==
  /\ Len(calls) = Len(others)
  /\ \A i \in 1 .. Len(calls) : SameName(calls[i], others[i])
SameNames(st, other) ==
  /\ st.section = other.section /\ st.prev_name = other.prev_name
  /\ SameCalls(st.calls, other.calls)
LineAlike(line, other) ==
  /\ line.kind = other.kind /\ line.name = other.name
  /\ line.indent = other.indent

LEMMA SameCallAdded ==
  ASSUME NEW calls \in Seq(HandlerCalls), NEW others \in Seq(HandlerCalls),
         SameCalls(calls, others), NEW c \in HandlerCalls,
         NEW d \in HandlerCalls, SameName(c, d)
  PROVE  SameCalls(Append(calls, c), Append(others, d))
<1> DEFINE L == Len(calls)
           a == Append(calls, c)
           b == Append(others, d)
<1>1. Len(others) = L /\ \A i \in 1 .. L : SameName(calls[i], others[i])
  BY DEF SameCalls
<1>2. /\ L \in Nat /\ Len(a) = L + 1 /\ a[L + 1] = c
      /\ \A i \in 1 .. L : a[i] = calls[i]
  BY AppendProperties
<1>3. /\ Len(b) = L + 1 /\ b[L + 1] = d
      /\ \A i \in 1 .. L : b[i] = others[i]
  BY <1>1, AppendProperties
<1> HIDE DEF a, b, L
<1>4. \A i \in 1 .. Len(a) : SameName(a[i], b[i])
  BY <1>1, <1>2, <1>3
<1>5. SameCalls(a, b)
  BY <1>2, <1>3, <1>4 DEF SameCalls
<1> QED
  BY <1>5 DEF a, b

LEMMA SameLine ==
  ASSUME NEW st \in States, NEW other \in States, SameNames(st, other),
         NEW n \in Nat, NEW line \in Lines, NEW l \in Lines, LineAlike(line, l)
  PROVE  SameNames(AtLine(st, n, line), AtLine(other, n, l))
<1> DEFINE new == AtLine(st, n, line)
           o == AtLine(other, n, l)
<1>1. /\ line.kind \in {"header", "entry", "loose", "text", "note", "blank"}
      /\ line.indent \in BOOLEAN
  BY DEF Lines
<1>2. /\ l.kind = line.kind /\ l.name = line.name /\ l.indent = line.indent
  BY DEF LineAlike
<1>3. /\ st.section = other.section /\ st.prev_name = other.prev_name
      /\ SameCalls(st.calls, other.calls)
  BY DEF SameNames
<1>4. st.calls \in Seq(HandlerCalls) /\ other.calls \in Seq(HandlerCalls)
  BY DEF States
<1> DEFINE continues == line.indent /\ st.prev_name # ""
<1>5. CASE line.kind \in {"note", "blank"} \/ (line.kind = "text" /\ ~continues)
  <2>1. new = st /\ o = other
    BY <1>2, <1>3, <1>5, AtLineCases
  <2> QED
    BY <2>1
<1>6. CASE line.kind \notin {"note", "blank"} /\ continues
  <2> DEFINE c == ContinuationCall(st, n, line)
             d == ContinuationCall(other, n, l)
  <2>1. new = AtContinuation(st, n, line) /\ o = AtContinuation(other, n, l)
    BY <1>2, <1>3, <1>6, AtLineCases
  <2>2. c \in HandlerCalls /\ d \in HandlerCalls
    BY CallTypes
  <2>3. SameName(c, d)
    BY <1>3 DEF ContinuationCall, SameName
  <2>4. /\ new.section = st.section /\ new.prev_name = st.prev_name
        /\ new.calls = Append(st.calls, c)
    <3> HIDE DEF new
    <3> QED
      BY <2>1, AtContinuationIs
  <2>5. /\ o.section = other.section /\ o.prev_name = other.prev_name
        /\ o.calls = Append(other.calls, d)
    <3> HIDE DEF o
    <3> QED
      BY <2>1, AtContinuationIs
  <2> HIDE DEF new, o, c, d
  <2>6. SameCalls(Append(st.calls, c), Append(other.calls, d))
    BY <1>3, <1>4, <2>2, <2>3, SameCallAdded
  <2>7. SameNames(new, o)
    BY <1>3, <2>4, <2>5, <2>6 DEF SameNames
  <2> QED
    BY <2>7 DEF new, o
<1>7. CASE line.kind = "header" /\ ~continues
  <2>1. new = AtHeader(st, line) /\ o = AtHeader(other, l)
    BY <1>2, <1>3, <1>7, AtLineCases
  <2>2. /\ new.section = line.name /\ new.prev_name = ""
        /\ new.calls = st.calls
    <3> HIDE DEF new
    <3> QED
      BY <2>1, AtHeaderIs
  <2>3. /\ o.section = l.name /\ o.prev_name = ""
        /\ o.calls = other.calls
    <3> HIDE DEF o
    <3> QED
      BY <2>1, AtHeaderIs
  <2> HIDE DEF new, o
  <2>4. SameNames(new, o)
    BY <1>2, <1>3, <2>2, <2>3 DEF SameNames
  <2> QED
    BY <2>4 DEF new, o
<1>8. CASE line.kind \in {"entry", "loose"} /\ ~continues
  <2> DEFINE c == EntryCall(st, n, line)
             d == EntryCall(other, n, l)
  <2>1. new = AtEntry(st, n, line) /\ o = AtEntry(other, n, l)
    BY <1>2, <1>3, <1>8, AtLineCases
  <2>2. c \in HandlerCalls /\ d \in HandlerCalls
    BY CallTypes
  <2>3. SameName(c, d)
    BY <1>2, <1>3 DEF EntryCall, SameName
  <2>4. /\ new.section = st.section /\ new.prev_name = line.name
        /\ new.calls = Append(st.calls, c)
    <3> HIDE DEF new
    <3> QED
      BY <2>1, AtEntryIs
  <2>5. /\ o.section = other.section /\ o.prev_name = l.name
        /\ o.calls = Append(other.calls, d)
    <3> HIDE DEF o
    <3> QED
      BY <2>1, AtEntryIs
  <2> HIDE DEF new, o, c, d
  <2>6. SameCalls(Append(st.calls, c), Append(other.calls, d))
    BY <1>3, <1>4, <2>2, <2>3, SameCallAdded
  <2>7. SameNames(new, o)
    BY <1>2, <1>3, <2>4, <2>5, <2>6 DEF SameNames
  <2> QED
    BY <2>7 DEF new, o
<1>9. \/ line.kind \in {"note", "blank"} \/ (line.kind = "text" /\ ~continues)
      \/ line.kind \notin {"note", "blank"} /\ continues
      \/ line.kind = "header" /\ ~continues
      \/ line.kind \in {"entry", "loose"} /\ ~continues
  <2> HIDE DEF continues
  <2> QED
    BY <1>1
<1> QED
  BY <1>5, <1>6, <1>7, <1>8, <1>9, Zenon

(* The values of the entries change nothing for the other lines. *)
LEMMA ScanAlike ==
  ASSUME NEW file \in Files, NEW other \in Files, NEW n \in Nat,
         Alike(file, other, n)
  PROVE  SameNames(Scan(file, n), Scan(other, n))
<1> DEFINE S == {m \in 0 .. n : SameNames(Scan(file, m), Scan(other, m))}
<1>1. /\ Len(file) \in Nat /\ Len(other) \in Nat
      /\ n <= Len(file) /\ n <= Len(other)
  BY FileFacts DEF Alike
<1>2. \A m \in 0 .. n : Scan(file, m) \in States /\ Scan(other, m) \in States
  BY <1>1, ScanSteps
<1>3. 0 \in S
  <2>1. Scan(file, 0) = AtStart /\ Scan(other, 0) = AtStart
    BY ScanSteps
  <2>2. SameNames(AtStart, AtStart)
    BY DEF SameNames, SameCalls, SameName
  <2> QED
    BY <2>1, <2>2
<1>4. ASSUME NEW m \in 1 .. n, m - 1 \in S
      PROVE  m \in S
  <2>1. /\ m \in 1 .. Len(file) /\ m \in 1 .. Len(other)
        /\ m - 1 \in 0 .. n /\ m \in 0 .. n /\ m \in Nat
    BY <1>1
  <2> DEFINE a == Scan(file, m - 1)
             b == Scan(other, m - 1)
             line == file[m]
             l == other[m]
  <2>2. Scan(file, m) = AtLine(a, m, line) /\ Scan(other, m) = AtLine(b, m, l)
    BY <2>1, ScanSteps
  <2>3. a \in States /\ b \in States /\ SameNames(a, b)
    BY <1>2, <1>4, <2>1
  <2>4. line \in Lines /\ l \in Lines
    BY <2>1, LineFields
  <2>5. LineAlike(line, l)
    BY DEF Alike, LineAlike
  <2> HIDE DEF a, b, line, l
  <2>6. SameNames(AtLine(a, m, line), AtLine(b, m, l))
    BY <2>1, <2>3, <2>4, <2>5, SameLine
  <2> QED
    BY <2>1, <2>2, <2>6
<1> HIDE DEF S
<1>5. \A m \in 0 .. n : m \in S
  <2>1. \A m \in 1 .. n : m - 1 \in S => m \in S
    BY <1>4
  <2> QED
    BY <1>3, <2>1, LoopInduction
<1>6. n \in 0 .. n
  OBVIOUS
<1> QED
  BY <1>5, <1>6 DEF S

(* A line makes no call undone. *)
LEMMA CallsKept ==
  ASSUME NEW st \in States, NEW n \in Nat, NEW line \in Lines
  PROVE  /\ Len(st.calls) \in Nat
         /\ Len(st.calls) <= Len(AtLine(st, n, line).calls)
         /\ \A i \in 1 .. Len(st.calls) :
              AtLine(st, n, line).calls[i] = st.calls[i]
<1> DEFINE new == AtLine(st, n, line)
           calls == st.calls
<1>1. calls \in Seq(HandlerCalls)
  BY DEF States
<1>2. \/ new.calls = calls
      \/ new.calls = Append(calls, EntryCall(st, n, line))
      \/ new.calls = Append(calls, ContinuationCall(st, n, line))
  <2>1. line.kind \in {"header", "entry", "loose", "text", "note", "blank"}
    BY DEF Lines
  <2>2. \/ new = st \/ new = AtHeader(st, line)
        \/ new = AtEntry(st, n, line) \/ new = AtContinuation(st, n, line)
    BY <2>1, AtLineCases
  <2> HIDE DEF new
  <2>3. CASE new = st
    BY <2>3
  <2>4. CASE new = AtHeader(st, line)
    BY <2>4, AtHeaderIs
  <2>5. CASE new = AtEntry(st, n, line)
    BY <2>5, AtEntryIs
  <2>6. CASE new = AtContinuation(st, n, line)
    BY <2>6, AtContinuationIs
  <2> QED
    BY <2>2, <2>3, <2>4, <2>5, <2>6
<1>3. /\ EntryCall(st, n, line) \in HandlerCalls
      /\ ContinuationCall(st, n, line) \in HandlerCalls
  BY CallTypes
<1>4. ASSUME NEW call \in HandlerCalls
      PROVE  /\ Len(calls) \in Nat /\ Len(calls) <= Len(Append(calls, call))
             /\ \A i \in 1 .. Len(calls) : Append(calls, call)[i] = calls[i]
  <2> HIDE DEF calls
  <2>1. Len(Append(calls, call)) = Len(calls) + 1 /\ Len(calls) \in Nat
    BY <1>1, AppendProperties
  <2>2. \A i \in 1 .. Len(calls) : Append(calls, call)[i] = calls[i]
    BY <1>1, AppendProperties
  <2> QED
    BY <2>1, <2>2
<1>5. Len(calls) \in Nat
  BY <1>1
<1> HIDE DEF new, calls
<1>6. /\ Len(calls) \in Nat /\ Len(calls) <= Len(new.calls)
      /\ \A i \in 1 .. Len(calls) : new.calls[i] = calls[i]
  BY <1>2, <1>3, <1>4, <1>5
<1> QED
  BY <1>6 DEF new, calls

(* Nor does a line more, or another value of an entry, take a setting from  *)
(* the file.                                                                *)
LEMMA LineKeepsComplete ==
  ASSUME NEW file \in Files, Complete(file), NEW line \in Lines
  PROVE  Complete(Append(file, line))
<1> DEFINE written == Append(file, line)
           L == Len(file)
           a == Calls(file)
           b == Scan(written, L).calls
           c == Calls(written)
<1>1. /\ L \in Nat /\ written \in Files /\ Len(written) = L + 1
      /\ \A i \in 1 .. L : written[i] = file[i]
  <2>1. file \in Seq(Lines)
    BY DEF Files
  <2>2. L \in Nat
    BY FileFacts
  <2>3. /\ written \in Seq(Lines) /\ Len(written) = L + 1
        /\ \A i \in 1 .. L : written[i] = file[i]
    BY <2>1, AppendProperties
  <2> QED
    BY <2>2, <2>3 DEF Files
<1> HIDE DEF written
<1>2. Alike(file, written, L)
  BY <1>1 DEF Alike
<1>3. SameNames(Scan(file, L), Scan(written, L))
  BY <1>1, <1>2, ScanAlike
<1>4. SameCalls(a, b)
  BY <1>3 DEF SameNames, Calls
<1>5. Len(b) \in Nat /\ Len(b) <= Len(c) /\ \A i \in 1 .. Len(b) : c[i] = b[i]
  <2> DEFINE st == Scan(written, L)
             l == written[L + 1]
             n == L + 1
  <2>1. n \in Nat /\ n \in 1 .. Len(written) /\ n - 1 = L /\ L \in 0 .. Len(written)
    BY <1>1
  <2>2. st \in States /\ Scan(written, n) = AtLine(Scan(written, n - 1), n, written[n])
    BY <1>1, <2>1, ScanSteps
  <2>3. Calls(written) = AtLine(st, n, l).calls
    BY <1>1, <2>1, <2>2 DEF Calls
  <2>4. l \in Lines
    BY <1>1, <2>1, LineFields
  <2> HIDE DEF st, n, l
  <2>5. /\ Len(st.calls) \in Nat /\ Len(st.calls) <= Len(AtLine(st, n, l).calls)
        /\ \A i \in 1 .. Len(st.calls) : AtLine(st, n, l).calls[i] = st.calls[i]
    BY <2>1, <2>2, <2>4, CallsKept
  <2> QED
    BY <2>3, <2>5 DEF st
<1> HIDE DEF L, a, b, c
<1>6. ASSUME NEW x \in SettingSet
      PROVE  \E i \in 1 .. Len(c) : About(c, i, x)
  <2>1. PICK i \in 1 .. Len(a) : About(a, i, x)
    BY DEF Complete, a
  <2>2. Len(a) = Len(b) /\ SameName(a[i], b[i])
    BY <1>4 DEF SameCalls
  <2>3. i \in 1 .. Len(c) /\ c[i] = b[i]
    BY <1>5, <2>2
  <2>4. About(c, i, x)
    BY <2>1, <2>2, <2>3 DEF About, SameName
  <2> QED
    BY <2>3, <2>4
<1> QED
  BY <1>6 DEF Complete, written, c

LEMMA ValueKeepsComplete ==
  ASSUME NEW file \in Files, Complete(file), NEW written \in Files,
         Len(written) = Len(file), Alike(file, written, Len(file))
  PROVE  Complete(written)
<1> DEFINE a == Calls(file)
           b == Calls(written)
<1>1. Len(file) \in Nat
  BY FileFacts
<1>2. SameNames(Scan(file, Len(file)), Scan(written, Len(file)))
  BY <1>1, ScanAlike
<1>3. SameCalls(a, b)
  BY <1>2 DEF SameNames, Calls
<1> HIDE DEF a, b
<1>4. ASSUME NEW x \in SettingSet
      PROVE  \E i \in 1 .. Len(b) : About(b, i, x)
  <2>1. PICK i \in 1 .. Len(a) : About(a, i, x)
    BY DEF Complete, a
  <2>2. Len(a) = Len(b) /\ SameName(a[i], b[i])
    BY <1>3 DEF SameCalls
  <2>3. About(b, i, x)
    BY <2>1, <2>2 DEF About, SameName
  <2> QED
    BY <2>2, <2>3
<1> QED
  BY <1>4 DEF Complete, b

(* A file all settings have been saved in has them all. *)
LEMMA SavedIsComplete ==
  ASSUME NEW file, NEW values, Saved(file, DOMAIN Settings, values)
  PROVE  Complete(file)
<1> DEFINE calls == Calls(file)
<1>1. DOMAIN Settings = 1 .. Len(Settings)
  BY SettingFacts
<1>2. file \in Files /\ Plain(file)
  BY SavedIsPlain
<1>3. \A l \in 1 .. Len(file) : file[l].kind = "entry" =>
        \E c \in 1 .. Len(calls) : CallFor(file, calls[c], l)
  BY <1>2, PlainCalls
<1> HIDE DEF calls
<1>4. ASSUME NEW x \in SettingSet
      PROVE  \E c \in 1 .. Len(calls) : About(calls, c, x)
  <2>1. PICK j \in 1 .. Len(Settings) : x = Settings[j]
    BY SettingFacts
  <2>2. PICK i \in 1 .. Len(file) : SavedAs(file, i, x)
    BY <1>1, <2>1 DEF Saved
  <2>3. PICK c \in 1 .. Len(calls) : CallFor(file, calls[c], i)
    BY <1>3, <2>2 DEF SavedAs
  <2>4. About(calls, c, x)
    BY <2>2, <2>3 DEF SavedAs, CallFor, SectionOf, About
  <2> QED
    BY <2>4
<1> QED
  BY <1>4 DEF Complete, calls

-----------------------------------------------------------------------------
(* What LoadPsuConfig finds *)

LEMMA ValueFacts ==
  /\ Default \in [SettingSet -> STRING] /\ Default \in [SettingSet -> Said]
  /\ Default \in [SettingSet -> Said \cup {Null}]
  /\ Unset \in [SettingSet -> Said \cup {Null}]
<1>1. STRING \subseteq Said
  BY DEF Said
<1>2. Default \in [SettingSet -> STRING]
  BY ConfigAssumption
<1>3. Default \in [SettingSet -> Said]
  BY <1>1, <1>2
<1>4. Default \in [SettingSet -> Said \cup {Null}]
  BY <1>3
<1> QED
  BY <1>2, <1>3, <1>4 DEF Unset

LEMMA CallsType ==
  ASSUME NEW file \in Files
  PROVE  Calls(file) \in Seq(HandlerCalls)
<1>1. Len(file) \in 0 .. Len(file)
  BY FileFacts
<1>2. Scan(file, Len(file)) \in States
  BY <1>1, ScanSteps
<1> QED
  BY <1>2 DEF Calls, States

LEMMA LoadedIs ==
  ASSUME NEW file \in Files
  PROVE  /\ ini_parse(file, Unset) \in [SettingSet -> Said \cup {Null}]
         /\ Complete(file) => ini_parse(file, Unset) \in [SettingSet -> Said]
<1> DEFINE calls == Calls(file)
           T == Said \cup {Null}
           found == Handled(calls, Unset)
<1>1. calls \in Seq(HandlerCalls)
  BY CallsType
<1>2. SomeNames(SettingSet) /\ Said \subseteq T /\ Unset \in [SettingSet -> T]
  BY SettingFacts, ValueFacts
<1>3. ini_parse(file, Unset) = found
  BY DEF ini_parse
<1> HIDE DEF calls, T
<1>4. /\ found \in [SettingSet -> T]
      /\ \A x \in SettingSet : FoundAfter(calls, Len(calls), Unset, found, x)
  BY <1>1, <1>2, HandledIs
<1> HIDE DEF found
<1>5. ASSUME Complete(file), NEW x \in SettingSet
      PROVE  found[x] \in Said
  <2>1. PICK i \in 1 .. Len(calls) : About(calls, i, x)
    BY <1>5 DEF Complete, calls
  <2>2. PICK c \in 1 .. Len(calls) : found[x] = calls[c].value
    BY <1>4, <2>1 DEF FoundAfter
  <2>3. calls[c] \in HandlerCalls
    BY <1>1, <2>2, ElementOfSeq
  <2> QED
    BY <2>2, <2>3 DEF HandlerCalls
<1> QED
  BY <1>3, <1>4, <1>5 DEF T

LEMMA SavedIsFound ==
  ASSUME NEW file, Saved(file, DOMAIN Settings, Default)
  PROVE  ini_parse(file, Unset) = Default
<1> DEFINE T == Said \cup {Null}
           found == ini_parse(file, Unset)
           J == DOMAIN Settings
<1>1. file \in Files
  BY DEF Saved
<1>2. J \in SUBSET DOMAIN Settings
  OBVIOUS
<1>3. found \in [SettingSet -> T] /\ Unset \in [SettingSet -> T] /\ Said \subseteq T
  BY <1>1, LoadedIs, ValueFacts
<1>4. ASSUME NEW x \in SettingSet
      PROVE  found[x] = Default[x]
  <2>1. Among(x, J)
    BY SettingFacts DEF Among
  <2>2. Saved(file, J, Default) /\ Loadable(Unset, T)
    BY <1>3 DEF Loadable
  <2> HIDE DEF T, J
  <2> QED
    BY <1>2, <2>1, <2>2, SavedIsLoaded
<1>5. Default \in [SettingSet -> T]
  BY ValueFacts
<1> HIDE DEF found, T
<1>6. found = Default
  BY <1>3, <1>4, <1>5
<1> QED
  BY <1>6 DEF found

-----------------------------------------------------------------------------
(* The inductive invariant *)

TypeInv ==
  /\ disk = Missing \/ disk \in Files
  /\ writable \in BOOLEAN /\ interrupted \in BOOLEAN
  /\ cfg \in [SettingSet -> Said \cup {Null}]
  /\ pc \in {"start", "save", "write", "setup", "running", "down", "crashed"}
  /\ next \in 1 .. Len(Settings) /\ lost \in 0 .. Len(Settings)
  /\ edits \in 0 .. MaxEdits

(* only a file the service may write, and finds again, comes to be          *)
FileKept == disk # Missing => writable /\ Meant

(* what it works with while it starts: nothing, then the defaults, of which *)
(* those saved since the disk was last full are in the file                 *)
Starting ==
  /\ pc = "start" => cfg = Unset
  /\ pc \in {"start", "down", "crashed"} => lost = 0
  /\ pc \in {"save", "write"} => cfg = Default /\ lost < next
  /\ pc \in {"save", "write"} /\ ~interrupted => lost = 0
  /\ pc = "write" => writable /\ Meant /\ disk = << >>
Saving ==
  /\ pc = "save" /\ writable /\ Meant =>
       Saved(load_ini_file(disk), lost + 1 .. next - 1, Default)
  /\ pc = "write" => Saved(w_buf, lost + 1 .. next, Default)

(* unless a start was cut short, the file has all settings ...              *)
FileComplete ==
  pc \notin {"save", "write"} /\ disk # Missing /\ ~interrupted =>
    Complete(disk)
(* ... and so has the service that has loaded it                            *)
CfgComplete ==
  pc \in {"setup", "running", "crashed"} /\ ~interrupted =>
    cfg \in [SettingSet -> Said]
CfgOfFile ==
  pc \in {"setup", "running"} /\ writable /\ Meant /\ ~interrupted =>
    ini_parse(load_ini_file(disk), Unset) = cfg

IInv ==
  /\ TypeInv /\ FileKept /\ Starting /\ Saving
  /\ FileComplete /\ CfgComplete /\ CfgOfFile

LEMMA StartFacts ==
  1 \in 1 .. Len(Settings) /\ 0 \in 0 .. Len(Settings) /\ 0 \in 0 .. MaxEdits
<1>1. MaxEdits \in Nat
  BY ConfigAssumption
<1>2. Len(Settings) \in Nat /\ Len(Settings) >= 1
  BY SettingFacts
<1> QED
  BY <1>1, <1>2

LEMMA InitIInv == Init => IInv
<1> SUFFICES ASSUME Init
             PROVE  IInv
  OBVIOUS
<1>1. TypeInv
  BY StartFacts, ValueFacts DEF Init, TypeInv
<1> QED
  BY <1>1 DEF Init, IInv, FileKept, Starting, Saving, FileComplete, CfgComplete,
     CfgOfFile

LEMMA LoadKeeps ==
  ASSUME IInv, LoadPsuConfig
  PROVE  IInv'
<1>1. TypeInv /\ FileKept /\ Starting /\ FileComplete /\ pc = "start"
  BY DEF IInv, LoadPsuConfig
<1>2. cfg = Unset
  BY <1>1 DEF Starting
<1>3. UNCHANGED <<disk, writable, work, w_buf, lost, edits>>
  BY DEF LoadPsuConfig
<1>4. CASE /\ disk = Missing \/ ~Meant
           /\ cfg' = Default /\ pc' = "save" /\ next' = 1 /\ interrupted' = FALSE
  <2>1. disk = Missing
    BY <1>1, <1>4 DEF FileKept
  <2>2. load_ini_file(disk') = << >> /\ lost' = 0 /\ lost' + 1 .. next' - 1 = {}
    BY <1>1, <1>3, <1>4, <2>1 DEF load_ini_file, Starting
  <2>3. Saved(load_ini_file(disk'), lost' + 1 .. next' - 1, Default)
    BY <2>2, NothingSaved
  <2>4. TypeInv'
    BY <1>1, <1>3, <1>4, ValueFacts, StartFacts DEF TypeInv
  <2>5. FileKept' /\ Starting'
    BY <1>1, <1>3, <1>4, <2>2 DEF FileKept, Starting
  <2>6. Saving'
    BY <1>4, <2>3 DEF Saving
  <2>7. FileComplete' /\ CfgComplete' /\ CfgOfFile'
    BY <1>4 DEF FileComplete, CfgComplete, CfgOfFile
  <2> QED
    BY <2>4, <2>5, <2>6, <2>7 DEF IInv
<1>5. CASE /\ disk # Missing /\ Meant
           /\ cfg' = ini_parse(disk, cfg) /\ pc' = "setup"
           /\ UNCHANGED <<next, interrupted>>
  <2>1. disk \in Files
    BY <1>1, <1>5 DEF TypeInv
  <2>2. cfg' = ini_parse(disk, Unset)
    BY <1>2, <1>5
  <2>3. /\ cfg' \in [SettingSet -> Said \cup {Null}]
        /\ Complete(disk) => cfg' \in [SettingSet -> Said]
    BY <2>1, <2>2, LoadedIs
  <2>4. load_ini_file(disk') = disk
    BY <1>3, <1>5 DEF load_ini_file
  <2>5. ini_parse(load_ini_file(disk'), Unset) = cfg'
    BY <2>2, <2>4
  <2>6. TypeInv'
    BY <1>1, <1>3, <1>5, <2>3 DEF TypeInv
  <2>7. FileKept' /\ Starting' /\ Saving'
    BY <1>1, <1>3, <1>5 DEF FileKept, Starting, Saving
  <2>8. FileComplete'
    BY <1>1, <1>3, <1>5 DEF FileComplete
  <2>9. CfgComplete'
    BY <1>1, <1>5, <2>3 DEF CfgComplete, FileComplete
  <2>10. CfgOfFile'
    BY <2>5 DEF CfgOfFile
  <2> QED
    BY <2>6, <2>7, <2>8, <2>9, <2>10 DEF IInv
<1> QED
  BY <1>3, <1>4, <1>5 DEF LoadPsuConfig

(* What starts, ends or works with the settings leaves the file alone. *)
LEMMA FileUntouched ==
  ASSUME IInv, UNCHANGED <<disk, writable, edits>>,
         \/ SetUp \/ ForkFails \/ Killed \/ Restart
  PROVE  IInv'
<1>1. TypeInv /\ FileKept /\ Starting /\ Saving /\ FileComplete /\ CfgComplete /\ CfgOfFile
  BY DEF IInv
<1>2. CASE SetUp
  <2>1. /\ pc = "setup" /\ pc' \in {"running", "crashed"} /\ lost' = 0
        /\ UNCHANGED <<disk, writable, cfg, next, w_buf, interrupted, edits>>
    BY <1>2 DEF SetUp
  <2>2. TypeInv'
    BY <1>1, <2>1, StartFacts DEF TypeInv
  <2>3. FileKept' /\ Starting' /\ Saving'
    BY <1>1, <2>1 DEF FileKept, Starting, Saving
  <2>4. FileComplete' /\ CfgComplete' /\ CfgOfFile'
    BY <1>1, <2>1 DEF FileComplete, CfgComplete, CfgOfFile
  <2> QED
    BY <2>2, <2>3, <2>4 DEF IInv
<1>3. CASE ForkFails \/ Killed
  <2>1. /\ pc \in {"start", "save", "write", "setup", "running"} /\ pc' = "down"
        /\ cfg' = Unset /\ next' = 1 /\ w_buf' = << >> /\ lost' = 0
        /\ interrupted' \in BOOLEAN
        /\ ~interrupted' => ~interrupted /\ pc \notin {"save", "write"}
    BY <1>1, <1>3 DEF ForkFails, Killed, TypeInv
  <2>2. TypeInv'
    BY <1>1, <2>1, StartFacts, ValueFacts DEF TypeInv
  <2>3. FileKept' /\ Starting' /\ Saving'
    BY <1>1, <2>1 DEF FileKept, Starting, Saving
  <2>4. FileComplete'
    BY <1>1, <2>1 DEF FileComplete
  <2>5. CfgComplete' /\ CfgOfFile'
    BY <2>1 DEF CfgComplete, CfgOfFile
  <2> QED
    BY <2>2, <2>3, <2>4, <2>5 DEF IInv
<1>4. CASE Restart
  <2>1. /\ pc \in {"down", "crashed"} /\ pc' = "start" /\ cfg' = Unset
        /\ UNCHANGED <<next, w_buf, interrupted, lost>>
    BY <1>4 DEF Restart
  <2>2. TypeInv'
    BY <1>1, <2>1, ValueFacts DEF TypeInv
  <2>3. FileKept' /\ Starting' /\ Saving'
    BY <1>1, <2>1 DEF FileKept, Starting, Saving
  <2>4. FileComplete' /\ CfgComplete' /\ CfgOfFile'
    BY <1>1, <2>1 DEF FileComplete, CfgComplete, CfgOfFile
  <2> QED
    BY <2>2, <2>3, <2>4 DEF IInv
<1> QED
  BY <1>2, <1>3, <1>4

(* The file is emptied; w_buf has the next setting, too. *)
LEMMA SaveOpenKeeps ==
  ASSUME IInv, SaveOpen
  PROVE  IInv'
<1>1. TypeInv /\ FileKept /\ Starting /\ Saving
  BY DEF IInv
<1> DEFINE file == load_ini_file(disk)
           J == lost + 1 .. next - 1
           x == Settings[next]
<1>2. /\ pc = "save" /\ pc' = "write" /\ writable /\ Meant /\ disk' = << >>
      /\ w_buf' = write_profile_string(file, x.section, x.key, cfg[x])
      /\ UNCHANGED <<writable, cfg, work, next, interrupted, lost, edits>>
  BY DEF SaveOpen
<1>3. cfg = Default
  BY <1>1, <1>2 DEF Starting
<1>4. TypeInv'
  <2>1. << >> \in Files
    BY DEF Files
  <2> QED
    BY <1>1, <1>2, <2>1 DEF TypeInv
<1>5. FileKept' /\ Starting'
  BY <1>1, <1>2 DEF FileKept, Starting
<1>6. Saved(w_buf', lost + 1 .. next, Default)
  <2>1. Saved(file, J, Default)
    BY <1>1, <1>2 DEF Saving
  <2>2. /\ J \in SUBSET DOMAIN Settings /\ next \in DOMAIN Settings \ J
        /\ J \cup {next} = lost + 1 .. next
    <3>1. /\ lost \in Nat /\ next \in Nat /\ lost < next /\ next <= Len(Settings)
          /\ DOMAIN Settings = 1 .. Len(Settings) /\ Len(Settings) \in Nat
      BY <1>1, <1>2, SettingFacts DEF TypeInv, Starting
    <3>2. J \in SUBSET DOMAIN Settings /\ next \in DOMAIN Settings \ J
      BY <3>1
    <3>3. \A j : j \in J \cup {next} <=> j \in lost + 1 .. next
      BY <3>1
    <3> QED
      BY <3>2, <3>3
  <2>3. Default \in [SettingSet -> STRING]
    BY ValueFacts
  <2> HIDE DEF file, J
  <2>4. LET y == Settings[next]
        IN Saved(write_profile_string(file, y.section, y.key, Default[y]),
                 J \cup {next}, Default)
    BY <2>1, <2>2, <2>3, SavingStep
  <2> QED
    BY <1>2, <1>3, <2>2, <2>4
<1>7. Saving'
  BY <1>2, <1>6 DEF Saving
<1>8. FileComplete' /\ CfgComplete' /\ CfgOfFile'
  BY <1>2 DEF FileComplete, CfgComplete, CfgOfFile
<1> QED
  BY <1>4, <1>5, <1>7, <1>8 DEF IInv

(* save_config goes on, or is done *)
Advanced ==
  /\ pc' \in {"setup", "save"} /\ next' \in 1 .. Len(Settings)
  /\ pc' = "setup" => next = Len(Settings)
  /\ pc' = "save" => next' = next + 1

LEMMA AdvanceIs ==
  ASSUME TypeInv, Advance
  PROVE  Advanced
<1>1. Len(Settings) \in Nat /\ next \in 1 .. Len(Settings)
  BY SettingFacts DEF TypeInv
<1>2. CASE next = Len(Settings)
  BY <1>1, <1>2 DEF Advance, Advanced
<1>3. CASE next # Len(Settings)
  <2>1. pc' = "save" /\ next' = next + 1
    BY <1>3 DEF Advance
  <2> QED
    BY <1>1, <1>3, <2>1 DEF Advanced
<1> QED
  BY <1>2, <1>3

LEMMA SaveWriteKeeps ==
  ASSUME IInv, SaveWrite
  PROVE  IInv'
<1>1. TypeInv /\ FileKept /\ Starting /\ Saving
  BY DEF IInv
<1>2. /\ pc = "write" /\ disk' = w_buf /\ w_buf' = << >>
      /\ UNCHANGED <<writable, cfg, work, interrupted, lost, edits>>
  BY DEF SaveWrite
<1>3. Advanced
  BY <1>1, AdvanceIs DEF SaveWrite
<1>4. /\ pc' \in {"setup", "save"} /\ next' \in 1 .. Len(Settings)
      /\ pc' = "setup" => next = Len(Settings)
      /\ pc' = "save" => next' = next + 1
  BY <1>3 DEF Advanced
<1>5. /\ Saved(disk', lost + 1 .. next, Default) /\ cfg = Default /\ writable /\ Meant
      /\ lost \in Nat /\ next \in Nat /\ lost < next /\ (~interrupted => lost = 0)
  BY <1>1, <1>2 DEF Starting, Saving, TypeInv
<1>6. disk' \in Files
  BY <1>5 DEF Saved
<1>7. disk' # Missing /\ load_ini_file(disk') = disk'
  BY <1>6, ConfigAssumption DEF Files, load_ini_file
<1>8. TypeInv'
  BY <1>1, <1>2, <1>4, <1>6 DEF TypeInv
<1>9. FileKept' /\ Starting'
  BY <1>1, <1>2, <1>4, <1>5 DEF FileKept, Starting
<1>10. Saving'
  <2>1. pc' = "save" => lost' + 1 .. next' - 1 = lost + 1 .. next
    BY <1>2, <1>4, <1>5
  <2> QED
    BY <1>4, <1>5, <1>7, <2>1 DEF Saving
<1>11. pc' = "setup" /\ ~interrupted
         => /\ Complete(disk') /\ cfg' \in [SettingSet -> Said]
            /\ ini_parse(load_ini_file(disk'), Unset) = cfg'
  <2> SUFFICES ASSUME pc' = "setup", ~interrupted
               PROVE  /\ Complete(disk') /\ cfg' \in [SettingSet -> Said]
                      /\ ini_parse(load_ini_file(disk'), Unset) = cfg'
    OBVIOUS
  <2>1. Saved(disk', DOMAIN Settings, Default)
    <3>1. lost + 1 .. next = DOMAIN Settings
      BY <1>4, <1>5, SettingFacts
    <3> QED
      BY <1>5, <3>1
  <2>2. Complete(disk')
    BY <2>1, SavedIsComplete
  <2>3. ini_parse(disk', Unset) = Default
    BY <2>1, SavedIsFound
  <2>4. cfg' = Default
    BY <1>2, <1>5
  <2> QED
    BY <1>7, <2>2, <2>3, <2>4, ValueFacts
<1>12. FileComplete'
  BY <1>2, <1>4, <1>11 DEF FileComplete
<1>13. CfgComplete'
  BY <1>2, <1>4, <1>11 DEF CfgComplete
<1>14. CfgOfFile'
  BY <1>2, <1>4, <1>11 DEF CfgOfFile
<1> QED
  BY <1>8, <1>9, <1>10, <1>12, <1>13, <1>14 DEF IInv

LEMMA DiskFullKeeps ==
  ASSUME IInv, DiskFull
  PROVE  IInv'
<1>1. TypeInv /\ FileKept /\ Starting
  BY DEF IInv
<1>2. /\ pc = "write" /\ interrupted' = TRUE /\ lost' = next
      /\ UNCHANGED <<disk, writable, cfg, work, edits>>
  BY DEF DiskFull
<1>3. Advanced
  BY <1>1, AdvanceIs DEF DiskFull
<1>4. /\ pc' \in {"setup", "save"} /\ next' \in 1 .. Len(Settings)
      /\ pc' = "save" => next' = next + 1
  BY <1>3 DEF Advanced
<1>5. TypeInv'
  <2>1. next \in 0 .. Len(Settings)
    BY <1>1 DEF TypeInv
  <2> QED
    BY <1>1, <1>2, <1>4, <2>1 DEF TypeInv
<1>6. FileKept' /\ Starting' /\ Saving'
  <2>1. next \in Nat /\ disk = << >>
    BY <1>1, <1>2 DEF TypeInv, Starting
  <2>2. load_ini_file(disk') = << >>
    BY <1>2, <2>1 DEF load_ini_file
  <2>3. pc' = "save" => lost' < next' /\ lost' + 1 .. next' - 1 = {}
    BY <1>2, <1>4, <2>1
  <2> QED
    BY <1>1, <1>2, <1>4, <2>2, <2>3, NothingSaved DEF FileKept, Starting, Saving
<1>7. FileComplete' /\ CfgComplete' /\ CfgOfFile'
  BY <1>2 DEF FileComplete, CfgComplete, CfgOfFile
<1> QED
  BY <1>5, <1>6, <1>7 DEF IInv

LEMMA SaveFailsKeeps ==
  ASSUME IInv, SaveFails
  PROVE  IInv'
<1>1. TypeInv /\ FileKept /\ Starting
  BY DEF IInv
<1>2. /\ pc = "save" /\ ~(writable /\ Meant)
      /\ UNCHANGED <<disk, writable, cfg, work, w_buf, interrupted, lost, edits>>
  BY DEF SaveFails
<1>3. Advanced
  BY <1>1, AdvanceIs DEF SaveFails
<1>4. /\ pc' \in {"setup", "save"} /\ next' \in 1 .. Len(Settings)
      /\ pc' = "save" => next' = next + 1
  BY <1>3 DEF Advanced
<1>5. cfg' = Default
  BY <1>1, <1>2 DEF Starting
<1>6. TypeInv'
  BY <1>1, <1>2, <1>4 DEF TypeInv
<1>7. FileKept' /\ Starting' /\ Saving'
  <2>1. pc' = "save" => lost' < next'
    BY <1>1, <1>2, <1>4 DEF TypeInv, Starting
  <2> QED
    BY <1>1, <1>2, <1>4, <2>1 DEF FileKept, Starting, Saving
<1>8. FileComplete'
  BY <1>1, <1>2 DEF FileComplete, FileKept
<1>9. CfgComplete'
  BY <1>5, ValueFacts DEF CfgComplete
<1>10. CfgOfFile'
  BY <1>2 DEF CfgOfFile
<1> QED
  BY <1>6, <1>7, <1>8, <1>9, <1>10 DEF IInv

(* Somebody changes the file, and leaves it its settings. *)
Changed ==
  /\ pc = "down" /\ disk # Missing /\ edits' \in 0 .. MaxEdits
  /\ UNCHANGED <<writable, cfg, work, pc, next, w_buf, interrupted, lost>>
  /\ \/ disk' = Missing
     \/ disk' \in Files /\ (Complete(disk) => Complete(disk'))

LEMMA ChangedKeeps ==
  ASSUME IInv, Changed
  PROVE  IInv'
<1>1. TypeInv /\ FileKept /\ Starting /\ FileComplete
  BY DEF IInv
<1>2. /\ pc = "down" /\ disk # Missing /\ edits' \in 0 .. MaxEdits
      /\ UNCHANGED <<writable, cfg, work, pc, next, w_buf, interrupted, lost>>
      /\ disk' = Missing \/ disk' \in Files
      /\ disk' # Missing => (Complete(disk) => Complete(disk'))
  BY DEF Changed
<1>3. TypeInv'
  BY <1>1, <1>2 DEF TypeInv
<1>4. FileKept' /\ Starting' /\ Saving'
  BY <1>1, <1>2 DEF FileKept, Starting, Saving
<1>5. FileComplete'
  BY <1>1, <1>2 DEF FileComplete
<1>6. CfgComplete' /\ CfgOfFile'
  BY <1>2 DEF CfgComplete, CfgOfFile
<1> QED
  BY <1>3, <1>4, <1>5, <1>6 DEF IInv

LEMMA EditsChange ==
  ASSUME IInv,
         \/ RemoveFile
         \/ \E line \in EditLines : AddLine(line)
         \/ \E x \in SettingSet : \E value \in Texts[x] : SetValue(x, value)
  PROVE  Changed
<1>1. TypeInv
  BY DEF IInv
<1>2. ASSUME NEW file, Edit(file)
      PROVE  /\ pc = "down" /\ disk # Missing /\ edits' \in 0 .. MaxEdits
             /\ UNCHANGED <<writable, cfg, work, pc, next, w_buf, interrupted, lost>>
             /\ disk' = file
  <2>1. edits \in 0 .. MaxEdits /\ MaxEdits \in Nat /\ FewEdits \in 0 .. MaxEdits
    BY <1>1, ConfigAssumption DEF TypeInv
  <2> QED
    BY <1>2, <2>1 DEF Edit
<1>3. CASE RemoveFile
  BY <1>2, <1>3 DEF RemoveFile, Changed
<1>4. ASSUME NEW line \in EditLines, AddLine(line)
      PROVE  Changed
  <2>1. /\ pc = "down" /\ disk # Missing /\ edits' \in 0 .. MaxEdits
        /\ UNCHANGED <<writable, cfg, work, pc, next, w_buf, interrupted, lost>>
        /\ disk' = Append(disk, line)
    BY <1>2, <1>4 DEF AddLine
  <2>2. line \in Lines /\ disk \in Files
    BY <1>1, <2>1, ConfigAssumption DEF TypeInv
  <2>3. Append(disk, line) \in Files
    BY <2>2, AppendProperties DEF Files
  <2>4. Complete(disk) => Complete(Append(disk, line))
    BY <2>2, LineKeepsComplete
  <2> QED
    BY <2>1, <2>3, <2>4 DEF Changed
<1>5. ASSUME NEW x \in SettingSet, NEW value \in Texts[x], SetValue(x, value)
      PROVE  Changed
  <2>1. PICK call \in Range(Calls(load_ini_file(disk))) :
          Edit([disk EXCEPT ![call.line].value = value])
    BY <1>5 DEF SetValue
  <2> DEFINE n == call.line
             written == [disk EXCEPT ![n].value = value]
  <2>2. /\ pc = "down" /\ disk # Missing /\ edits' \in 0 .. MaxEdits
        /\ UNCHANGED <<writable, cfg, work, pc, next, w_buf, interrupted, lost>>
        /\ disk' = written
    BY <1>2, <2>1
  <2>3. value \in STRING /\ disk \in Files
    BY <1>1, <2>2, ConfigAssumption DEF TypeInv
  <2>4. CASE n \in 1 .. Len(disk)
    <3> HIDE DEF n
    <3>1. /\ written \in Files /\ Len(written) = Len(disk)
          /\ Alike(disk, written, Len(disk))
      BY <2>3, <2>4, ValueReplaced
    <3> HIDE DEF written
    <3>2. Complete(disk) => Complete(written)
      BY <2>3, <3>1, ValueKeepsComplete
    <3> QED
      BY <2>2, <3>1, <3>2 DEF Changed
  <2>5. CASE n \notin 1 .. Len(disk)
    <3>1. DOMAIN disk = 1 .. Len(disk) /\ disk \in [DOMAIN disk -> Lines]
      BY <2>3 DEF Files
    <3> HIDE DEF n
    <3>2. written = disk
      BY <2>5, <3>1
    <3> HIDE DEF written
    <3> QED
      BY <2>2, <2>3, <3>2 DEF Changed
  <2> QED
    BY <2>4, <2>5
<1> QED
  BY <1>3, <1>4, <1>5

LEMMA StepIInv == IInv /\ [Next]_vars => IInv'
<1> SUFFICES ASSUME IInv, [Next]_vars
             PROVE  IInv'
  OBVIOUS
<1>1. CASE LoadPsuConfig
  BY <1>1, LoadKeeps
<1>2. CASE SetUp \/ ForkFails \/ Killed \/ Restart
  <2>1. UNCHANGED <<disk, writable, edits>>
    BY <1>2 DEF SetUp, ForkFails, Killed, Restart
  <2> QED
    BY <1>2, <2>1, FileUntouched
<1>3. CASE SaveOpen
  BY <1>3, SaveOpenKeeps
<1>4. CASE SaveWrite
  BY <1>4, SaveWriteKeeps
<1>5. CASE DiskFull
  BY <1>5, DiskFullKeeps
<1>6. CASE SaveFails
  BY <1>6, SaveFailsKeeps
<1>7. CASE \/ RemoveFile
           \/ \E line \in EditLines : AddLine(line)
           \/ \E x \in SettingSet : \E value \in Texts[x] : SetValue(x, value)
  BY <1>7, EditsChange, ChangedKeeps
<1>8. CASE UNCHANGED vars
  BY <1>8 DEF vars, IInv, TypeInv, FileKept, Starting, Saving, FileComplete,
     CfgComplete, CfgOfFile
<1> QED
  BY <1>1, <1>2, <1>3, <1>4, <1>5, <1>6, <1>7, <1>8 DEF Next

(* The inductive invariant of the configuration holds in every state. *)
THEOREM ConfigInvariant == Spec => []IInv
<1> QED
  BY InitIInv, StepIInv, PTL DEF Spec

-----------------------------------------------------------------------------
(* What it says of the service *)

(* A line, as the value of the entry it continues, is a string: two strings *)
(* one after the other are one (which TLAPS does not know).                 *)
JoinedAreText == \A line \in Lines : Whole(line) \in STRING

LEMMA SaidIsText ==
  ASSUME JoinedAreText
  PROVE  Said = STRING
BY DEF JoinedAreText, Said

(* Every value a setting gets, from psuservice.def or from any file, is a   *)
(* string, and save_config stays within psuservice.def (psuservice.c:19-78) *)
THEOREM ConfigTypes ==
  ASSUME JoinedAreText
  PROVE  Spec => []ConfigTypeOK
<1>1. IInv => ConfigTypeOK
  <2>1. DOMAIN Settings = 1 .. Len(Settings)
    BY SettingFacts
  <2>2. Said = STRING
    BY SaidIsText
  <2> QED
    BY <2>1, <2>2 DEF IInv, TypeInv, ConfigTypeOK, Files
<1> QED
  BY <1>1, ConfigInvariant, PTL

(* Whatever the table, as long as no name in it is a prefix of another, the *)
(* saving of one setting leaves those saved before as they were, for both   *)
(* parsers (save_config, psuservice.c:66-78).                               *)
THEOREM SavedStaySaved ==
  ASSUME Meant
  PROVE  Spec => []SavedSoFar
<1>1. ASSUME NEW file, NEW J \in SUBSET DOMAIN Settings, Saved(file, J, Default),
             cfg = Default
      PROVE  \A i \in J : Holds(file, Settings[i])
  <2> DEFINE T == Said \cup {Null}
  <2>1. ASSUME NEW i \in J
        PROVE  Holds(file, Settings[i])
    <3> DEFINE x == Settings[i]
    <3>1. Among(x, J) /\ Loadable(Unset, T)
      BY ValueFacts DEF Among, Loadable
    <3> HIDE DEF T, x
    <3>2. SettingRead(file, x) = Default[x]
      BY <1>1, <3>1, SavedIsRead
    <3>3. ini_parse(file, Unset)[x] = Default[x]
      BY <1>1, <3>1, SavedIsLoaded
    <3> QED
      BY <1>1, <3>2, <3>3 DEF SettingRead, Holds, x
  <2> QED
    BY <2>1
<1>2. IInv => SavedSoFar
  <2> SUFFICES ASSUME IInv
               PROVE  SavedSoFar
    OBVIOUS
  <2>1. /\ lost + 1 .. next - 1 \in SUBSET DOMAIN Settings
        /\ lost + 1 .. next \in SUBSET DOMAIN Settings
        /\ pc \in {"save", "write"} => cfg = Default
    BY SettingFacts DEF IInv, TypeInv, Starting
  <2>2. ASSUME pc = "save", writable
        PROVE  \A i \in lost + 1 .. next - 1 :
                 Holds(load_ini_file(disk), Settings[i])
    <3>1. Saved(load_ini_file(disk), lost + 1 .. next - 1, Default)
      BY <2>2 DEF IInv, Saving
    <3> QED
      BY <1>1, <2>1, <2>2, <3>1
  <2>3. ASSUME pc = "write"
        PROVE  \A i \in lost + 1 .. next : Holds(w_buf, Settings[i])
    <3>1. Saved(w_buf, lost + 1 .. next, Default)
      BY <2>3 DEF IInv, Saving
    <3> QED
      BY <1>1, <2>1, <2>3, <3>1
  <2> QED
    BY <2>2, <2>3 DEF SavedSoFar
<1> QED
  BY <1>2, ConfigInvariant, PTL

(* A service that has started, and whose first start was not cut short, has *)
(* every setting of psuservice.def, whatever has been added to the file or  *)
(* changed in it since (LoadPsuConfig, psuservice.c:19-64).                 *)
THEOREM SettingsStayComplete ==
  ASSUME JoinedAreText
  PROVE  Spec => []SettingsComplete
<1>1. IInv => SettingsComplete
  BY SaidIsText, ConfigAssumption DEF IInv, CfgComplete, SettingsComplete
<1> QED
  BY <1>1, ConfigInvariant, PTL

(* What write_profile_string writes read_profile_string reads back, in      *)
(* every file there may be (ini.c:327-373, 406-478).                        *)
THEOREM WritesAreRead == Spec => []ReadBack
<1>1. IInv => ReadBack
  <2> SUFFICES ASSUME IInv, Settled, NEW x \in SettingSet, NEW value \in Values
               PROVE  read_profile_string(Written(x, value), x.section, x.key,
                                          Null) = value
    BY DEF ReadBack
  <2>1. disk \in Files /\ value \in STRING
    BY ConfigAssumption DEF IInv, TypeInv, Settled
  <2>2. x.section \in STRING /\ x.key \in STRING /\ Findable(x.section, x.key)
    BY NameFacts
  <2> DEFINE s == x.section
             k == x.key
  <2> HIDE DEF s, k
  <2>3. read_profile_string(write_profile_string(disk, s, k, value), s, k, Null)
          = value
    BY <2>1, <2>2, WrittenIsRead DEF s, k
  <2> QED
    BY <2>3 DEF Written, s, k
<1> QED
  BY <1>1, ConfigInvariant, PTL

(* A service that runs has the settings of the file its command line names, *)
(* unless it could not save them, whatever was edited and whenever it was   *)
(* killed before (main, psuservice.c:500-557).                              *)
THEOREM RunsOnItsFile ==
  ASSUME Meant
  PROVE  Spec => []RunsOnFile
<1>1. IInv => RunsOnFile
  BY DEF IInv, CfgOfFile, RunsOnFile
<1> QED
  BY <1>1, ConfigInvariant, PTL

-----------------------------------------------------------------------------
(* What a single line does: to the section and the name the parser is at,   *)
(* and to what is found.                                                    *)

(* it is taken by itself, and does not continue an entry                    *)
Alone(st, line) == ~(line.indent /\ st.prev_name # "")
Calling(st, line) ==
  /\ line.kind \notin {"note", "blank"}
  /\ Alone(st, line) => line.kind \in {"entry", "loose"}
LineCall(st, n, line) ==
  IF Alone(st, line) THEN EntryCall(st, n, line)
                     ELSE ContinuationCall(st, n, line)

LineDoes(st, n, line, new) ==
  /\ new.section = IF line.kind = "header" /\ Alone(st, line)
                     THEN line.name ELSE st.section
  /\ new.prev_name = IF line.kind = "header" /\ Alone(st, line) THEN ""
                     ELSE IF line.kind \in {"entry", "loose"} /\ Alone(st, line)
                       THEN line.name ELSE st.prev_name
  /\ new.calls = IF Calling(st, line)
                   THEN Append(st.calls, LineCall(st, n, line)) ELSE st.calls

LEMMA LineIs ==
  ASSUME NEW st \in States, NEW n \in Nat, NEW line \in Lines
  PROVE  LineDoes(st, n, line, AtLine(st, n, line))
<1> DEFINE new == AtLine(st, n, line)
<1>1. /\ line.kind \in {"header", "entry", "loose", "text", "note", "blank"}
      /\ line.indent \in BOOLEAN
  BY DEF Lines
<1>2. CASE line.kind \in {"note", "blank"}
  <2>1. new = st
    BY <1>2, AtLineCases
  <2>2. ~Calling(st, line)
    BY <1>2 DEF Calling
  <2> QED
    BY <1>2, <2>1, <2>2 DEF LineDoes
<1>3. CASE line.kind \notin {"note", "blank"} /\ ~Alone(st, line)
  <2>1. new = AtContinuation(st, n, line)
    BY <1>3, AtLineCases DEF Alone
  <2> HIDE DEF new
  <2>2. /\ new.section = st.section /\ new.prev_name = st.prev_name
        /\ new.calls = Append(st.calls, ContinuationCall(st, n, line))
    BY <2>1, AtContinuationIs
  <2>3. Calling(st, line) /\ LineCall(st, n, line) = ContinuationCall(st, n, line)
    BY <1>3 DEF Calling, LineCall
  <2>4. LineDoes(st, n, line, new)
    BY <1>3, <2>2, <2>3 DEF LineDoes
  <2> QED
    BY <2>4 DEF new
<1>4. CASE line.kind = "header" /\ Alone(st, line)
  <2>1. new = AtHeader(st, line)
    BY <1>4, AtLineCases DEF Alone
  <2> HIDE DEF new
  <2>2. /\ new.section = line.name /\ new.prev_name = "" /\ new.calls = st.calls
    BY <2>1, AtHeaderIs
  <2>3. ~Calling(st, line)
    BY <1>4 DEF Calling
  <2>4. LineDoes(st, n, line, new)
    BY <1>4, <2>2, <2>3 DEF LineDoes
  <2> QED
    BY <2>4 DEF new
<1>5. CASE line.kind \in {"entry", "loose"} /\ Alone(st, line)
  <2>1. new = AtEntry(st, n, line)
    BY <1>5, AtLineCases DEF Alone
  <2> HIDE DEF new
  <2>2. /\ new.section = st.section /\ new.prev_name = line.name
        /\ new.calls = Append(st.calls, EntryCall(st, n, line))
    BY <2>1, AtEntryIs
  <2>3. Calling(st, line) /\ LineCall(st, n, line) = EntryCall(st, n, line)
    BY <1>5 DEF Calling, LineCall
  <2>4. LineDoes(st, n, line, new)
    BY <1>5, <2>2, <2>3 DEF LineDoes
  <2> QED
    BY <2>4 DEF new
<1>6. CASE line.kind = "text" /\ Alone(st, line)
  <2>1. new = st
    BY <1>6, AtLineCases DEF Alone
  <2>2. ~Calling(st, line)
    BY <1>6 DEF Calling
  <2> QED
    BY <1>6, <2>1, <2>2 DEF LineDoes
<1> QED
  BY <1>1, <1>2, <1>3, <1>4, <1>5, <1>6

(* Two lines that are both part of an entry or both not do the same.        *)
Together(st, line, other, l) ==
  \/ line.kind \in {"note", "blank"}
  \/ st.prev_name = other.prev_name /\ line.indent = l.indent
  \/ Alone(st, line) /\ Alone(other, l)

DoesTheSame(st, n, line, other, k, l) ==
  /\ Calling(st, line) <=> Calling(other, l)
  /\ Calling(st, line) =>
       /\ SameName(LineCall(st, n, line), LineCall(other, k, l))
       /\ line.value = l.value =>
            LineCall(st, n, line).value = LineCall(other, k, l).value

LEMMA SameEffect ==
  ASSUME NEW st, NEW other, st.section = other.section,
         NEW n, NEW k, NEW line \in Lines, NEW l \in Lines,
         line.kind = l.kind, line.name = l.name, Together(st, line, other, l)
  PROVE  DoesTheSame(st, n, line, other, k, l)
<1>1. CASE line.kind \in {"note", "blank"}
  BY <1>1 DEF Calling, DoesTheSame
<1>2. CASE line.kind \notin {"note", "blank"} /\ Alone(st, line) /\ Alone(other, l)
  <2>1. Calling(st, line) <=> Calling(other, l)
    BY <1>2 DEF Calling
  <2>2. /\ LineCall(st, n, line) = EntryCall(st, n, line)
        /\ LineCall(other, k, l) = EntryCall(other, k, l)
    BY <1>2 DEF LineCall
  <2> QED
    BY <2>1, <2>2 DEF DoesTheSame, EntryCall, SameName
<1>3. CASE line.kind \notin {"note", "blank"} /\ ~Alone(st, line) /\ ~Alone(other, l)
           /\ st.prev_name = other.prev_name
  <2>1. Calling(st, line) /\ Calling(other, l)
    BY <1>3 DEF Calling
  <2>2. /\ LineCall(st, n, line) = ContinuationCall(st, n, line)
        /\ LineCall(other, k, l) = ContinuationCall(other, k, l)
    BY <1>3 DEF LineCall
  <2>3. line.value = l.value => Whole(line) = Whole(l)
    BY DEF Whole
  <2> QED
    BY <1>3, <2>1, <2>2, <2>3 DEF DoesTheSame, ContinuationCall, SameName
<1>4. line.kind \notin {"note", "blank"} =>
         \/ Alone(st, line) /\ Alone(other, l)
         \/ ~Alone(st, line) /\ ~Alone(other, l) /\ st.prev_name = other.prev_name
  BY DEF Together, Alone
<1> QED
  BY <1>1, <1>2, <1>3, <1>4

Resumed(st, other, line, new, o) ==
  /\ new.section = o.section
  /\ \/ new.prev_name = o.prev_name
     \/ /\ new.prev_name = st.prev_name /\ o.prev_name = other.prev_name
        /\ line.kind # "header"

LEMMA SameState ==
  ASSUME NEW st \in States, NEW other \in States, st.section = other.section,
         NEW n \in Nat, NEW k \in Nat, NEW line \in Lines, NEW l \in Lines,
         line.kind = l.kind, line.name = l.name, Together(st, line, other, l)
  PROVE  Resumed(st, other, line, AtLine(st, n, line), AtLine(other, k, l))
<1> DEFINE new == AtLine(st, n, line)
           o == AtLine(other, k, l)
<1>1. LineDoes(st, n, line, new) /\ LineDoes(other, k, l, o)
  BY LineIs
<1> HIDE DEF new, o
<1>2. line.kind \notin {"note", "blank"} =>
         \/ Alone(st, line) /\ Alone(other, l)
         \/ ~Alone(st, line) /\ ~Alone(other, l) /\ st.prev_name = other.prev_name
  BY DEF Together, Alone
<1>3. Resumed(st, other, line, new, o)
  BY <1>1, <1>2 DEF LineDoes, Resumed
<1> QED
  BY <1>3 DEF new, o

-----------------------------------------------------------------------------
(* What is found after m lines *)

OneMore(calls, call, old) ==
  Handled(Append(calls, call), old) = handler(Handled(calls, old), call)

LEMMA HandledAppend ==
  ASSUME NEW calls \in Seq(HandlerCalls), NEW call \in HandlerCalls,
         NEW X, SomeNames(X), NEW T, Said \subseteq T, NEW old \in [X -> T]
  PROVE  OneMore(calls, call, old)
<1> DEFINE more == Append(calls, call)
           L == Len(calls)
<1>1. /\ L \in Nat /\ more \in Seq(HandlerCalls) /\ Len(more) = L + 1
      /\ more[L + 1] = call /\ \A i \in 1 .. L : more[i] = calls[i]
  BY AppendProperties
<1>2. PICK run : Handles(calls, X, T, old, run) /\ Handled(calls, old) = run[L]
  BY HandledRuns
<1> HIDE DEF more
<1>3. PICK r : Handles(more, X, T, old, r) /\ Handled(more, old) = r[Len(more)]
  BY <1>1, HandledRuns
<1>4. /\ run[0] = old /\ r[0] = old
      /\ \A n \in 1 .. L : run[n] = handler(run[n - 1], calls[n])
      /\ \A n \in 1 .. L + 1 : r[n] = handler(r[n - 1], more[n])
  BY <1>1, <1>2, <1>3 DEF Handles
<1> HIDE DEF L
<1> DEFINE S == {n \in 0 .. L : r[n] = run[n]}
<1>5. 0 \in S
  BY <1>1, <1>4
<1>6. ASSUME NEW n \in 1 .. L, n - 1 \in S
      PROVE  n \in S
  <2>1. n \in 1 .. L + 1 /\ n \in 0 .. L
    BY <1>1
  <2> QED
    BY <1>1, <1>4, <1>6, <2>1
<1> HIDE DEF S
<1>7. \A n \in 0 .. L : n \in S
  <2>1. \A n \in 1 .. L : n - 1 \in S => n \in S
    BY <1>6
  <2> QED
    BY <1>1, <1>5, <2>1, LoopInduction
<1>8. r[L] = run[L]
  BY <1>1, <1>7 DEF S
<1>9. r[L + 1] = handler(r[L], call)
  <2>1. L + 1 \in 1 .. L + 1 /\ (L + 1) - 1 = L
    BY <1>1
  <2> QED
    BY <1>1, <1>4, <2>1
<1> QED
  BY <1>1, <1>2, <1>3, <1>8, <1>9 DEF more, L, OneMore

(* line m of the file is about y, and what it says of it *)
IsAbout(file, m, y) ==
  /\ Calling(Scan(file, m - 1), file[m])
  /\ SameName(LineCall(Scan(file, m - 1), m, file[m]), y)
Told(file, m) == LineCall(Scan(file, m - 1), m, file[m]).value
FoundAt(file, m, old) == Handled(Scan(file, m).calls, old)
Tables(X, T, old) == SomeNames(X) /\ Said \subseteq T /\ old \in [X -> T]

LEMMA FoundSteps ==
  ASSUME NEW file \in Files, NEW X, NEW T, NEW old, Tables(X, T, old)
  PROVE  /\ FoundAt(file, 0, old) = old
         /\ \A m \in 0 .. Len(file) : FoundAt(file, m, old) \in [X -> T]
         /\ \A m \in 1 .. Len(file), y \in X :
              FoundAt(file, m, old)[y] =
                IF IsAbout(file, m, y) THEN Told(file, m)
                                       ELSE FoundAt(file, m - 1, old)[y]
<1>0. SomeNames(X) /\ Said \subseteq T /\ old \in [X -> T] /\ Len(file) \in Nat
  BY FileFacts DEF Tables
<1>1. ASSUME NEW m \in 0 .. Len(file)
      PROVE  /\ Scan(file, m) \in States /\ Scan(file, m).calls \in Seq(HandlerCalls)
             /\ FoundAt(file, m, old) \in [X -> T]
  <2>1. Scan(file, m) \in States
    BY ScanSteps
  <2>2. Scan(file, m).calls \in Seq(HandlerCalls)
    BY <2>1 DEF States
  <2> QED
    BY <1>0, <2>1, <2>2, HandledIs DEF FoundAt
<1>2. FoundAt(file, 0, old) = old
  <2>1. Scan(file, 0).calls = << >>
    <3>1. Scan(file, 0) = AtStart /\ AtStart.calls = << >>
      BY ScanSteps DEF AtStart
    <3> QED
      BY <3>1, Zenon
  <2>2. << >> \in Seq(HandlerCalls) /\ Len(<< >>) = 0
    OBVIOUS
  <2>3. PICK run : Handles(<< >>, X, T, old, run) /\ Handled(<< >>, old) = run[Len(<< >>)]
    BY <1>0, <2>2, HandledRuns
  <2> QED
    BY <2>1, <2>2, <2>3 DEF Handles, FoundAt
<1>3. ASSUME NEW m \in 1 .. Len(file), NEW y \in X
      PROVE  FoundAt(file, m, old)[y] =
                IF IsAbout(file, m, y) THEN Told(file, m)
                                       ELSE FoundAt(file, m - 1, old)[y]
  <2> DEFINE st == Scan(file, m - 1)
             line == file[m]
             call == LineCall(st, m, line)
             found == FoundAt(file, m - 1, old)
  <2>1. m \in Nat /\ m - 1 \in 0 .. Len(file)
    BY <1>0
  <2>2. /\ st \in States /\ st.calls \in Seq(HandlerCalls) /\ found \in [X -> T]
        /\ found = Handled(st.calls, old)
    BY <1>1, <2>1 DEF FoundAt
  <2>3. line \in Lines
    BY LineFields
  <2>4. Scan(file, m) = AtLine(st, m, line)
    BY ScanSteps
  <2>5. LineDoes(st, m, line, AtLine(st, m, line))
    <3> HIDE DEF st, line
    <3> QED
      BY <2>1, <2>2, <2>3, LineIs
  <2>6. Scan(file, m).calls = IF Calling(st, line) THEN Append(st.calls, call)
                                                   ELSE st.calls
    BY <2>4, <2>5 DEF LineDoes
  <2>7. call \in HandlerCalls
    <3> HIDE DEF st, line
    <3> QED
      BY <2>1, <2>2, <2>3, CallTypes DEF LineCall
  <2>8. call.value \in T
    BY <1>0, <2>7 DEF HandlerCalls
  <2>9. /\ IsAbout(file, m, y) <=> Calling(st, line) /\ SameName(call, y)
        /\ Told(file, m) = call.value
    BY DEF IsAbout, Told
  <2> HIDE DEF st, line, call, found
  <2>10. CASE ~Calling(st, line)
    BY <2>2, <2>6, <2>9, <2>10 DEF FoundAt, found
  <2>11. CASE Calling(st, line)
    <3>1. FoundAt(file, m, old) = handler(found, call)
      <4> DEFINE calls == st.calls
      <4>1. /\ calls \in Seq(HandlerCalls) /\ found = Handled(calls, old)
            /\ Scan(file, m).calls = Append(calls, call)
        BY <2>2, <2>6, <2>11
      <4> HIDE DEF calls
      <4>2. Handled(Append(calls, call), old) = handler(Handled(calls, old), call)
        <5>1. calls \in Seq(HandlerCalls)
          BY <4>1
        <5>2. call \in HandlerCalls
          BY <2>7
        <5>3. OneMore(calls, call, old)
          BY <1>0, <5>1, <5>2, HandledAppend
        <5> QED
          BY <5>3 DEF OneMore
      <4> QED
        BY <4>1, <4>2, Zenon DEF FoundAt
    <3>2. Put(found, call, X)
      BY <1>0, <2>2, <2>7, <2>8, HandlerIs
    <3> QED
      BY <2>9, <2>11, <3>1, <3>2 DEF Put, SameName, found
  <2> QED
    BY <2>10, <2>11
<1> QED
  BY <1>1, <1>2, <1>3

-----------------------------------------------------------------------------
(* Where the parser is: two files that begin with the same lines, a file    *)
(* that is not misread, and the place right after a header.                 *)

LEMMA SamePrefix ==
  ASSUME NEW file \in Files, NEW written \in Files, NEW n \in Nat,
         n <= Len(file), n <= Len(written),
         \A j \in 1 .. n : written[j] = file[j]
  PROVE  \A m \in 0 .. n : Scan(written, m) = Scan(file, m)
<1> DEFINE S == {m \in 0 .. n : Scan(written, m) = Scan(file, m)}
<1>1. Len(file) \in Nat /\ Len(written) \in Nat
  BY FileFacts
<1>2. 0 \in S
  BY ScanSteps
<1>3. ASSUME NEW m \in 1 .. n, m - 1 \in S
      PROVE  m \in S
  <2>1. m \in 1 .. Len(file) /\ m \in 1 .. Len(written) /\ m \in 0 .. n
    BY <1>1
  <2>2. /\ Scan(file, m) = AtLine(Scan(file, m - 1), m, file[m])
        /\ Scan(written, m) = AtLine(Scan(written, m - 1), m, written[m])
    BY <2>1, ScanSteps
  <2>3. written[m] = file[m] /\ Scan(written, m - 1) = Scan(file, m - 1)
    BY <1>3
  <2> QED
    BY <2>1, <2>2, <2>3
<1> HIDE DEF S
<1>4. \A m \in 0 .. n : m \in S
  <2>1. \A m \in 1 .. n : m - 1 \in S => m \in S
    BY <1>3
  <2> QED
    BY <1>2, <2>1, LoopInduction
<1> QED
  BY <1>4 DEF S

StateFrom(file, m) ==
  /\ Scan(file, m - 1) \in States /\ Scan(file, m) \in States
  /\ file[m] \in Lines /\ m \in Nat
  /\ Scan(file, m) = AtLine(Scan(file, m - 1), m, file[m])
  /\ LineDoes(Scan(file, m - 1), m, file[m], Scan(file, m))

LEMMA StateIs ==
  ASSUME NEW file \in Files, NEW m \in 1 .. Len(file)
  PROVE  StateFrom(file, m)
<1> DEFINE st == Scan(file, m - 1)
           line == file[m]
<1>1. m \in Nat /\ m - 1 \in 0 .. Len(file) /\ m \in 0 .. Len(file)
  BY FileFacts
<1>2. st \in States /\ Scan(file, m) \in States
  BY <1>1, ScanSteps
<1>3. line \in Lines
  BY LineFields
<1>4. Scan(file, m) = AtLine(st, m, line)
  BY ScanSteps
<1>5. LineDoes(st, m, line, AtLine(st, m, line))
  <2> HIDE DEF st, line
  <2> QED
    BY <1>1, <1>2, <1>3, LineIs
<1> QED
  BY <1>1, <1>2, <1>3, <1>4, <1>5 DEF StateFrom

MisreadAt(file, i) ==
  /\ file[i].kind \in {"header", "entry", "loose", "text"}
  /\ file[i].indent /\ Scan(file, i - 1).prev_name = ""
  /\ file[i].kind = "header" \/ i # LineAfter(file, HeaderOf(file, i))

LEMMA MisreadIs ==
  ASSUME NEW file \in Files, ~Misread(file)
  PROVE  \A i \in 1 .. Len(file) : ~MisreadAt(file, i)
<1>1. DOMAIN file = 1 .. Len(file)
  BY FileFacts
<1>2. ASSUME NEW i \in 1 .. Len(file), MisreadAt(file, i)
      PROVE  Misread(file)
  <2>1. i \in Of(file, {"header", "entry", "loose", "text"})
    BY <1>1, <1>2 DEF Of, MisreadAt
  <2> QED
    BY <1>2, <2>1, Zenon DEF Misread, MisreadAt, HeaderOf
<1> QED
  BY <1>2

(* A file that is not misread: the section is that of the header above, an  *)
(* indented header is part of an entry.                                     *)
LEMMA SectionScanned ==
  ASSUME NEW file \in Files, ~Misread(file)
  PROVE  \A m \in 0 .. Len(file) :
            Scan(file, m).section = SectionOf(file, m + 1)
<1> DEFINE L == Len(file)
           S == {m \in 0 .. L : Scan(file, m).section = SectionOf(file, m + 1)}
<1>1. L \in Nat
  BY FileFacts
<1>2. 0 \in S
  <2>1. HeaderOf(file, 1) = 0
    <3>1. \A j \in FileHeaders(file) : ~(j < 1)
      BY FileFacts
    <3> QED
      BY <3>1, NoHeaderOf
  <2>2. Scan(file, 0) = AtStart /\ AtStart.section = ""
    BY ScanSteps DEF AtStart
  <2>3. Scan(file, 0).section = ""
    BY <2>2, Zenon
  <2>4. SectionOf(file, 1) = ""
    BY <2>1 DEF SectionOf
  <2>5. 0 + 1 = 1 /\ 0 \in 0 .. L
    BY <1>1
  <2>6. Scan(file, 0).section = SectionOf(file, 0 + 1)
    BY <2>3, <2>4, <2>5
  <2> QED
    BY <2>5, <2>6
<1>3. ASSUME NEW m \in 1 .. L, m - 1 \in S
      PROVE  m \in S
  <2> DEFINE st == Scan(file, m - 1)
             line == file[m]
             new == Scan(file, m)
  <2>1. m \in 1 .. Len(file) /\ m \in Nat /\ m >= 1 /\ (m - 1) + 1 = m /\ m \in 0 .. L
    BY <1>1
  <2>2. st.section = SectionOf(file, m)
    BY <1>3, <2>1
  <2>3. new.section = IF line.kind = "header" /\ Alone(st, line)
                        THEN line.name ELSE st.section
    BY <2>1, StateIs DEF StateFrom, LineDoes
  <2>4. m \in FileHeaders(file) <=> line.kind = "header" /\ ~line.indent
    BY <2>1, FileFacts
  <2>5. line.kind = "header" /\ line.indent => ~Alone(st, line)
    <3>1. ~MisreadAt(file, m)
      BY <2>1, MisreadIs
    <3> QED
      BY <3>1 DEF MisreadAt, Alone
  <2>6. ~line.indent => Alone(st, line)
    BY DEF Alone
  <2> HIDE DEF st, line, new
  <2>7. new.section = SectionOf(file, m + 1)
    <3>1. CASE m \in FileHeaders(file)
      <4>1. HeaderOf(file, m + 1) = m /\ m # 0
        BY <2>1, <3>1, HeaderOfNext
      <4>2. SectionOf(file, m + 1) = line.name
        BY <4>1 DEF SectionOf, line
      <4> QED
        BY <2>3, <2>4, <2>6, <3>1, <4>2
    <3>2. CASE m \notin FileHeaders(file)
      <4>1. HeaderOf(file, m + 1) = HeaderOf(file, m)
        BY <2>1, <3>2, HeaderOfNext
      <4>2. SectionOf(file, m + 1) = st.section
        BY <2>2, <4>1 DEF SectionOf
      <4> QED
        BY <2>3, <2>4, <2>5, <3>2, <4>2
    <3> QED
      BY <3>1, <3>2
  <2> QED
    BY <2>1, <2>7 DEF new
<1> HIDE DEF S
<1>4. \A m \in 0 .. L : m \in S
  <2>1. \A m \in 1 .. L : m - 1 \in S => m \in S
    BY <1>3
  <2> HIDE DEF L
  <2> QED
    BY <1>1, <1>2, <2>1, LoopInduction
<1> QED
  BY <1>4 DEF S

(* Right after a header, and the blank lines that follow it, nothing is     *)
(* there to be continued.                                                   *)
AfterHeader(file, h, m) ==
  Scan(file, m).section = file[h].name /\ Scan(file, m).prev_name = ""

LEMMA AfterHeaderIs ==
  ASSUME NEW file \in Files, NEW h \in FileHeaders(file)
  PROVE  \A m \in h .. LineAfter(file, h) - 1 : AfterHeader(file, h, m)
<1> DEFINE n == LineAfter(file, h) - 1 - h
           S == {k \in 0 .. n : AfterHeader(file, h, h + k)}
<1>1. /\ h \in 1 .. Len(file) /\ Len(file) \in Nat
      /\ file[h].kind = "header" /\ ~file[h].indent
  BY FileFacts
<1>2. /\ LineAfter(file, h) \in h + 1 .. Len(file) + 1
      /\ \A i \in h + 1 .. LineAfter(file, h) - 1 : file[i].kind = "blank"
  BY <1>1, LineAfterIs
<1>3. n \in Nat /\ h + n <= Len(file) /\ h \in Nat
  BY <1>1, <1>2
<1>4. 0 \in S
  <2>1. LineDoes(Scan(file, h - 1), h, file[h], Scan(file, h))
    BY <1>1, StateIs DEF StateFrom
  <2>2. Alone(Scan(file, h - 1), file[h])
    BY <1>1 DEF Alone
  <2>3. AfterHeader(file, h, h)
    BY <1>1, <2>1, <2>2 DEF LineDoes, AfterHeader
  <2> QED
    BY <1>3, <2>3
<1>5. ASSUME NEW k \in 1 .. n, k - 1 \in S
      PROVE  k \in S
  <2> DEFINE i == h + k
  <2>1. /\ i \in 1 .. Len(file) /\ i \in h + 1 .. LineAfter(file, h) - 1
        /\ i - 1 = h + (k - 1) /\ k \in 0 .. n
    BY <1>2, <1>3
  <2>2. file[i].kind = "blank"
    BY <1>2, <2>1
  <2>3. AfterHeader(file, h, i - 1)
    BY <1>5, <2>1
  <2> HIDE DEF i
  <2>4. LineDoes(Scan(file, i - 1), i, file[i], Scan(file, i))
    BY <2>1, StateIs DEF StateFrom
  <2>5. AfterHeader(file, h, i)
    BY <2>2, <2>3, <2>4 DEF LineDoes, AfterHeader
  <2> QED
    BY <2>1, <2>5 DEF i
<1> HIDE DEF S
<1>6. \A k \in 0 .. n : k \in S
  <2>1. \A k \in 1 .. n : k - 1 \in S => k \in S
    BY <1>5
  <2> HIDE DEF n
  <2> QED
    BY <1>3, <1>4, <2>1, LoopInduction
<1>7. ASSUME NEW m \in h .. LineAfter(file, h) - 1
      PROVE  AfterHeader(file, h, m)
  <2>1. m - h \in 0 .. n /\ h + (m - h) = m
    BY <1>1, <1>2
  <2> QED
    BY <1>6, <2>1 DEF S
<1> QED
  BY <1>7

-----------------------------------------------------------------------------
(* Two files whose last lines say the same.                                 *)

SameWords(file, m, written, k) ==
  \A y : /\ IsAbout(file, m, y) <=> IsAbout(written, k, y)
         /\ IsAbout(file, m, y) => Told(file, m) = Told(written, k)

LEMMA SameWordsIs ==
  ASSUME NEW file \in Files, NEW m \in 1 .. Len(file),
         NEW written \in Files, NEW k \in 1 .. Len(written),
         Scan(file, m - 1).section = Scan(written, k - 1).section,
         file[m].kind = written[k].kind, file[m].name = written[k].name,
         file[m].value = written[k].value,
         Together(Scan(file, m - 1), file[m], Scan(written, k - 1), written[k])
  PROVE  SameWords(file, m, written, k)
<1> DEFINE st == Scan(file, m - 1)
           other == Scan(written, k - 1)
           line == file[m]
           l == written[k]
<1>1. line \in Lines /\ l \in Lines
  BY LineFields
<1>2. /\ st.section = other.section /\ line.kind = l.kind
      /\ line.name = l.name /\ line.value = l.value
      /\ Together(st, line, other, l)
  OBVIOUS
<1>3. /\ \A y : IsAbout(file, m, y) <=>
                  Calling(st, line) /\ SameName(LineCall(st, m, line), y)
      /\ \A y : IsAbout(written, k, y) <=>
                  Calling(other, l) /\ SameName(LineCall(other, k, l), y)
      /\ Told(file, m) = LineCall(st, m, line).value
      /\ Told(written, k) = LineCall(other, k, l).value
  BY DEF IsAbout, Told
<1> HIDE DEF st, other, line, l
<1>4. DoesTheSame(st, m, line, other, k, l)
  BY <1>1, <1>2, SameEffect
<1> QED
  BY <1>2, <1>3, <1>4 DEF DoesTheSame, SameName, SameWords

(* what is found is the same but for x, which is value                      *)
Local(V, W, X, x) == \A y \in X : y # x => W[y] = V[y]
Taken(W, X, x, value) == x \in X => W[x] = value
Either(V, W, X, x, value) == x \in X => W[x] \in {value, V[x]}

(* no line of file from q on is about x                                     *)
Silent(file, q, x) == \A m \in q .. Len(file) : ~IsAbout(file, m, x)

LEMMA TailKept ==
  ASSUME NEW file \in Files, NEW written \in Files,
         NEW q \in 0 .. Len(file), NEW r \in 0 .. Len(written),
         Len(file) - q = Len(written) - r,
         \A m \in 1 .. Len(file) - q : SameWords(file, q + m, written, r + m),
         NEW X, NEW T, NEW old, Tables(X, T, old), NEW x, NEW value,
         Local(FoundAt(file, q, old), FoundAt(written, r, old), X, x),
         Taken(FoundAt(written, r, old), X, x, value)
  PROVE  /\ Local(FoundAt(file, Len(file), old),
                  FoundAt(written, Len(written), old), X, x)
         /\ Either(FoundAt(file, Len(file), old),
                   FoundAt(written, Len(written), old), X, x, value)
         /\ Silent(file, q + 1, x) =>
              Taken(FoundAt(written, Len(written), old), X, x, value)
<1> DEFINE n == Len(file) - q
           V(m) == FoundAt(file, q + m, old)
           W(m) == FoundAt(written, r + m, old)
           S == {m \in 0 .. n :
                   /\ Local(V(m), W(m), X, x) /\ Either(V(m), W(m), X, x, value)
                   /\ Silent(file, q + 1, x) => Taken(W(m), X, x, value)}
<1>1. /\ Len(file) \in Nat /\ Len(written) \in Nat /\ n \in Nat
      /\ q + n = Len(file) /\ r + n = Len(written) /\ q + 0 = q /\ r + 0 = r
      /\ q \in Nat /\ r \in Nat
  BY FileFacts
<1>2. 0 \in S
  <2>1. Either(FoundAt(file, q, old), FoundAt(written, r, old), X, x, value)
    BY DEF Taken, Either
  <2> QED
    BY <1>1, <2>1
<1>3. ASSUME NEW m \in 1 .. n, m - 1 \in S
      PROVE  m \in S
  <2> DEFINE a == q + m
             b == r + m
  <2>1. /\ a \in 1 .. Len(file) /\ b \in 1 .. Len(written)
        /\ a \in q + 1 .. Len(file) /\ m \in 0 .. n
        /\ q + (m - 1) = a - 1 /\ r + (m - 1) = b - 1
    BY <1>1
  <2>2. SameWords(file, a, written, b)
    OBVIOUS
  <2>3. /\ Local(FoundAt(file, a - 1, old), FoundAt(written, b - 1, old), X, x)
        /\ Either(FoundAt(file, a - 1, old), FoundAt(written, b - 1, old),
                  X, x, value)
        /\ Silent(file, q + 1, x) =>
             Taken(FoundAt(written, b - 1, old), X, x, value)
    BY <1>3, <2>1
  <2> HIDE DEF a, b
  <2>4. \A y \in X :
          /\ FoundAt(file, a, old)[y] =
               IF IsAbout(file, a, y) THEN Told(file, a)
                                      ELSE FoundAt(file, a - 1, old)[y]
          /\ FoundAt(written, b, old)[y] =
               IF IsAbout(written, b, y) THEN Told(written, b)
                                         ELSE FoundAt(written, b - 1, old)[y]
    BY <2>1, FoundSteps
  <2>5. Local(FoundAt(file, a, old), FoundAt(written, b, old), X, x)
    BY <2>2, <2>3, <2>4 DEF Local, SameWords
  <2>6. Silent(file, q + 1, x) => Taken(FoundAt(written, b, old), X, x, value)
    BY <2>1, <2>2, <2>3, <2>4 DEF Taken, Silent, SameWords
  <2>7. Either(FoundAt(file, a, old), FoundAt(written, b, old), X, x, value)
    BY <2>2, <2>3, <2>4 DEF Either, SameWords
  <2> QED
    BY <2>1, <2>5, <2>6, <2>7 DEF a, b
<1> HIDE DEF S
<1>4. \A m \in 0 .. n : m \in S
  <2>1. \A m \in 1 .. n : m - 1 \in S => m \in S
    BY <1>3
  <2> HIDE DEF n
  <2> QED
    BY <1>1, <1>2, <2>1, LoopInduction
<1>5. n \in S
  BY <1>1, <1>4
<1> QED
  BY <1>1, <1>5 DEF S

-----------------------------------------------------------------------------
(* The value of an entry is replaced *)

(* x is a name no name in the file is a proper prefix of                    *)
Named(x) == x \in [section : STRING, key : STRING]
Clear(file, x) ==
  \A i \in 1 .. Len(file) :
     /\ file[i].kind = "header" => ~IsStrictPrefix(file[i].name, x.section)
     /\ file[i].kind = "entry" => ~IsStrictPrefix(file[i].name, x.key)

(* line i is the entry of x, and ini_parse takes it as such                 *)
SaysOf(file, i, x) ==
  /\ Scan(file, i - 1).section = x.section /\ Alone(Scan(file, i - 1), file[i])
  /\ file[i].kind = "entry" /\ file[i].name = x.key

LEMMA SaysOfIs ==
  ASSUME NEW file, NEW i, NEW x, Named(x), SaysOf(file, i, x)
  PROVE  /\ \A y : Named(y) => (IsAbout(file, i, y) <=> y = x)
         /\ Told(file, i) = file[i].value
<1> DEFINE st == Scan(file, i - 1)
           line == file[i]
<1>1. /\ st.section = x.section /\ Alone(st, line) /\ line.kind = "entry"
      /\ line.name = x.key
  BY DEF SaysOf
<1>2. /\ \A y : IsAbout(file, i, y) <=>
                  Calling(st, line) /\ SameName(LineCall(st, i, line), y)
      /\ Told(file, i) = LineCall(st, i, line).value
  BY DEF IsAbout, Told
<1> HIDE DEF st, line
<1>3. Calling(st, line) /\ LineCall(st, i, line) = EntryCall(st, i, line)
  BY <1>1 DEF Calling, LineCall
<1>4. /\ EntryCall(st, i, line).section = x.section
      /\ EntryCall(st, i, line).key = x.key
      /\ EntryCall(st, i, line).value = line.value
  BY <1>1 DEF EntryCall
<1>5. \A y : Named(y) => (y = x <=> x.section = y.section /\ x.key = y.key)
  BY DEF Named
<1>6. \A y : Named(y) => (IsAbout(file, i, y) <=> y = x)
  BY <1>2, <1>3, <1>4, <1>5 DEF SameName
<1> QED
  BY <1>2, <1>3, <1>4, <1>6 DEF line

LEMMA KeyLineSays ==
  ASSUME NEW file \in Files, ~Misread(file), NEW x, Named(x), Clear(file, x),
         NEW i \in KeyLines(file, x.section, x.key)
  PROVE  i \in 1 .. Len(file) /\ SaysOf(file, i, x)
<1> DEFINE h == HeaderOf(file, i)
<1>1. IsKeyLine(file, x.section, x.key, i)
  BY KeyLinesIs
<1>2. /\ i \in 1 .. Len(file) /\ file[i].kind = "entry"
      /\ IsPrefix(file[i].name, x.key)
      /\ h # 0 /\ IsPrefix(file[h].name, x.section)
      /\ file[i].indent => i = LineAfter(file, h)
  BY <1>1, Zenon DEF IsKeyLine
<1>3. i \in Nat /\ Len(file) \in Nat /\ i - 1 \in 0 .. Len(file) /\ (i - 1) + 1 = i
  BY <1>2, FileFacts
<1>4. h \in Nat /\ h < i /\ h \in FileHeaders(file)
  BY <1>2, <1>3, HeaderOfIs
<1>5. h \in 1 .. Len(file) /\ file[h].kind = "header"
  BY <1>4, FileFacts
<1>6. file[h].name = x.section /\ file[i].name = x.key
  BY <1>2, <1>5 DEF Clear, IsStrictPrefix
<1>7. Scan(file, i - 1).section = x.section
  <2>1. Scan(file, i - 1).section = SectionOf(file, i)
    BY <1>3, SectionScanned
  <2> QED
    BY <1>2, <1>6, <2>1 DEF SectionOf
<1>8. Alone(Scan(file, i - 1), file[i])
  <2>1. CASE file[i].indent
    <3>1. i = LineAfter(file, h)
      BY <1>2, <2>1
    <3>2. i - 1 \in h .. LineAfter(file, h) - 1
      BY <1>3, <1>4, <3>1
    <3>3. AfterHeader(file, h, i - 1)
      BY <1>4, <3>2, AfterHeaderIs
    <3> QED
      BY <3>3 DEF AfterHeader, Alone
  <2>2. CASE ~file[i].indent
    BY <2>2 DEF Alone
  <2> QED
    BY <2>1, <2>2
<1> QED
  BY <1>2, <1>6, <1>7, <1>8 DEF SaysOf

Outcome(file, i, written, X, old, x, value) ==
  /\ Local(FoundAt(file, Len(file), old), FoundAt(written, Len(written), old),
           X, x)
  /\ Either(FoundAt(file, Len(file), old), FoundAt(written, Len(written), old),
            X, x, value)
  /\ Silent(file, i, x) =>
       Taken(FoundAt(written, Len(written), old), X, x, value)

LEMMA ReplacedIsLoaded ==
  ASSUME NEW file \in Files, NEW x, Named(x), NEW value \in STRING,
         NEW i \in 1 .. Len(file), SaysOf(file, i, x),
         NEW X, NEW T, NEW old, Tables(X, T, old)
  PROVE  Outcome(file, i + 1, [file EXCEPT ![i].value = value], X, old, x, value)
<1> DEFINE written == [file EXCEPT ![i].value = value]
           L == Len(file)
<1>1. /\ written \in Files /\ Len(written) = L /\ Alike(file, written, L)
      /\ written[i].value = value
      /\ \A j \in 1 .. L : j # i => written[j] = file[j]
  BY ValueReplaced
<1> HIDE DEF written
<1>2. L \in Nat /\ i \in Nat /\ i <= L
  BY FileFacts
<1>3. ASSUME NEW m \in 0 .. L
      PROVE  /\ Scan(file, m).section = Scan(written, m).section
             /\ Scan(file, m).prev_name = Scan(written, m).prev_name
  <2>1. Alike(file, written, m) /\ m \in Nat
    BY <1>1, <1>2 DEF Alike
  <2>2. SameNames(Scan(file, m), Scan(written, m))
    BY <1>1, <2>1, ScanAlike
  <2> QED
    BY <2>2 DEF SameNames
<1>4. /\ \A j \in 1 .. L : /\ file[j].kind = written[j].kind
                           /\ file[j].name = written[j].name
                           /\ file[j].indent = written[j].indent
  BY <1>1 DEF Alike
<1>5. SaysOf(written, i, x)
  <2>1. i - 1 \in 0 .. L
    BY <1>2
  <2> QED
    BY <1>3, <1>4, <2>1 DEF SaysOf, Alone
<1>6. FoundAt(written, i - 1, old) = FoundAt(file, i - 1, old)
  <2>1. i - 1 \in Nat /\ i - 1 <= L /\ i - 1 \in 0 .. i - 1
    BY <1>2
  <2>2. \A j \in 1 .. i - 1 : written[j] = file[j]
    BY <1>1, <1>2
  <2>3. Scan(written, i - 1) = Scan(file, i - 1)
    BY <1>1, <2>1, <2>2, SamePrefix
  <2> QED
    BY <2>3 DEF FoundAt
<1>7. \A y \in X : Named(y)
  BY DEF Tables, SomeNames, Named
<1>8. /\ \A y \in X : IsAbout(file, i, y) <=> y = x
      /\ \A y \in X : IsAbout(written, i, y) <=> y = x
      /\ Told(written, i) = value
  BY <1>1, <1>5, <1>7, SaysOfIs
<1>9. \A y \in X :
        /\ FoundAt(file, i, old)[y] =
             IF IsAbout(file, i, y) THEN Told(file, i)
                                    ELSE FoundAt(file, i - 1, old)[y]
        /\ FoundAt(written, i, old)[y] =
             IF IsAbout(written, i, y) THEN Told(written, i)
                                       ELSE FoundAt(written, i - 1, old)[y]
  BY <1>1, FoundSteps
<1>10. /\ Local(FoundAt(file, i, old), FoundAt(written, i, old), X, x)
       /\ Taken(FoundAt(written, i, old), X, x, value)
  BY <1>6, <1>8, <1>9 DEF Local, Taken
<1>11. ASSUME NEW m \in 1 .. L - i
       PROVE  SameWords(file, i + m, written, i + m)
  <2> DEFINE k == i + m
  <2>1. k \in 1 .. L /\ k # i /\ k - 1 \in 0 .. L
    BY <1>2
  <2> HIDE DEF k
  <2>2. Together(Scan(file, k - 1), file[k], Scan(written, k - 1), written[k])
    BY <1>3, <1>4, <2>1 DEF Together
  <2>3. Scan(file, k - 1).section = Scan(written, k - 1).section
    BY <1>3, <2>1
  <2>4. /\ file[k].kind = written[k].kind /\ file[k].name = written[k].name
        /\ file[k].value = written[k].value
    BY <1>1, <2>1
  <2>5. SameWords(file, k, written, k)
    BY <1>1, <2>1, <2>2, <2>3, <2>4, SameWordsIs
  <2> QED
    BY <2>5 DEF k
<1>12. Outcome(file, i + 1, written, X, old, x, value)
  <2>1. /\ i \in 0 .. Len(file) /\ i \in 0 .. Len(written)
        /\ Len(file) - i = Len(written) - i
    BY <1>1, <1>2
  <2>2. \A m \in 1 .. Len(file) - i : SameWords(file, i + m, written, i + m)
    BY <1>11
  <2> QED
    BY <1>1, <1>10, <2>1, <2>2, TailKept DEF Outcome
<1> QED
  BY <1>12 DEF written

-----------------------------------------------------------------------------
(* An entry is added at the head of a section: from there on the lines of   *)
(* the file are scanned as before, although the first of them is no longer  *)
(* indented and the entry may be continued by what continued nothing.       *)

Follows(file, h, written, m) ==
  LET st == Scan(file, m)
      other == Scan(written, m + 1)
  IN /\ st.section = other.section
     /\ \/ st.prev_name = other.prev_name
        \/ st.prev_name = "" /\ HeaderOf(file, m + 1) = h

(* x is added under header h, its last one                                  *)
AddedUnder(file, h, x, value, written) ==
  /\ h \in FileHeaders(file) /\ file[h].name = x.section
  /\ Added(file, LineAfter(file, h), Entry(x.key, value), written)

LEMMA AddedIsSaid ==
  ASSUME NEW file \in Files, NEW h, NEW x, Named(x), NEW value \in STRING,
         NEW written, AddedUnder(file, h, x, value, written)
  PROVE  LET p == LineAfter(file, h)
         IN /\ p \in 1 .. Len(file) + 1 /\ h < p /\ HeaderOf(file, p) = h
            /\ AfterHeader(file, h, p - 1)
            /\ Scan(written, p - 1) = Scan(file, p - 1)
            /\ SaysOf(written, p, x) /\ written[p].value = value
            /\ Follows(file, h, written, p - 1)
<1> DEFINE p == LineAfter(file, h)
           L == Len(file)
           line == Entry(x.key, value)
<1>1. /\ h \in FileHeaders(file) /\ file[h].name = x.section
      /\ Added(file, p, line, written)
  BY DEF AddedUnder
<1>2. x.key \in STRING /\ x.section \in STRING
  BY DEF Named
<1>3. line.kind = "entry" /\ line.name = x.key /\ line.value = value
  BY <1>2, EntryLine
<1>4. h \in 1 .. L /\ L \in Nat
  BY <1>1, FileFacts
<1>5. /\ p \in h + 1 .. L + 1
      /\ \A j \in h + 1 .. p - 1 : file[j].kind = "blank"
  BY <1>4, LineAfterIs
<1>6. /\ written \in Files /\ Len(written) = L + 1
      /\ \A j \in 1 .. p - 1 : written[j] = file[j]
      /\ written[p].kind = "entry" /\ written[p].name = x.key
      /\ written[p].value = value
  BY <1>1, <1>3 DEF Added
<1> HIDE DEF p, L, line
<1>7. p \in 1 .. L + 1 /\ h < p /\ p \in Nat /\ p - 1 \in h .. p - 1 /\ p - 1 \in 0 .. L
  BY <1>4, <1>5
<1>8. HeaderOf(file, p) = h
  <2>1. \A j \in FileHeaders(file) : j < p => j <= h
    <3>1. \A j \in FileHeaders(file) : j \in Nat /\ file[j].kind = "header"
      BY FileFacts
    <3>2. \A j \in FileHeaders(file) : j < p /\ ~(j <= h) => j \in h + 1 .. p - 1
      BY <1>4, <1>7, <3>1
    <3> QED
      BY <1>5, <3>1, <3>2
  <2> QED
    BY <1>1, <1>7, <2>1, HeaderOfUnique
<1>9. AfterHeader(file, h, p - 1)
  BY <1>1, <1>7, AfterHeaderIs DEF p
<1>10. Scan(written, p - 1) = Scan(file, p - 1)
  <2>1. p - 1 \in Nat /\ p - 1 <= L /\ p - 1 <= Len(written) /\ p - 1 \in 0 .. p - 1
    BY <1>4, <1>6, <1>7
  <2> QED
    BY <1>6, <2>1, SamePrefix DEF L
<1>11. SaysOf(written, p, x)
  <2>1. /\ Scan(written, p - 1).section = x.section
        /\ Scan(written, p - 1).prev_name = ""
    BY <1>1, <1>9, <1>10 DEF AfterHeader
  <2> QED
    BY <1>6, <2>1 DEF SaysOf, Alone
<1>12. Follows(file, h, written, p - 1)
  <2>1. StateFrom(written, p)
    BY <1>4, <1>6, <1>7, StateIs
  <2>2. Scan(written, p).section = Scan(written, p - 1).section
    BY <1>6, <2>1 DEF StateFrom, LineDoes
  <2>3. (p - 1) + 1 = p
    BY <1>7
  <2> QED
    BY <1>8, <1>9, <1>10, <2>2, <2>3 DEF Follows, AfterHeader
<1> QED
  BY <1>6, <1>7, <1>8, <1>9, <1>10, <1>11, <1>12 DEF p, L

LEMMA FollowsStep ==
  ASSUME NEW file \in Files, ~Misread(file), NEW h \in Nat, NEW x,
         NEW value \in STRING, NEW written, Named(x),
         AddedUnder(file, h, x, value, written),
         NEW m \in LineAfter(file, h) .. Len(file),
         Follows(file, h, written, m - 1)
  PROVE  /\ Follows(file, h, written, m)
         /\ SameWords(file, m, written, m + 1)
<1> DEFINE p == LineAfter(file, h)
           L == Len(file)
           st == Scan(file, m - 1)
           other == Scan(written, m)
           line == file[m]
           l == written[m + 1]
<1>1. p \in 1 .. L + 1 /\ h < p /\ AfterHeader(file, h, p - 1)
  BY AddedIsSaid
<1>2. L \in Nat
  BY FileFacts
<1>3. /\ written \in Files /\ Len(written) = L + 1
      /\ \A j \in p .. L : /\ written[j + 1].kind = file[j].kind
                           /\ written[j + 1].name = file[j].name
                           /\ written[j + 1].value = file[j].value
                           /\ written[j + 1].indent <=> j # p /\ file[j].indent
  BY DEF AddedUnder, Added
<1> HIDE DEF p, L
<1>4. /\ m \in 1 .. L /\ m + 1 \in 1 .. Len(written) /\ m \in Nat /\ m + 1 \in Nat
      /\ (m - 1) + 1 = m /\ (m + 1) - 1 = m /\ m >= 1
  BY <1>1, <1>2, <1>3 DEF p, L
<1>5. /\ line \in Lines /\ l \in Lines
      /\ l.kind = line.kind /\ l.name = line.name /\ l.value = line.value
      /\ l.indent <=> m # p /\ line.indent
  BY <1>3, <1>4, LineFields DEF p, L
<1>6. /\ st.section = other.section
      /\ \/ st.prev_name = other.prev_name
         \/ st.prev_name = "" /\ HeaderOf(file, m) = h
  BY <1>4 DEF Follows
<1>7. m = p => st.prev_name = ""
  BY <1>1 DEF AfterHeader
<1>8. /\ StateFrom(file, m) /\ StateFrom(written, m + 1)
  BY <1>4, <1>3, StateIs DEF L
<1>9. /\ st \in States /\ other \in States
      /\ Scan(file, m) = AtLine(st, m, line)
      /\ Scan(written, m + 1) = AtLine(other, m + 1, l)
  BY <1>4, <1>8 DEF StateFrom
<1>10. ~MisreadAt(file, m)
  BY <1>4, MisreadIs DEF L
<1>11. Together(st, line, other, l)
  <2>1. line.indent \in BOOLEAN /\ l.indent \in BOOLEAN
    BY <1>5 DEF Lines
  <2>2. CASE m = p
    <3>1. Alone(st, line) /\ Alone(other, l)
      BY <1>5, <1>7, <2>2 DEF Alone
    <3> QED
      BY <3>1 DEF Together
  <2>3. CASE m # p /\ st.prev_name = other.prev_name
    BY <1>5, <2>1, <2>3 DEF Together
  <2>4. CASE m # p /\ st.prev_name = "" /\ HeaderOf(file, m) = h
    <3>1. CASE line.kind \in {"note", "blank"}
      BY <3>1 DEF Together
    <3>2. CASE line.kind \notin {"note", "blank"}
      <4>1. line.kind \in {"header", "entry", "loose", "text"}
        BY <1>5, <3>2 DEF Lines
      <4>2. ~line.indent
        BY <1>10, <2>4, <4>1 DEF MisreadAt, p
      <4>3. Alone(st, line) /\ Alone(other, l)
        BY <1>5, <4>2 DEF Alone
      <4> QED
        BY <4>3 DEF Together
    <3> QED
      BY <3>1, <3>2
  <2> QED
    BY <1>6, <2>2, <2>3, <2>4
<1>12. SameWords(file, m, written, m + 1)
  BY <1>3, <1>4, <1>5, <1>6, <1>11, SameWordsIs DEF L
<1>13. Resumed(st, other, line, AtLine(st, m, line), AtLine(other, m + 1, l))
  <2> HIDE DEF st, other, line, l
  <2> QED
    BY <1>4, <1>5, <1>6, <1>9, <1>11, SameState
<1>14. line.kind # "header" => HeaderOf(file, m + 1) = HeaderOf(file, m)
  <2>1. line.kind # "header" => m \notin FileHeaders(file)
    BY FileFacts
  <2> QED
    BY <1>4, <2>1, HeaderOfNext
<1> HIDE DEF st, other, line, l
<1>15. Follows(file, h, written, m)
  BY <1>6, <1>9, <1>13, <1>14 DEF Follows, Resumed
<1> QED
  BY <1>12, <1>15

LEMMA AddedIsLoaded ==
  ASSUME NEW file \in Files, ~Misread(file), NEW h \in Nat, NEW x, Named(x),
         NEW value \in STRING, NEW written,
         AddedUnder(file, h, x, value, written),
         NEW X, NEW T, NEW old, Tables(X, T, old)
  PROVE  Outcome(file, LineAfter(file, h), written, X, old, x, value)
<1> DEFINE p == LineAfter(file, h)
           L == Len(file)
<1>1. /\ p \in 1 .. L + 1
      /\ Scan(written, p - 1) = Scan(file, p - 1)
      /\ SaysOf(written, p, x) /\ written[p].value = value
      /\ Follows(file, h, written, p - 1)
  BY AddedIsSaid
<1>2. L \in Nat /\ written \in Files /\ Len(written) = L + 1
  BY FileFacts DEF AddedUnder, Added
<1>3. ASSUME NEW m \in p .. L, Follows(file, h, written, m - 1)
      PROVE  Follows(file, h, written, m) /\ SameWords(file, m, written, m + 1)
  BY <1>3, FollowsStep
<1> HIDE DEF p, L
<1> DEFINE n == L - (p - 1)
           S == {k \in 0 .. n : Follows(file, h, written, (p - 1) + k)}
<1>4. n \in Nat /\ p \in Nat /\ p >= 1
  BY <1>1, <1>2
<1>5. 0 \in S
  <2>1. (p - 1) + 0 = p - 1
    BY <1>4
  <2> QED
    BY <1>1, <1>4, <2>1
<1>6. ASSUME NEW k \in 1 .. n, k - 1 \in S
      PROVE  k \in S
  <2>1. /\ (p - 1) + k \in p .. L /\ k \in 0 .. n
        /\ (p - 1) + (k - 1) = ((p - 1) + k) - 1
    BY <1>2, <1>4
  <2>2. Follows(file, h, written, ((p - 1) + k) - 1)
    BY <1>6, <2>1
  <2> QED
    BY <1>3, <2>1, <2>2
<1> HIDE DEF S
<1>7. \A k \in 0 .. n : k \in S
  <2>1. \A k \in 1 .. n : k - 1 \in S => k \in S
    BY <1>6
  <2> HIDE DEF n
  <2> QED
    BY <1>4, <1>5, <2>1, LoopInduction
<1>8. ASSUME NEW k \in 1 .. n
      PROVE  SameWords(file, (p - 1) + k, written, p + k)
  <2>1. /\ (p - 1) + k \in p .. L /\ k - 1 \in 0 .. n
        /\ (p - 1) + (k - 1) = ((p - 1) + k) - 1 /\ ((p - 1) + k) + 1 = p + k
    BY <1>2, <1>4
  <2>2. Follows(file, h, written, ((p - 1) + k) - 1)
    BY <1>7, <2>1 DEF S
  <2>3. SameWords(file, (p - 1) + k, written, ((p - 1) + k) + 1)
    BY <1>3, <2>1, <2>2
  <2> QED
    BY <2>1, <2>3
<1>9. FoundAt(written, p - 1, old) = FoundAt(file, p - 1, old)
  BY <1>1 DEF FoundAt
<1>10. /\ \A y \in X : IsAbout(written, p, y) <=> y = x
       /\ Told(written, p) = value
  <2>1. \A y \in X : Named(y)
    BY DEF Tables, SomeNames, Named
  <2> QED
    BY <1>1, <2>1, SaysOfIs
<1>11. \A y \in X :
         FoundAt(written, p, old)[y] =
           IF IsAbout(written, p, y) THEN Told(written, p)
                                     ELSE FoundAt(written, p - 1, old)[y]
  <2>1. p \in 1 .. Len(written)
    BY <1>1, <1>2
  <2> QED
    BY <1>2, <2>1, FoundSteps
<1>12. /\ Local(FoundAt(file, p - 1, old), FoundAt(written, p, old), X, x)
       /\ Taken(FoundAt(written, p, old), X, x, value)
  BY <1>9, <1>10, <1>11 DEF Local, Taken
<1>13. Outcome(file, p, written, X, old, x, value)
  <2> DEFINE q == p - 1
  <2>1. /\ q \in 0 .. Len(file) /\ p \in 0 .. Len(written)
        /\ Len(file) - q = Len(written) - p /\ q + 1 = p
    BY <1>1, <1>2 DEF L
  <2>2. \A m \in 1 .. Len(file) - q : SameWords(file, q + m, written, p + m)
    BY <1>8 DEF L
  <2>3. Local(FoundAt(file, q, old), FoundAt(written, p, old), X, x)
    BY <1>12
  <2> HIDE DEF q
  <2>4. /\ Local(FoundAt(file, Len(file), old),
                 FoundAt(written, Len(written), old), X, x)
        /\ Either(FoundAt(file, Len(file), old),
                  FoundAt(written, Len(written), old), X, x, value)
        /\ Silent(file, q + 1, x) =>
             Taken(FoundAt(written, Len(written), old), X, x, value)
    BY <1>2, <1>12, <2>1, <2>2, <2>3, TailKept
  <2> QED
    BY <2>1, <2>4 DEF Outcome
<1> QED
  BY <1>13 DEF p

-----------------------------------------------------------------------------
(* A section with the entry in it is added at the end *)

LEMMA SectionIsLoaded ==
  ASSUME NEW file \in Files, NEW x, Named(x), NEW value \in STRING, NEW written,
         SectionAdded(file, x.section, Entry(x.key, value), written),
         NEW X, NEW T, NEW old, Tables(X, T, old)
  PROVE  Outcome(file, Len(file) + 1, written, X, old, x, value)
<1> DEFINE L == Len(file)
           k == IF file = << >> THEN 0 ELSE 1
           h == L + k + 1
           e == L + k + 2
           line == Entry(x.key, value)
           header == Header(x.section)
<1>1. x.key \in STRING /\ x.section \in STRING
  BY DEF Named
<1>2. line.kind = "entry" /\ line.name = x.key /\ line.value = value
  BY <1>1, EntryLine
<1>3. /\ header.kind = "header" /\ header.name = x.section
      /\ header.indent = FALSE
  BY <1>1, HeaderLine
<1>4. /\ written \in Files /\ Len(written) = e
      /\ \A j \in 1 .. L : written[j] = file[j]
      /\ k = 1 => written[L + 1] = Blank
      /\ written[h] = header /\ written[e] = line
  BY DEF SectionAdded
<1>5. L \in Nat /\ k \in {0, 1}
  BY FileFacts
<1> HIDE DEF L, k, line, header
<1>6. /\ h \in 1 .. Len(written) /\ e \in 1 .. Len(written)
      /\ L + k \in 0 .. Len(written) /\ L + k = h - 1 /\ h = e - 1
  BY <1>4, <1>5
<1> HIDE DEF h, e
<1>7. Scan(written, L) = Scan(file, L)
  <2>1. L <= Len(file) /\ L <= Len(written) /\ L \in 0 .. L
    BY <1>4, <1>5, <1>6 DEF L, h, e
  <2> QED
    BY <1>4, <1>5, <2>1, SamePrefix
<1>8. FoundAt(written, L, old) = FoundAt(file, L, old)
  BY <1>7 DEF FoundAt
<1>9. \A m \in 1 .. Len(written), y \in X :
         FoundAt(written, m, old)[y] =
           IF IsAbout(written, m, y) THEN Told(written, m)
                                     ELSE FoundAt(written, m - 1, old)[y]
  BY <1>4, FoundSteps
<1>10. \A y \in X : FoundAt(written, L + k, old)[y] = FoundAt(file, L, old)[y]
  <2>1. CASE k = 0
    BY <1>5, <1>8, <2>1
  <2>2. CASE k = 1
    <3>1. written[L + 1].kind = "blank"
      BY <1>4, <2>2, BlankLine
    <3>2. \A y \in X : ~IsAbout(written, L + 1, y)
      BY <3>1 DEF IsAbout, Calling
    <3>3. L + 1 \in 1 .. Len(written) /\ (L + 1) - 1 = L /\ L + k = L + 1
      BY <1>5, <1>4, <2>2 DEF e
    <3> QED
      BY <1>8, <1>9, <3>2, <3>3
  <2> QED
    BY <1>5, <2>1, <2>2
<1>11. Alone(Scan(written, h - 1), written[h])
  BY <1>3, <1>4 DEF Alone
<1>12. \A y \in X : FoundAt(written, h, old)[y] = FoundAt(file, L, old)[y]
  <2>1. \A y \in X : ~IsAbout(written, h, y)
    BY <1>3, <1>4, <1>11 DEF IsAbout, Calling
  <2> QED
    BY <1>6, <1>9, <1>10, <2>1
<1>13. SaysOf(written, e, x)
  <2>1. StateFrom(written, h)
    BY <1>4, <1>6, StateIs
  <2>2. Scan(written, h).section = x.section /\ Scan(written, h).prev_name = ""
    BY <1>3, <1>4, <1>11, <2>1 DEF StateFrom, LineDoes
  <2> QED
    BY <1>2, <1>4, <1>6, <2>2 DEF SaysOf, Alone
<1>14. /\ \A y \in X : IsAbout(written, e, y) <=> y = x
       /\ Told(written, e) = value
  <2>1. \A y \in X : Named(y)
    BY DEF Tables, SomeNames, Named
  <2> QED
    BY <1>2, <1>4, <1>13, <2>1, SaysOfIs
<1>15. /\ Local(FoundAt(file, L, old), FoundAt(written, e, old), X, x)
       /\ Either(FoundAt(file, L, old), FoundAt(written, e, old), X, x, value)
       /\ Taken(FoundAt(written, e, old), X, x, value)
  BY <1>6, <1>9, <1>12, <1>14 DEF Local, Taken, Either
<1> QED
  BY <1>4, <1>15 DEF Outcome, L

-----------------------------------------------------------------------------
(* What writing a setting does to what the service finds *)

(* a file in which no name is a proper prefix of one that is written, and   *)
(* no line is misread                                                       *)
LEMMA WrittenOutcome ==
  ASSUME NEW file \in Files, ~Misread(file), NEW x, Named(x), Clear(file, x),
         NEW value \in STRING, NEW X, NEW T, NEW old, Tables(X, T, old)
  PROVE  \E q \in 1 .. Len(file) + 1 :
           /\ Outcome(file, q,
                      write_profile_string(file, x.section, x.key, value),
                      X, old, x, value)
           /\ \A i \in KeyLines(file, x.section, x.key) :
                (\A j \in KeyLines(file, x.section, x.key) : j = i) => q = i + 1
<1> DEFINE section == x.section
           key == x.key
           written == write_profile_string(file, section, key, value)
           found == KeyLines(file, section, key)
           headers == SectionLines(file, section)
           h == Max(headers)
           i == Min(found)
<1>1. section \in STRING /\ key \in STRING /\ Len(file) \in Nat
  BY FileFacts DEF Named
<1>2. \/ /\ headers = {}
         /\ SectionAdded(file, section, Entry(key, value), written)
      \/ /\ headers # {} /\ found = {}
         /\ Added(file, LineAfter(file, h), Entry(key, value), written)
      \/ /\ found # {} /\ written = [file EXCEPT ![i].value = value]
  <2> HIDE DEF section, key
  <2> QED
    BY <1>1, WriteIs
<1>3. headers = {} => found = {}
  <2> SUFFICES ASSUME NEW j \in found
               PROVE  headers # {}
    OBVIOUS
  <2>1. IsKeyLine(file, section, key, j)
    BY KeyLinesIs
  <2>2. /\ j \in 1 .. Len(file) /\ HeaderOf(file, j) # 0
        /\ IsPrefix(file[HeaderOf(file, j)].name, section)
    BY <2>1, Zenon DEF IsKeyLine
  <2>3. j \in Nat
    BY <2>2
  <2>4. HeaderOf(file, j) \in FileHeaders(file)
    BY <2>2, <2>3, HeaderOfIs
  <2> QED
    BY <2>2, <2>4, SectionLinesIs
<1>4. CASE headers = {}
  <2>1. SectionAdded(file, x.section, Entry(x.key, value), written) /\ found = {}
    BY <1>2, <1>3, <1>4
  <2> HIDE DEF written, found
  <2>2. Outcome(file, Len(file) + 1, written, X, old, x, value)
    BY <2>1, SectionIsLoaded
  <2>3. Len(file) + 1 \in 1 .. Len(file) + 1
    BY <1>1
  <2> QED
    BY <2>1, <2>2, <2>3 DEF written, found, section, key
<1>5. CASE headers # {} /\ found = {}
  <2>1. Added(file, LineAfter(file, h), Entry(x.key, value), written)
    BY <1>2, <1>5
  <2>2. h \in FileHeaders(file) /\ IsPrefix(file[h].name, section)
    BY <1>5, SectionLinesIs
  <2> HIDE DEF written, found, h
  <2>3. h \in 1 .. Len(file) /\ file[h].kind = "header" /\ h \in Nat
    BY <2>2, FileFacts
  <2>4. file[h].name = x.section
    BY <2>2, <2>3 DEF Clear, IsStrictPrefix
  <2>5. AddedUnder(file, h, x, value, written)
    BY <2>1, <2>2, <2>4 DEF AddedUnder
  <2>6. Outcome(file, LineAfter(file, h), written, X, old, x, value)
    BY <2>3, <2>5, AddedIsLoaded
  <2>7. LineAfter(file, h) \in 1 .. Len(file) + 1
    BY <1>1, <2>3, LineAfterIs
  <2> QED
    BY <1>5, <2>6, <2>7 DEF written, found, section, key
<1>6. CASE found # {}
  <2>1. written = [file EXCEPT ![i].value = value]
    BY <1>2, <1>3, <1>6
  <2>2. i \in found
    <3>1. found \in SUBSET Nat
      BY KeyLinesIs
    <3> HIDE DEF found
    <3> QED
      BY <1>6, <3>1, MinIs
  <2>3. i \in 1 .. Len(file) /\ SaysOf(file, i, x)
    BY <2>2, KeyLineSays
  <2> HIDE DEF written, found, i
  <2>4. Outcome(file, i + 1, written, X, old, x, value)
    BY <2>1, <2>3, ReplacedIsLoaded
  <2>5. i + 1 \in 1 .. Len(file) + 1
    BY <1>1, <2>3
  <2>6. \A j \in found : (\A l \in found : l = j) => i + 1 = j + 1
    BY <2>2
  <2> QED
    BY <2>4, <2>5, <2>6 DEF written, found, section, key
<1> QED
  BY <1>4, <1>5, <1>6

(* every call is in the list of them *)
LEMMA CallListed ==
  ASSUME NEW file \in Files, NEW m \in 1 .. Len(file),
         Calling(Scan(file, m - 1), file[m])
  PROVE  LineCall(Scan(file, m - 1), m, file[m]) \in Range(Calls(file))
<1> DEFINE call == LineCall(Scan(file, m - 1), m, file[m])
           n == Len(file) - m
           In(calls) == \E i \in 1 .. Len(calls) : calls[i] = call
           S == {k \in 0 .. n : In(Scan(file, m + k).calls)}
<1>1. /\ Len(file) \in Nat /\ n \in Nat /\ m \in Nat /\ m + n = Len(file)
  BY FileFacts
<1>2. \A j \in 0 .. Len(file) : Scan(file, j).calls \in Seq(HandlerCalls)
  BY ScanSteps DEF States
<1>3. 0 \in S
  <2> DEFINE calls == Scan(file, m - 1).calls
             new == Scan(file, m).calls
  <2>1. StateFrom(file, m)
    BY StateIs
  <2>2. new = Append(calls, call)
    BY <2>1 DEF StateFrom, LineDoes
  <2>3. m - 1 \in 0 .. Len(file) /\ m + 0 = m
    BY <1>1
  <2>4. calls \in Seq(HandlerCalls)
    BY <1>2, <2>3
  <2>5. call \in HandlerCalls
    <3> DEFINE st == Scan(file, m - 1)
               line == file[m]
    <3>1. st \in States /\ line \in Lines /\ m \in Nat
      BY <2>1 DEF StateFrom
    <3>2. call = LineCall(st, m, line)
      OBVIOUS
    <3> HIDE DEF st, line, call
    <3> QED
      BY <3>1, <3>2, CallTypes DEF LineCall
  <2> HIDE DEF call, calls, new
  <2>6. Len(calls) \in Nat
    BY <2>4
  <2>7. Len(new) = Len(calls) + 1 /\ new[Len(calls) + 1] = call
    BY <2>2, <2>4, <2>5, AppendProperties
  <2>8. In(new)
    BY <2>6, <2>7
  <2> HIDE DEF In
  <2>9. In(Scan(file, m + 0).calls)
    BY <2>3, <2>8 DEF new
  <2> QED
    BY <1>1, <2>9
<1>4. ASSUME NEW k \in 1 .. n, k - 1 \in S
      PROVE  k \in S
  <2> DEFINE j == m + k
             st == Scan(file, j - 1)
             new == Scan(file, j)
  <2>1. j \in 1 .. Len(file) /\ m + (k - 1) = j - 1 /\ k \in 0 .. n
    BY <1>1
  <2>2. In(st.calls)
    BY <1>4, <2>1
  <2>3. StateFrom(file, j)
    BY <2>1, StateIs
  <2>4. /\ st \in States /\ file[j] \in Lines /\ j \in Nat
        /\ new = AtLine(st, j, file[j])
    BY <2>3 DEF StateFrom
  <2> HIDE DEF st, new, j, call
  <2>5. /\ Len(st.calls) \in Nat /\ Len(st.calls) <= Len(new.calls)
        /\ \A i \in 1 .. Len(st.calls) : new.calls[i] = st.calls[i]
    BY <2>4, CallsKept
  <2>6. new \in States
    BY <2>4, AtLineType
  <2>7. Len(new.calls) \in Nat
    BY <2>6 DEF States
  <2>8. In(new.calls)
    BY <2>2, <2>5, <2>7
  <2> QED
    BY <2>1, <2>8 DEF j, new
<1> HIDE DEF S
<1>5. \A k \in 0 .. n : k \in S
  <2>1. \A k \in 1 .. n : k - 1 \in S => k \in S
    BY <1>4
  <2> HIDE DEF n
  <2> QED
    BY <1>1, <1>3, <2>1, LoopInduction
<1>6. n \in S
  BY <1>1, <1>5
<1>7. In(Calls(file))
  BY <1>1, <1>6 DEF S, Calls
<1>8. Calls(file) \in Seq(HandlerCalls)
  BY CallsType
<1> QED
  BY <1>7, <1>8, LenProperties DEF Range

LEMMA OneEntryIs ==
  ASSUME NEW file \in Files, NEW x, OneEntry(file, x),
         NEW m \in 1 .. Len(file), IsAbout(file, m, x)
  PROVE  KeyLines(file, x.section, x.key) = {m}
<1> DEFINE call == LineCall(Scan(file, m - 1), m, file[m])
<1>1. call \in Range(Calls(file)) /\ call.section = x.section /\ call.key = x.key
  BY CallListed DEF IsAbout, SameName
<1>2. call.line = m
  BY DEF LineCall, EntryCall, ContinuationCall
<1> HIDE DEF call
<1> QED
  BY <1>1, <1>2 DEF OneEntry

LEMMA ClearIs ==
  ASSUME NEW file \in Files, ~Ambiguous(file), NEW x \in SettingSet
  PROVE  Named(x) /\ Clear(file, x)
<1>1. DOMAIN file = 1 .. Len(file)
  BY FileFacts
<1>2. Named(x)
  BY SettingFacts DEF SomeNames, Named
<1> QED
  BY <1>1, <1>2 DEF Ambiguous, Clear

LEMMA NamesAreNames ==
  ASSUME NEW file \in Files
  PROVE  SomeNames(Names(file))
<1>1. \A call \in Range(Calls(file)) :
         [section |-> call.section, key |-> call.key]
           \in [section : STRING, key : STRING]
  <2>1. Range(Calls(file)) \subseteq HandlerCalls
    BY CallsType, LenProperties, ElementOfSeq DEF Range
  <2> QED
    BY <2>1 DEF HandlerCalls
<1>2. SettingSet \subseteq [section : STRING, key : STRING]
  BY SettingFacts DEF SomeNames
<1> QED
  BY <1>1, <1>2 DEF Names, SomeNames

LEMMA FoundIs ==
  ASSUME NEW file \in Files, NEW X, SomeNames(X)
  PROVE  LET T == Said \cup {Null}
             old == [y \in X |-> Null]
         IN /\ Tables(X, T, old) /\ Found(file, X) \in [X -> T]
            /\ Found(file, X) = FoundAt(file, Len(file), old)
<1> DEFINE T == Said \cup {Null}
           old == [y \in X |-> Null]
<1>1. Tables(X, T, old)
  BY DEF Tables
<1>2. Found(file, X) = FoundAt(file, Len(file), old)
  BY DEF Found, ini_parse, Calls, FoundAt
<1>3. Len(file) \in 0 .. Len(file)
  BY FileFacts
<1> HIDE DEF T, old
<1>4. FoundAt(file, Len(file), old) \in [X -> T]
  BY <1>1, <1>3, FoundSteps
<1> QED
  BY <1>1, <1>2, <1>4 DEF T, old

LEMMA WrittenInFiles ==
  ASSUME NEW file \in Files, NEW section \in STRING, NEW key \in STRING,
         NEW value \in STRING
  PROVE  write_profile_string(file, section, key, value) \in Files
<1> DEFINE written == write_profile_string(file, section, key, value)
           found == KeyLines(file, section, key)
           i == Min(found)
<1>1. \/ SectionAdded(file, section, Entry(key, value), written)
      \/ Added(file, LineAfter(file, Max(SectionLines(file, section))),
               Entry(key, value), written)
      \/ found # {} /\ written = [file EXCEPT ![i].value = value]
  BY WriteIs
<1>2. ASSUME found # {}
      PROVE  i \in 1 .. Len(file)
  <2>1. found \in SUBSET Nat
    BY KeyLinesIs
  <2>2. i \in found
    <3> HIDE DEF found
    <3> QED
      BY <1>2, <2>1, MinIs
  <2>3. IsKeyLine(file, section, key, i)
    BY <2>2, KeyLinesIs
  <2> QED
    BY <2>3, Zenon DEF IsKeyLine
<1> HIDE DEF written, found, i
<1>3. written \in Files
  BY <1>1, <1>2, ValueReplaced DEF SectionAdded, Added
<1> QED
  BY <1>3 DEF written

(* Writing a setting changes what the service finds for no other name, its  *)
(* own or a stranger's, in any file without ambiguous names and misread     *)
(* lines, after whatever saving, edits and restarts: replacing a value in   *)
(* place, adding a line or a section, as write_profile_string does          *)
(* (ini.c:406-478), against what ini_parse reads (ini.c:103-152).           *)
THEOREM WritesStayLocal == Spec => []WriteIsLocal
<1>1. IInv => WriteIsLocal
  <2> SUFFICES ASSUME IInv, Settled, ~Ambiguous(disk), ~Misread(disk),
                      NEW x \in SettingSet, NEW value \in Values
               PROVE  LET others == Names(disk) \ {x}
                      IN Found(Written(x, value), others) = Found(disk, others)
    BY DEF WriteIsLocal
  <2> DEFINE X == Names(disk) \ {x}
             T == Said \cup {Null}
             old == [y \in X |-> Null]
             written == Written(x, value)
  <2>1. disk \in Files /\ value \in STRING
    BY ConfigAssumption DEF IInv, TypeInv, Settled
  <2>2. x.section \in STRING /\ x.key \in STRING /\ Named(x) /\ Clear(disk, x)
    BY <2>1, NameFacts, ClearIs
  <2>3. written \in Files
    BY <2>1, <2>2, WrittenInFiles DEF Written
  <2>4. SomeNames(X)
    BY <2>1, NamesAreNames DEF SomeNames
  <2> HIDE DEF X, written
  <2>5. /\ Tables(X, T, old) /\ Found(disk, X) \in [X -> T]
        /\ Found(disk, X) = FoundAt(disk, Len(disk), old)
    BY <2>1, <2>4, FoundIs
  <2>6. /\ Found(written, X) \in [X -> T]
        /\ Found(written, X) = FoundAt(written, Len(written), old)
    BY <2>3, <2>4, FoundIs
  <2> HIDE DEF T, old
  <2>7. \E q : Outcome(disk, q, written, X, old, x, value)
    BY <2>1, <2>2, <2>5, WrittenOutcome DEF Written, written
  <2>8. Local(FoundAt(disk, Len(disk), old),
              FoundAt(written, Len(written), old), X, x)
    BY <2>7 DEF Outcome
  <2>9. \A y \in X : Found(written, X)[y] = Found(disk, X)[y]
    BY <2>5, <2>6, <2>8 DEF Local, X
  <2>10. Found(written, X) = Found(disk, X)
    BY <2>5, <2>6, <2>9
  <2> QED
    BY <2>10 DEF X, written
<1> QED
  BY <1>1, ConfigInvariant, PTL

(* The service loads what write_profile_string wrote, or what it would have *)
(* loaded without it, in any such file, and the former where the file has   *)
(* the setting at most once: although the one takes the last entry of a     *)
(* setting and the other changes the first (psuservice.c:42-52, ini.c:441). *)
THEOREM WritesAreLoaded == Spec => []WrittenIsLoaded
<1>1. IInv => WrittenIsLoaded
  <2> SUFFICES ASSUME IInv, Settled, ~Ambiguous(disk), ~Misread(disk),
                      NEW x \in SettingSet, NEW value \in Values
               PROVE  LET loaded == Found(Written(x, value), {x})[x]
                      IN /\ loaded \in {value, Found(disk, {x})[x]}
                         /\ OneEntry(disk, x) => loaded = value
    BY DEF WrittenIsLoaded
  <2> DEFINE X == {x}
             T == Said \cup {Null}
             old == [y \in X |-> Null]
             written == Written(x, value)
             found == KeyLines(disk, x.section, x.key)
  <2>1. disk \in Files /\ value \in STRING
    BY ConfigAssumption DEF IInv, TypeInv, Settled
  <2>2. x.section \in STRING /\ x.key \in STRING /\ Named(x) /\ Clear(disk, x)
    BY <2>1, NameFacts, ClearIs
  <2>3. written \in Files
    BY <2>1, <2>2, WrittenInFiles DEF Written
  <2>4. SomeNames(X) /\ x \in X
    BY <2>2 DEF SomeNames, Named
  <2> HIDE DEF X, written, found
  <2>5. Tables(X, T, old) /\ Found(disk, X) = FoundAt(disk, Len(disk), old)
    BY <2>1, <2>4, FoundIs
  <2>6. Found(written, X) = FoundAt(written, Len(written), old)
    BY <2>3, <2>4, FoundIs
  <2> HIDE DEF T, old
  <2>7. PICK q \in 1 .. Len(disk) + 1 :
          /\ Outcome(disk, q, written, X, old, x, value)
          /\ \A i \in found : (\A j \in found : j = i) => q = i + 1
    BY <2>1, <2>2, <2>5, WrittenOutcome DEF Written, written, found
  <2>8. OneEntry(disk, x) => Silent(disk, q, x)
    <3> SUFFICES ASSUME OneEntry(disk, x), NEW m \in q .. Len(disk), IsAbout(disk, m, x)
                 PROVE  FALSE
      BY DEF Silent
    <3>1. m \in 1 .. Len(disk) /\ m \in Nat
      BY <2>1, FileFacts
    <3>2. found = {m}
      BY <2>1, <3>1, OneEntryIs DEF found
    <3>3. q = m + 1
      BY <2>7, <3>2
    <3> QED
      BY <3>1, <3>3
  <2>9. OneEntry(disk, x) => Found(written, X)[x] = value
    BY <2>4, <2>6, <2>7, <2>8 DEF Outcome, Taken
  <2>10. Found(written, X)[x] \in {value, Found(disk, X)[x]}
    BY <2>4, <2>5, <2>6, <2>7 DEF Outcome, Either
  <2> QED
    BY <2>9, <2>10 DEF X, written
<1> QED
  BY <1>1, ConfigInvariant, PTL

-----------------------------------------------------------------------------
(* What both parsers find *)

(* a file no line of which is about x *)
LEMMA SilentFile ==
  ASSUME NEW file \in Files, NEW x, NEW X, NEW T, NEW old, Tables(X, T, old),
         x \in X, NEW q \in 0 .. Len(file), Silent(file, q + 1, x)
  PROVE  FoundAt(file, Len(file), old)[x] = FoundAt(file, q, old)[x]
<1> DEFINE n == Len(file) - q
           S == {m \in 0 .. n :
                   FoundAt(file, q + m, old)[x] = FoundAt(file, q, old)[x]}
<1>1. /\ Len(file) \in Nat /\ n \in Nat /\ q \in Nat
      /\ q + n = Len(file) /\ q + 0 = q
  BY FileFacts
<1>2. 0 \in S
  BY <1>1
<1>3. ASSUME NEW m \in 1 .. n, m - 1 \in S
      PROVE  m \in S
  <2>1. /\ q + m \in 1 .. Len(file) /\ q + m \in q + 1 .. Len(file)
        /\ m \in 0 .. n /\ q + (m - 1) = (q + m) - 1
    BY <1>1
  <2>2. ~IsAbout(file, q + m, x)
    BY <2>1 DEF Silent
  <2>3. FoundAt(file, q + m, old)[x] = FoundAt(file, (q + m) - 1, old)[x]
    BY <2>1, <2>2, FoundSteps
  <2> QED
    BY <1>3, <2>1, <2>3
<1> HIDE DEF S
<1>4. \A m \in 0 .. n : m \in S
  <2>1. \A m \in 1 .. n : m - 1 \in S => m \in S
    BY <1>3
  <2> HIDE DEF n
  <2> QED
    BY <1>1, <1>2, <2>1, LoopInduction
<1>5. n \in S
  BY <1>1, <1>4
<1> QED
  BY <1>1, <1>5 DEF S

(* read_profile_string (ini.c:327-373) and ini_parse (ini.c:60-159) find    *)
(* the same value of a setting a file has at most once, or neither finds    *)
(* one: the first looks for a prefix of the name and stops at the first     *)
(* match, the other compares whole names, goes on to the last and joins     *)
(* continuations.                                                           *)
THEOREM ParsersFindTheSame == Spec => []ParsersAgree
<1>1. IInv => ParsersAgree
  <2> SUFFICES ASSUME IInv, Settled, ~Ambiguous(disk), ~Misread(disk),
                      NEW x \in SettingSet, OneEntry(disk, x)
               PROVE  read_profile_string(disk, x.section, x.key, Null)
                        = Found(disk, {x})[x]
    BY DEF ParsersAgree
  <2> DEFINE X == {x}
             T == Said \cup {Null}
             old == [y \in X |-> Null]
             found == KeyLines(disk, x.section, x.key)
             L == Len(disk)
             read == read_profile_string(disk, x.section, x.key, Null)
  <2>1. disk \in Files
    BY DEF IInv, TypeInv, Settled
  <2>2. Named(x) /\ Clear(disk, x) /\ L \in Nat
    BY <2>1, ClearIs, FileFacts
  <2>3. SomeNames(X) /\ x \in X
    BY <2>2 DEF SomeNames, Named
  <2>4. Tables(X, T, old) /\ Found(disk, X) = FoundAt(disk, L, old) /\ old[x] = Null
    BY <2>1, <2>3, FoundIs
  <2>5. \A m \in 1 .. L : IsAbout(disk, m, x) => found = {m}
    BY <2>1, OneEntryIs
  <2>6. \A i \in found : i \in 1 .. L /\ SaysOf(disk, i, x)
    BY <2>1, <2>2, KeyLineSays
  <2>7. read = IF found = {} THEN Null ELSE disk[Min(found)].value
    BY DEF read_profile_string
  <2> HIDE DEF X, T, old, found, L, read
  <2>8. CASE found = {}
    <3>1. 0 \in 0 .. Len(disk) /\ Silent(disk, 0 + 1, x)
      BY <2>2, <2>5, <2>8 DEF L, Silent
    <3>2. FoundAt(disk, L, old)[x] = FoundAt(disk, 0, old)[x]
      BY <2>1, <2>3, <2>4, <3>1, SilentFile DEF L
    <3>3. FoundAt(disk, 0, old) = old
      BY <2>1, <2>4, FoundSteps
    <3> QED
      BY <2>4, <2>7, <2>8, <3>2, <3>3 DEF X, read
  <2>9. CASE found # {}
    <3>1. PICK i : i \in found
      BY <2>9
    <3>2. i \in 1 .. L /\ SaysOf(disk, i, x)
      BY <2>6, <3>1
    <3>3. IsAbout(disk, i, x) /\ Told(disk, i) = disk[i].value
      BY <2>2, <3>2, SaysOfIs
    <3>4. found = {i} /\ i \in Nat
      BY <2>2, <2>5, <3>2, <3>3
    <3>5. Min(found) = i
      BY <3>4, MinIs
    <3>6. i \in 0 .. Len(disk) /\ Silent(disk, i + 1, x)
      <4> SUFFICES ASSUME NEW m \in i + 1 .. L, IsAbout(disk, m, x)
                   PROVE  FALSE
        BY <2>2, <3>2 DEF L, Silent
      <4>1. m \in 1 .. L /\ m # i
        BY <2>2, <3>2
      <4> QED
        BY <2>5, <3>4, <4>1
    <3>7. FoundAt(disk, L, old)[x] = FoundAt(disk, i, old)[x]
      BY <2>1, <2>3, <2>4, <3>6, SilentFile DEF L
    <3>8. i \in 1 .. Len(disk)
      BY <3>2 DEF L
    <3>9. FoundAt(disk, i, old)[x] = Told(disk, i)
      BY <2>1, <2>3, <2>4, <3>3, <3>8, FoundSteps
    <3> QED
      BY <2>4, <2>7, <2>9, <3>3, <3>5, <3>7, <3>9 DEF X, read
  <2> QED
    BY <2>8, <2>9
<1> QED
  BY <1>1, ConfigInvariant, PTL
=============================================================================
