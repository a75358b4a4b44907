---------------------------- MODULE LogFileProofs ----------------------------
(***************************************************************************)
(* For all logs: a log is saved whole or not at all, and loads as it was   *)
(* saved unless its file has lost its end (LogFile implements LogStore but *)
(* for the loads of such files); of a file that has, a part is loaded.     *)
(***************************************************************************)
EXTENDS LogFile, SequenceTheorems, TLAPS

(* What may be recorded of an output, or read back.                        *)
Values ==
  IF kind = "build" THEN {<<h>> : h \in Numeral}
  ELSE {v \in Seq(Word \ {Empty}) :
          /\ Digits[Len(v)] \in Numeral /\ Number[Digits[Len(v)]] = Len(v)
          /\ \A d \in Start[Digits[Len(v)]] \cap Numeral : Number[d] # 0}
Log == UNION {[D -> Values] : D \in SUBSET Output}

(* In t, behind the line p, stands the entry of o.                         *)
Size(v) == IF kind = "build" THEN 1 ELSE 2 + Len(v)
Entry(t, p, o, v) ==
  /\ p + Size(v) <= Len(t)
  /\ kind = "build" => t[p + 1] = <<o, v[1]>>
  /\ kind # "build" => /\ t[p + 1] = <<o>>
                       /\ t[p + 2] = <<Digits[Len(v)]>>
                       /\ \A i \in 1..Len(v) : t[p + 2 + i] = <<v[i]>>

(* The text t shows the log f, with the entry of each o behind line w[o].  *)
Starts(f, w, p) == p = 1 \/ \E o \in DOMAIN f : p = w[o] + Size(f[o])
Shows(t, f, w) ==
  /\ t \in Seq(Line) /\ Len(t) # 0 /\ t[1] = <<Header>>
  /\ w \in [DOMAIN f -> Nat \ {0}]
  /\ \A o \in DOMAIN f : Entry(t, w[o], o, f[o])
  /\ \A o, x \in DOMAIN f :
       \/ o = x
       \/ w[o] + Size(f[o]) <= w[x]
       \/ w[x] + Size(f[x]) <= w[o]
  /\ \A p \in Nat : Starts(f, w, p) => \/ p = Len(t)
                                       \/ \E o \in DOMAIN f : w[o] = p

(* The text t is T up to its end, or up to a place in its last line.       *)
CutOf(t, T) ==
  /\ t \in Seq(Line) /\ Len(t) <= Len(T)
  /\ \A i \in 1..Len(t) :
       t[i] = T[i] \/ (i = Len(t) /\ t[i] \in CutLine(T[i]))

-----------------------------------------------------------------------------
Printed == [o \in DOMAIN snapshot \ todo |-> snapshot[o]]

SaveInv ==
  /\ pc \in {"entries", "open", "write", "rename"} =>
       /\ snapshot = entries
       /\ \E w : Shows(buffer, Printed, w)
  /\ pc \in {"open", "write", "rename"} => todo = {}
  /\ pc = "rename" => text[temp] = buffer

(* The log on disk shows the log that was saved, unless it has lost its    *)
(* end.                                                                    *)
DiskInv ==
  /\ stored = {} <=> Final \notin exists
  /\ \A f, g \in stored : f = g
  /\ \A f \in stored :
       \E T, w : /\ Shows(T, f, w) /\ CutOf(text[Final], T)
                 /\ ~torn => text[Final] = T

(* What has been loaded when the line p is reached.                        *)
LoadedTo(f, w, p) ==
  /\ loaded \in Log
  /\ DOMAIN loaded = {o \in DOMAIN f : w[o] < p}
  /\ PartOf(loaded, f)
  /\ ~faulty => \A o \in DOMAIN loaded : loaded[o] = f[o]

(* The place that load() has reached in the file.                          *)
Place(f, T, w) ==
  /\ pc = "header" => pos = 0
  /\ pc = "entry" => pos # 0 /\ Starts(f, w, pos) /\ LoadedTo(f, w, pos)
  /\ pc = "count" =>
       \E o \in DOMAIN f :
         /\ pos = w[o] + 1 /\ LoadedTo(f, w, w[o])
         /\ output = o \/ (AtEnd /\ faulty)
  /\ pc = "input" =>
       \E o \in DOMAIN f :
         /\ pos = w[o] + 2 + Len(inputs) /\ LoadedTo(f, w, w[o])
         /\ Len(inputs) < count
         /\ \/ AtEnd /\ faulty
            \/ /\ output = o /\ count = Len(f[o])
               /\ \A i \in 1..Len(inputs) : inputs[i] = f[o][i]

Loading == pc \in {"header", "entry", "count", "input"}
LoadInv ==
  Loading =>
    /\ stored # {} /\ faulty = torn
    /\ pc \in {"count", "input"} => kind = "deps"
    /\ \A f \in stored :
         \E T, w : /\ Shows(T, f, w) /\ CutOf(input, T)
                   /\ ~faulty => input = T
                   /\ Place(f, T, w)

(* What a call leaves behind, or has not reached.                          *)
RestInv ==
  /\ ~Loading => pos = 0
  /\ pc \notin {"entry", "count", "input"} => loaded = empty
  /\ pc # "input" => inputs = <<>>

(* What save() wrote is never refused for its text.                        *)
SavedLogReadsWell ==
  answer \in {"corrupted", "unsupported_version"} => faulty

LogsInv == /\ entries \in Log /\ snapshot \in Log /\ stored \subseteq Log
           /\ SavedLogReadsWell

IInv == TypeOK /\ LogsInv /\ SaveInv /\ DiskInv /\ LoadInv

(* What the last load() put into memory.                                   *)
AnswerInv == answer = "ok" => \E f \in stored : PartOf(entries, f)

-----------------------------------------------------------------------------
(* Texts and logs.                                                         *)

LEMMA ValueTyped == Values \subseteq Seq(Word)
<1>1. Numeral \subseteq Word
  BY LogFileAssumption
<1>2. Seq(Word \ {Empty}) \subseteq Seq(Word)
  OBVIOUS
<1>3. CASE kind = "build"
  <2>1. \A h \in Numeral : <<h>> \in Seq(Word)
    BY <1>1
  <2>. HIDE DEF Numeral
  <2>. QED BY <1>3, <2>1 DEF Values
<1>4. CASE kind # "build"
  BY <1>2, <1>4 DEF Values
<1>. QED BY <1>3, <1>4

LEMMA LogIsLog == ASSUME NEW f \in Log PROVE Store!IsLog(f)
<1>1. PICK D \in SUBSET Output : f \in [D -> Values]
  BY DEF Log
<1>2. Values \subseteq Seq(Word)
  BY ValueTyped
<1>3. f \in [DOMAIN f -> Seq(Word)] /\ DOMAIN f \subseteq Word
  BY <1>1, <1>2, LogFileAssumption
<1>. QED BY <1>3 DEF Store!IsLog

LEMMA LogFacts ==
  ASSUME NEW f \in Log
  PROVE  /\ DOMAIN f \subseteq Output /\ f = [o \in DOMAIN f |-> f[o]]
         /\ \A o \in DOMAIN f : f[o] \in Values
BY DEF Log

LEMMA ValueFacts ==
  ASSUME NEW v \in Values
  PROVE  /\ Len(v) \in Nat /\ Size(v) \in Nat \ {0}
         /\ kind = "build" => v[1] \in Numeral /\ v = <<v[1]>>
         /\ kind # "build" =>
              /\ v \in Seq(Word \ {Empty})
              /\ \A i \in 1..Len(v) : v[i] \in Word /\ v[i] # Empty
              /\ Digits[Len(v)] \in Numeral /\ Number[Digits[Len(v)]] = Len(v)
              /\ \A d \in Start[Digits[Len(v)]] \cap Numeral : Number[d] # 0
BY DEF Values, Size

LEMMA EmptyIsLog == empty \in Log
<1>1. empty \in [{} -> Values]
  BY DEF empty, Store!empty
<1>. QED BY <1>1 DEF Log

LEMMA WithIsLog ==
  ASSUME NEW f \in Log, NEW o \in Output, NEW v \in Values
  PROVE  With(f, o, v) \in Log
<1>1. PICK D \in SUBSET Output : f \in [D -> Values]
  BY DEF Log
<1>2. With(f, o, v) \in [D \cup {o} -> Values]
  BY <1>1 DEF With
<1>. QED BY <1>2 DEF Log

LEMMA ValueRecorded == Value \subseteq Values
<1>1. CASE kind = "build"
  BY <1>1, LogFileAssumption DEF Value, Values
<1>2. CASE kind # "build"
  <2>1. \A v \in Inputs : v \in Seq(Word \ {Empty})
    <3>1. Output \subseteq Word \ {Empty}
      BY LogFileAssumption
    <3>. QED BY <3>1, LogFileAssumption
  <2>. QED BY <1>2, <2>1, LogFileAssumption DEF Value, Values
<1>. QED BY <1>1, <1>2

(* The lines of an entry.                                                  *)
LEMMA LinesShow ==
  ASSUME NEW o \in Output, NEW v \in Values, NEW t \in Seq(Line)
  PROVE  /\ t \o Lines(o, v) \in Seq(Line)
         /\ Len(t \o Lines(o, v)) = Len(t) + Size(v)
         /\ \A i \in 1..Len(t) : (t \o Lines(o, v))[i] = t[i]
         /\ Entry(t \o Lines(o, v), Len(t), o, v)
<1>1. o \in Word /\ Len(t) \in Nat
  BY LogFileAssumption
<1>2. CASE kind = "build"
  <2>. DEFINE a == <<o, v[1]>>
  <2>1. a \in Line /\ Lines(o, v) = <<a>>
    BY <1>1, <1>2, ValueFacts, LogFileAssumption DEF Lines, Line
  <2>2. <<a>> \in Seq(Line) /\ Len(<<a>>) = 1 /\ <<a>>[1] = a
    BY <2>1
  <2>. HIDE DEF a
  <2>3. /\ t \o <<a>> \in Seq(Line) /\ Len(t \o <<a>>) = Len(t) + 1
        /\ \A i \in 1..Len(t) : (t \o <<a>>)[i] = t[i]
        /\ (t \o <<a>>)[Len(t) + 1] = a
    BY <1>1, <2>2
  <2>. QED BY <1>2, <2>1, <2>3 DEF Entry, Size, a
<1>3. CASE kind # "build"
  <2>. DEFINE a == << <<o>>, <<Digits[Len(v)]>> >>
              b == [i \in 1..Len(v) |-> <<v[i]>>]
              l == a \o b
  <2>1. a \in Seq(Line) /\ Len(a) = 2 /\ a[1] = <<o>>
        /\ a[2] = <<Digits[Len(v)]>>
    BY <1>1, <1>3, ValueFacts, LogFileAssumption DEF Line
  <2>2. b \in Seq(Line) /\ Len(b) = Len(v) /\ Len(v) \in Nat
        /\ \A i \in 1..Len(v) : b[i] = <<v[i]>>
    <3>1. \A i \in 1..Len(v) : <<v[i]>> \in Line
      BY <1>3, ValueFacts DEF Line
    <3>. QED BY <3>1, ValueFacts
  <2>. HIDE DEF a, b
  <2>3. /\ l \in Seq(Line) /\ Len(l) = 2 + Len(v)
        /\ l[1] = a[1] /\ l[2] = a[2]
        /\ \A i \in 1..Len(v) : l[2 + i] = b[i]
    <3>1. /\ l \in Seq(Line) /\ Len(l) = 2 + Len(v)
          /\ \A i \in 1..2 + Len(v) : l[i] = IF i <= 2 THEN a[i] ELSE b[i - 2]
      <4>1. /\ a \o b \in Seq(Line) /\ Len(a \o b) = Len(a) + Len(b)
            /\ \A i \in 1..Len(a) + Len(b) :
                 (a \o b)[i] = IF i <= Len(a) THEN a[i] ELSE b[i - Len(a)]
        <5>1. a \in Seq(Line) /\ b \in Seq(Line)
          BY <2>1, <2>2
        <5>. QED BY ONLY <5>1, ConcatProperties
      <4>. QED BY <2>1, <2>2, <4>1
    <3>2. \A i \in 1..Len(v) : 2 + i \in 1..2 + Len(v) /\ (2 + i) - 2 = i
      BY <2>2
    <3>. HIDE DEF l
    <3>. QED BY <2>2, <3>1, <3>2
  <2>4. Lines(o, v) = l
    BY <1>3 DEF Lines, a, b
  <2>. HIDE DEF l
  <2>5. /\ t \o l \in Seq(Line) /\ Len(t \o l) = Len(t) + Len(l)
        /\ \A i \in 1..Len(t) : (t \o l)[i] = t[i]
        /\ \A i \in 1..Len(l) : (t \o l)[Len(t) + i] = l[i]
    <3>. DEFINE m == t \o l
    <3>1. /\ m \in Seq(Line) /\ Len(m) = Len(t) + Len(l)
          /\ \A i \in 1..Len(t) + Len(l) :
               m[i] = IF i <= Len(t) THEN t[i] ELSE l[i - Len(t)]
      BY <2>3, ConcatProperties
    <3>2. Len(l) \in Nat
      BY <2>2, <2>3
    <3>. HIDE DEF m
    <3>3. \A i \in 1..Len(t) : m[i] = t[i]
      BY <1>1, <3>1, <3>2
    <3>4. \A i \in 1..Len(l) : m[Len(t) + i] = l[i]
      <4>1. \A i \in 1..Len(l) : /\ Len(t) + i \in 1..Len(t) + Len(l)
                                 /\ ~(Len(t) + i <= Len(t))
                                 /\ (Len(t) + i) - Len(t) = i
        BY <1>1, <3>2
      <4>. QED BY <3>1, <4>1
    <3>. QED BY <3>1, <3>3, <3>4 DEF m
  <2>6. /\ (t \o l)[Len(t) + 1] = <<o>>
        /\ (t \o l)[Len(t) + 2] = <<Digits[Len(v)]>>
    BY <2>1, <2>2, <2>3, <2>5
  <2>7. \A i \in 1..Len(v) : (t \o l)[Len(t) + 2 + i] = <<v[i]>>
    <3>1. SUFFICES ASSUME NEW i \in 1..Len(v)
                   PROVE  (t \o l)[Len(t) + 2 + i] = <<v[i]>>
      OBVIOUS
    <3>2. 2 + i \in 1..Len(l) /\ Len(t) + (2 + i) = Len(t) + 2 + i
      BY <1>1, <2>2, <2>3
    <3>. QED BY <2>2, <2>3, <2>5, <3>2
  <2>. QED BY <1>3, <2>2, <2>3, <2>4, <2>5, <2>6, <2>7 DEF Entry, Size
<1>. QED BY <1>2, <1>3

(* A text that shows a log, and one that shows one entry more.             *)
LEMMA HeaderShows ==
  ASSUME NEW w, w = [o \in {} |-> 1]
  PROVE  Shows(<< <<Header>> >>, empty, w)
<1>. DEFINE h == <<Header>>
<1>1. h \in Line
  BY LogFileAssumption DEF Line
<1>. HIDE DEF h
<1>2. <<h>> \in Seq(Line) /\ Len(<<h>>) = 1 /\ <<h>>[1] = h
  BY <1>1
<1>3. DOMAIN empty = {} /\ w \in [{} -> Nat \ {0}]
  BY DEF empty, Store!empty
<1>. QED BY <1>2, <1>3 DEF Shows, Starts, h

LEMMA EntryKept ==
  ASSUME NEW o \in Output, NEW v \in Values, NEW p \in Nat,
         NEW t \in Seq(Line), NEW u \in Seq(Line), Entry(t, p, o, v),
         Len(t) <= Len(u), \A i \in 1..Len(t) : u[i] = t[i]
  PROVE  Entry(u, p, o, v)
<1>1. Len(t) \in Nat /\ Len(u) \in Nat /\ Len(v) \in Nat
  BY ValueFacts
<1>2. CASE kind = "build"
  <2>1. p + 1 \in 1..Len(t)
    BY <1>1, <1>2 DEF Entry, Size
  <2>. QED BY <1>1, <1>2, <2>1 DEF Entry, Size
<1>3. CASE kind # "build"
  <2>1. p + 2 + Len(v) <= Len(t)
    BY <1>1, <1>3 DEF Entry, Size
  <2>2. p + 1 \in 1..Len(t) /\ p + 2 \in 1..Len(t)
        /\ \A i \in 1..Len(v) : p + 2 + i \in 1..Len(t)
    BY <1>1, <2>1
  <2>. QED BY <1>1, <1>3, <2>1, <2>2 DEF Entry, Size
<1>. QED BY <1>2, <1>3

LEMMA EntryShows ==
  ASSUME NEW f \in Log, NEW t, NEW w, Shows(t, f, w),
         NEW o \in Output \ DOMAIN f, NEW v \in Values
  PROVE  \E x : Shows(t \o Lines(o, v), With(f, o, v), x)
<1>. DEFINE u == t \o Lines(o, v)
            g == With(f, o, v)
            x == [a \in DOMAIN f \cup {o} |-> IF a = o THEN Len(t) ELSE w[a]]
<1>1. /\ t \in Seq(Line) /\ Len(t) \in Nat \ {0} /\ t[1] = <<Header>>
      /\ w \in [DOMAIN f -> Nat \ {0}]
  BY LenProperties DEF Shows
<1>2. /\ u \in Seq(Line) /\ Len(u) = Len(t) + Size(v) /\ Size(v) \in Nat \ {0}
      /\ \A i \in 1..Len(t) : u[i] = t[i]
      /\ Entry(u, Len(t), o, v)
  BY <1>1, LinesShow, ValueFacts
<1>3. /\ DOMAIN g = DOMAIN f \cup {o} /\ g[o] = v
      /\ \A a \in DOMAIN f : g[a] = f[a] /\ a # o
      /\ x \in [DOMAIN g -> Nat \ {0}] /\ x[o] = Len(t)
      /\ \A a \in DOMAIN f : x[a] = w[a]
  BY <1>1 DEF With
<1>4. \A a \in DOMAIN f : /\ Size(f[a]) \in Nat \ {0} /\ w[a] \in Nat \ {0}
                          /\ w[a] + Size(f[a]) <= Len(t)
                          /\ f[a] \in Values /\ a \in Output
  BY <1>1, LogFacts, ValueFacts DEF Shows, Entry
<1>. HIDE DEF u, g, x
<1>5. \A a \in DOMAIN g : Entry(u, x[a], a, g[a])
  <2>1. \A a \in DOMAIN f : Entry(u, w[a], a, f[a])
    <3>1. SUFFICES ASSUME NEW a \in DOMAIN f PROVE Entry(u, w[a], a, f[a])
      OBVIOUS
    <3>2. Entry(t, w[a], a, f[a]) /\ Len(t) <= Len(u)
      BY <1>1, <1>2 DEF Shows
    <3>. QED BY <1>1, <1>2, <1>4, <3>2, EntryKept
  <2>. QED BY <1>2, <1>3, <2>1
<1>6. \A a, b \in DOMAIN g : \/ a = b
                             \/ x[a] + Size(g[a]) <= x[b]
                             \/ x[b] + Size(g[b]) <= x[a]
  <2>1. \A a, b \in DOMAIN f : \/ a = b
                               \/ w[a] + Size(f[a]) <= w[b]
                               \/ w[b] + Size(f[b]) <= w[a]
    BY DEF Shows
  <2>. QED BY <1>3, <1>4, <2>1
<1>7. \A p \in Nat : Starts(g, x, p) => \/ p = Len(u)
                                        \/ \E a \in DOMAIN g : x[a] = p
  <2>1. SUFFICES ASSUME NEW p \in Nat, Starts(g, x, p)
                 PROVE  p = Len(u) \/ \E a \in DOMAIN g : x[a] = p
    OBVIOUS
  <2>2. CASE p = x[o] + Size(g[o])
    BY <1>2, <1>3, <2>2
  <2>3. CASE Starts(f, w, p)
    BY <1>3, <2>3 DEF Shows
  <2>4. Starts(f, w, p) \/ p = x[o] + Size(g[o])
    BY <1>3, <2>1 DEF Starts
  <2>. QED BY <2>2, <2>3, <2>4
<1>8. u[1] = <<Header>> /\ Len(u) # 0
  BY <1>1, <1>2
<1>9. Shows(u, g, x)
  BY <1>2, <1>3, <1>5, <1>6, <1>7, <1>8 DEF Shows
<1>. QED BY <1>9 DEF u, g

(* The entry that starts at p is the one after those before p.             *)
LEMMA NextEntry ==
  ASSUME NEW f \in Log, NEW t, NEW w, Shows(t, f, w),
         NEW p \in Nat, Starts(f, w, p), p < Len(t)
  PROVE  \E o \in DOMAIN f :
           /\ w[o] = p /\ Entry(t, p, o, f[o])
           /\ Starts(f, w, p + Size(f[o]))
           /\ {a \in DOMAIN f : w[a] < p + Size(f[o])} =
                {a \in DOMAIN f : w[a] < p} \cup {o}
<1>1. PICK o \in DOMAIN f : w[o] = p
  BY LenProperties DEF Shows
<1>2. Entry(t, p, o, f[o]) /\ Starts(f, w, p + Size(f[o]))
  BY <1>1 DEF Shows, Starts
<1>3. \A a \in DOMAIN f : Size(f[a]) \in Nat \ {0} /\ w[a] \in Nat \ {0}
  BY LogFacts, ValueFacts DEF Shows
<1>4. \A a \in DOMAIN f : \/ a = o
                          \/ w[a] + Size(f[a]) <= p
                          \/ p + Size(f[o]) <= w[a]
  BY <1>1 DEF Shows
<1>5. \A a \in DOMAIN f : w[a] < p + Size(f[o]) <=> w[a] < p \/ a = o
  BY <1>1, <1>3, <1>4
<1>. QED BY <1>1, <1>2, <1>5

LEMMA AllBefore ==
  ASSUME NEW f \in Log, NEW t, NEW w, Shows(t, f, w)
  PROVE  \A o \in DOMAIN f : w[o] < Len(t)
<1>1. \A a \in DOMAIN f : Size(f[a]) \in Nat \ {0} /\ w[a] \in Nat \ {0}
  BY LogFacts, ValueFacts DEF Shows
<1>2. \A a \in DOMAIN f : w[a] + Size(f[a]) <= Len(t)
  BY DEF Shows, Entry
<1>3. Len(t) \in Nat
  BY LenProperties DEF Shows
<1>. QED BY <1>1, <1>2, <1>3

-----------------------------------------------------------------------------
(* A file that loses its end, perhaps again.                               *)

LEMMA CutLines ==
  ASSUME NEW l \in Line, NEW k \in CutLine(l)
  PROVE  /\ k \in Line /\ CutLine(k) \subseteq CutLine(l) /\ k # <<>>
         /\ Len(l) = 1 => \E y \in Start[l[1]] : k = <<y>>
         /\ Len(l) = 2 =>
              \/ Len(k) = 1
              \/ \E y \in Start[l[2]] \cup {Empty} : k = <<l[1], y>>
<1>1. /\ Len(l) \in {1, 2} /\ l[1] \in Word /\ (Len(l) = 2 => l[2] \in Word)
  BY DEF Line
<1>2. /\ \A w \in Word : /\ Start[w] \subseteq Word
                         /\ \A v \in Start[w] : Start[v] \subseteq Start[w]
      /\ Empty \in Word /\ Start[Empty] = {}
  BY LogFileAssumption
<1>3. CASE \E y \in Start[l[1]] : k = <<y>>
  <2>1. PICK y \in Start[l[1]] : k = <<y>>
    BY <1>3
  <2>2. y \in Word /\ Start[y] \subseteq Start[l[1]]
    BY <1>1, <1>2, <2>1
  <2>3. Len(k) = 1 /\ k[1] = y /\ k \in Line /\ k # <<>>
    BY <2>1, <2>2 DEF Line
  <2>4. CutLine(k) = {<<w>> : w \in Start[y]}
    BY <2>3 DEF CutLine
  <2>5. CutLine(k) \subseteq CutLine(l)
    BY <2>2, <2>4 DEF CutLine
  <2>. QED BY <1>1, <2>1, <2>3, <2>5
<1>4. CASE Len(l) = 2 /\ k = <<l[1]>>
  <2>1. Len(k) = 1 /\ k[1] = l[1] /\ k \in Line /\ k # <<>>
    BY <1>1, <1>4 DEF Line
  <2>2. CutLine(k) \subseteq CutLine(l)
    BY <2>1 DEF CutLine
  <2>. QED BY <1>4, <2>1, <2>2
<1>5. CASE Len(l) = 2 /\ \E y \in Start[l[2]] \cup {Empty} : k = <<l[1], y>>
  <2>1. PICK y \in Start[l[2]] \cup {Empty} : k = <<l[1], y>>
    BY <1>5
  <2>2. y \in Word /\ Start[y] \subseteq Start[l[2]]
    BY <1>1, <1>2, <1>5, <2>1
  <2>3. Len(k) = 2 /\ k[1] = l[1] /\ k[2] = y /\ k \in Line /\ k # <<>>
    BY <1>1, <2>1, <2>2 DEF Line
  <2>4. CutLine(k) \subseteq CutLine(l)
    BY <1>5, <2>2, <2>3 DEF CutLine
  <2>. QED BY <1>5, <2>3, <2>4
<1>. QED BY <1>1, <1>3, <1>4, <1>5 DEF CutLine

(* One that ends with the line n, or with a part of the line behind it.    *)
LEMMA CutAgain ==
  ASSUME NEW T \in Seq(Line), NEW t, CutOf(t, T), NEW n \in 0..Len(t) - 1,
         NEW last \in CutLine(t[n + 1]) \cup {<<>>}
  PROVE  CutOf(IF last = <<>> THEN SubSeq(t, 1, n)
                              ELSE Append(SubSeq(t, 1, n), last), T)
<1>. DEFINE s == SubSeq(t, 1, n)
<1>1. /\ t \in Seq(Line) /\ Len(t) \in Nat /\ Len(t) <= Len(T) /\ n \in Nat
      /\ n < Len(t)
  BY LenProperties DEF CutOf
<1>2. /\ s \in Seq(Line) /\ Len(s) = n /\ \A i \in 1..n : s[i] = t[i]
  BY <1>1
<1>3. \A i \in 1..n : t[i] = T[i]
  BY <1>1 DEF CutOf
<1>. HIDE DEF s
<1>4. CASE last = <<>>
  BY <1>1, <1>2, <1>3, <1>4 DEF CutOf, s
<1>5. CASE last # <<>>
  <2>1. n + 1 \in 1..Len(t) /\ t[n + 1] \in Line /\ T[n + 1] \in Line
    BY <1>1
  <2>2. t[n + 1] = T[n + 1] \/ t[n + 1] \in CutLine(T[n + 1])
    BY <2>1 DEF CutOf
  <2>3. last \in CutLine(T[n + 1]) /\ last \in Line
    BY <1>5, <2>1, <2>2, CutLines
  <2>4. /\ Append(s, last) \in Seq(Line) /\ Len(Append(s, last)) = n + 1
        /\ \A i \in 1..n : Append(s, last)[i] = s[i]
        /\ Append(s, last)[n + 1] = last
    BY <1>2, <2>3, AppendProperties
  <2>. DEFINE u == Append(s, last)
  <2>. HIDE DEF u
  <2>5. \A i \in 1..Len(u) :
          u[i] = T[i] \/ (i = Len(u) /\ u[i] \in CutLine(T[i]))
    BY <1>1, <1>2, <1>3, <2>3, <2>4 DEF u
  <2>6. CutOf(u, T)
    BY <1>1, <2>4, <2>5 DEF u, CutOf
  <2>. QED BY <1>5, <2>6 DEF u, s
<1>. QED BY <1>4, <1>5

(* Where a file is cut, a line of it may say less.                         *)
LEMMA CutShows ==
  ASSUME NEW T, NEW t, T \in Seq(Line), CutOf(t, T), NEW i \in 1..Len(t)
  PROVE  /\ t[i] \in Line /\ T[i] \in Line /\ i \in 1..Len(T)
         /\ i < Len(t) => t[i] = T[i]
         /\ t[i] # T[i] => i = Len(t) /\ t[i] \in CutLine(T[i])
BY LenProperties DEF CutOf

-----------------------------------------------------------------------------
(* The parts of the invariant that a step leaves alone.                    *)

LEMMA KindKept ==
  ASSUME kind' = kind
  PROVE  /\ Values' = Values /\ Log' = Log
         /\ \A t, f, w : Shows(t, f, w)' <=> Shows(t, f, w)
         /\ \A f, w, p : Starts(f, w, p)' <=> Starts(f, w, p)
<1>1. Values' = Values
  BY DEF Values
<1>2. Log' = Log
  BY <1>1 DEF Log
<1>3. \A v : Size(v)' = Size(v)
  BY DEF Size
<1>4. \A t, p, o, v : Entry(t, p, o, v)' <=> Entry(t, p, o, v)
  BY <1>3 DEF Entry
<1>5. \A f, w, p : Starts(f, w, p)' <=> Starts(f, w, p)
  BY <1>3 DEF Starts
<1>6. \A t, f, w : Shows(t, f, w)' <=> Shows(t, f, w)
  BY <1>3, <1>4, <1>5 DEF Shows
<1>. QED BY <1>1, <1>2, <1>5, <1>6

LEMMA LoadKept ==
  ASSUME LoadInv, pc' = pc, UNCHANGED <<kind, stored, torn, loading>>
  PROVE  LoadInv'
<1>1. /\ \A f, w, p : LoadedTo(f, w, p)' <=> LoadedTo(f, w, p)
      /\ AtEnd' <=> AtEnd
  BY KindKept DEF LoadedTo, AtEnd, loading
<1>2. \A f, T, w : Place(f, T, w)' <=> Place(f, T, w)
  BY <1>1, KindKept DEF Place, loading
<1>. QED BY <1>1, <1>2, KindKept DEF LoadInv, Loading, loading

LEMMA SaveKept ==
  ASSUME SaveInv, pc' = pc, UNCHANGED <<kind, entries, saving>>,
         pc = "rename" => text'[temp] = text[temp]
  PROVE  SaveInv'
<1>1. Printed' = Printed
  BY DEF Printed, saving
<1>. QED BY <1>1, KindKept DEF SaveInv, saving

LEMMA DiskKept ==
  ASSUME DiskInv, UNCHANGED <<kind, stored, torn>>,
         Final \in exists' <=> Final \in exists, text'[Final] = text[Final]
  PROVE  DiskInv'
BY KindKept DEF DiskInv

LEMMA AtRest ==
  ASSUME pc' = "idle"
  PROVE  SaveInv' /\ LoadInv'
BY DEF SaveInv, LoadInv, Loading

LEMMA LogsKept ==
  ASSUME LogsInv, kind' = kind,
         entries' \in Log, snapshot' \in Log, stored' \subseteq Log,
         SavedLogReadsWell'
  PROVE  LogsInv'
BY KindKept DEF LogsInv

(* What a call that returns leaves behind.                                 *)
LEMMA Returns ==
  ASSUME NEW a, Return(a)
  PROVE  /\ pc' = "idle" /\ answer' = a
         /\ snapshot' \in Log /\ Store!IsLog(snapshot') /\ todo' = {}
         /\ Store!IsLog(loaded') /\ temp' = Final
         /\ buffer' \in Seq(Line) /\ input' \in Seq(Line)
         /\ pos' \in 0..Len(input')
         /\ output' \in Word /\ count' \in Nat /\ inputs' \in Seq(Word)
<1>1. Store!IsLog(empty) /\ empty \in Log /\ Empty \in Word
  BY EmptyIsLog, LogIsLog, LogFileAssumption
<1>. QED BY <1>1 DEF Return

-----------------------------------------------------------------------------
(* The calls on the log in memory, and save().                             *)

LEMMA InMemory ==
  ASSUME IInv,
         \/ \E o \in Output, v \in Value : Record(o, v)
         \/ Clear
  PROVE  IInv'
<1>1. /\ pc = "idle" /\ pc' = "idle" /\ answer' = "none"
      /\ UNCHANGED <<disk, saving, loading>>
  BY DEF Record, Clear
<1>2. entries' \in Log
  <2>1. CASE \E o \in Output, v \in Value : Record(o, v)
    <3>1. PICK o \in Output, v \in Value : Record(o, v)
      BY <2>1
    <3>2. v \in Values /\ entries \in Log
      BY ValueRecorded DEF IInv, LogsInv
    <3>. QED BY <3>1, <3>2, WithIsLog DEF Record
  <2>2. CASE Clear
    BY <2>2, EmptyIsLog DEF Clear
  <2>. QED BY <2>1, <2>2
<1>3. Store!IsLog(entries')
  BY <1>2, LogIsLog
<1>4. TypeOK'
  BY <1>1, <1>3 DEF IInv, TypeOK, disk, history, saving, loading
<1>5. LogsInv'
  BY <1>1, <1>2, LogsKept
     DEF IInv, LogsInv, SavedLogReadsWell, disk, history, saving
<1>6. DiskInv'
  BY <1>1, DiskKept DEF IInv, disk, history
<1>. QED BY <1>1, <1>4, <1>5, <1>6, AtRest DEF IInv

LEMMA Begins == ASSUME IInv, BeginSave PROVE IInv'
<1>1. /\ pc' = "entries" /\ answer' = "none" /\ snapshot' = entries
      /\ todo' = DOMAIN entries /\ buffer' = << <<Header>> >> /\ temp' = temp
      /\ pc = "idle" /\ UNCHANGED <<disk, entries, loading>>
  BY DEF BeginSave
<1>2. <<Header>> \in Line /\ << <<Header>> >> \in Seq(Line)
  <2>1. <<Header>> \in Line
    BY LogFileAssumption DEF Line
  <2>. DEFINE h == <<Header>>
  <2>. HIDE DEF h
  <2>2. h \in Line => <<h>> \in Seq(Line)
    OBVIOUS
  <2>. QED BY <2>1, <2>2 DEF h
<1>3. TypeOK'
  BY <1>1, <1>2 DEF IInv, TypeOK, disk, history, loading
<1>4. LogsInv'
  BY <1>1, LogsKept DEF IInv, LogsInv, SavedLogReadsWell, disk, history
<1>5. DiskInv'
  BY <1>1, DiskKept DEF IInv, disk, history
<1>6. SaveInv'
  <2>1. Printed' = empty
    BY <1>1 DEF Printed, empty, Store!empty
  <2>2. \E w : Shows(buffer', Printed', w)
    BY <1>1, <2>1, HeaderShows
  <2>3. \E w : Shows(buffer, Printed, w)'
    BY <1>1, <2>2, KindKept DEF disk, history
  <2>. QED BY <1>1, <2>3 DEF SaveInv
<1>7. LoadInv'
  BY <1>1 DEF LoadInv, Loading
<1>. QED BY <1>3, <1>4, <1>5, <1>6, <1>7 DEF IInv

LEMMA Prints ==
  ASSUME IInv, NEW o \in Output, PrintEntry(o)
  PROVE  IInv'
<1>1. /\ pc = "entries" /\ pc' = "entries" /\ o \in todo
      /\ buffer' = buffer \o Lines(o, snapshot[o]) /\ todo' = todo \ {o}
      /\ UNCHANGED <<disk, entries, answer, snapshot, temp, loading>>
  BY DEF PrintEntry
<1>2. /\ snapshot \in Log /\ o \in DOMAIN snapshot /\ snapshot[o] \in Values
      /\ buffer \in Seq(Line)
  BY <1>1, LogFacts DEF IInv, LogsInv, TypeOK
<1>3. buffer' \in Seq(Line)
  BY <1>1, <1>2, LinesShow
<1>4. TypeOK'
  BY <1>1, <1>3 DEF IInv, TypeOK, disk, history, loading
<1>5. LogsInv'
  BY <1>1, LogsKept DEF IInv, LogsInv, SavedLogReadsWell, disk, history,
                        loading
<1>6. DiskInv'
  BY <1>1, DiskKept DEF IInv, disk, history
<1>7. SaveInv'
  <2>1. Printed \in Log /\ o \notin DOMAIN Printed
    <3>1. PICK D \in SUBSET Output : snapshot \in [D -> Values]
      BY <1>2 DEF Log
    <3>2. Printed \in [D \ todo -> Values] /\ DOMAIN Printed = D \ todo
      BY <3>1 DEF Printed
    <3>. QED BY <1>1, <3>2 DEF Log
  <2>2. PICK w : Shows(buffer, Printed, w)
    BY <1>1 DEF IInv, SaveInv
  <2>3. Printed' = With(Printed, o, snapshot[o])
    BY <1>1, <1>2 DEF Printed, With, IInv, TypeOK
  <2>4. \E x : Shows(buffer', Printed', x)
    BY <1>1, <1>2, <2>1, <2>2, <2>3, EntryShows
  <2>5. \E x : Shows(buffer, Printed, x)'
    BY <1>1, <2>4, KindKept DEF disk, history
  <2>. QED BY <1>1, <2>5 DEF IInv, SaveInv
<1>8. LoadInv'
  BY <1>1 DEF LoadInv, Loading
<1>. QED BY <1>4, <1>5, <1>6, <1>7, <1>8 DEF IInv


(* Every file that is written to has a temporary name.                     *)
LEMMA Writes ==
  ASSUME IInv, RemoveOldTemp \/ OpenTemp \/ Write \/ CloseTemp
  PROVE  IInv'
<1>1. /\ pc \in {"entries", "open", "write"}
      /\ pc' \in {"open", "write", "rename"}
      /\ todo = {} /\ temp' \in Temporary
      /\ UNCHANGED <<history, entries, answer, snapshot, todo, buffer,
                     loading>>
  BY DEF IInv, TypeOK, SaveInv, RemoveOldTemp, OpenTemp, Write, CloseTemp,
         TempPath, disk, saving
<1>2. /\ exists' \subseteq Name /\ text' \in [Name -> Seq(Line)]
      /\ Final \in exists' <=> Final \in exists
      /\ text'[Final] = text[Final]
  <2>1. Temporary \subseteq Name /\ Final \notin Temporary /\ Final \in Name
    BY LogFileAssumption DEF Name
  <2>2. exists \subseteq Name /\ text \in [Name -> Seq(Line)]
        /\ <<>> \in Seq(Line)
    BY DEF IInv, TypeOK
  <2>3. CASE RemoveOldTemp
    BY <2>1, <2>2, <2>3 DEF RemoveOldTemp, TempPath
  <2>4. CASE OpenTemp
    BY <2>1, <2>2, <2>4 DEF OpenTemp, IInv, TypeOK
  <2>5. CASE Write
    <3>1. temp \in Temporary /\ text[temp] \in Seq(Line)
          /\ buffer \in Seq(Line) /\ Len(text[temp]) < Len(buffer)
      BY <2>1, <2>2, <2>5 DEF Write, IInv, TypeOK
    <3>2. Append(text[temp], buffer[Len(text[temp]) + 1]) \in Seq(Line)
      BY <3>1
    <3>. QED BY <2>1, <2>2, <2>5, <3>1, <3>2 DEF Write, disk, history
  <2>6. CASE CloseTemp
    BY <2>2, <2>6 DEF CloseTemp, disk
  <2>. QED BY <2>3, <2>4, <2>5, <2>6
<1>3. TypeOK'
  BY <1>1, <1>2 DEF IInv, TypeOK, history, loading
<1>4. LogsInv'
  BY <1>1, LogsKept DEF IInv, LogsInv, SavedLogReadsWell, history, loading
<1>5. DiskInv'
  BY <1>1, <1>2, DiskKept DEF IInv, history
<1>6. SaveInv'
  <2>1. Printed' = Printed
    BY <1>1 DEF Printed
  <2>2. pc' = "rename" => text'[temp'] = buffer'
    BY <1>1 DEF RemoveOldTemp, OpenTemp, Write, CloseTemp, Written, disk,
                saving
  <2>. QED BY <1>1, <2>1, <2>2, KindKept DEF IInv, SaveInv, history
<1>7. LoadInv'
  BY <1>1 DEF LoadInv, Loading
<1>. QED BY <1>3, <1>4, <1>5, <1>6, <1>7 DEF IInv

LEMMA Fails == ASSUME IInv, SaveFails PROVE IInv'
<1>1. /\ pc \in {"open", "write", "rename"} /\ Return("not_saved")
      /\ UNCHANGED <<history, entries, faulty>>
  BY DEF SaveFails, disk
<1>2. /\ exists' \subseteq Name /\ text' \in [Name -> Seq(Line)]
      /\ Final \in exists' <=> Final \in exists
      /\ text'[Final] = text[Final]
  <2>1. Temporary \subseteq Name /\ Final \notin Temporary /\ Final \in Name
        /\ temp \in Temporary
    BY <1>1, LogFileAssumption DEF Name, IInv, TypeOK
  <2>2. exists \subseteq Name /\ text \in [Name -> Seq(Line)]
        /\ <<>> \in Seq(Line)
    BY DEF IInv, TypeOK
  <2>. QED BY <2>1, <2>2 DEF SaveFails, disk
<1>3. TypeOK'
  BY <1>1, <1>2, Returns DEF IInv, TypeOK, history
<1>4. LogsInv'
  BY <1>1, Returns, LogsKept DEF IInv, LogsInv, SavedLogReadsWell, history
<1>5. DiskInv'
  BY <1>1, <1>2, DiskKept DEF IInv, history
<1>. QED BY <1>1, <1>3, <1>4, <1>5, Returns, AtRest DEF IInv

(* The rename puts a text into place that shows the whole log.             *)
LEMMA Renames == ASSUME IInv, Rename PROVE IInv'
<1>1. /\ pc = "rename" /\ Return("saved")
      /\ exists' = (exists \ {temp}) \cup {Final}
      /\ text' = [text EXCEPT ![Final] = text[temp], ![temp] = <<>>]
      /\ stored' = {snapshot} /\ torn' = FALSE
      /\ UNCHANGED <<kind, entries, faulty>>
  BY DEF Rename
<1>2. /\ Temporary \subseteq Name /\ Final \notin Temporary /\ Final \in Name
      /\ temp \in Temporary /\ buffer \in Seq(Line) /\ <<>> \in Seq(Line)
      /\ exists \subseteq Name /\ text \in [Name -> Seq(Line)]
      /\ text[temp] = buffer /\ todo = {} /\ snapshot \in Log
      /\ Store!IsLog(snapshot)
  BY <1>1, LogFileAssumption DEF Name, IInv, TypeOK, SaveInv, LogsInv
<1>3. /\ exists' \subseteq Name /\ text' \in [Name -> Seq(Line)]
      /\ text'[Final] = buffer
  BY <1>1, <1>2
<1>4. TypeOK'
  BY <1>1, <1>2, <1>3, Returns DEF IInv, TypeOK
<1>5. LogsInv'
  BY <1>1, <1>2, Returns, LogsKept DEF IInv, LogsInv, SavedLogReadsWell
<1>6. DiskInv'
  <2>1. PICK w : Shows(buffer, Printed, w)
    BY <1>1 DEF IInv, SaveInv
  <2>2. Printed = snapshot
    BY <1>2, LogFacts DEF Printed
  <2>3. \A f \in stored' : /\ Shows(buffer, f, w)
                           /\ f = snapshot
    BY <1>1, <2>1, <2>2
  <2>4. CutOf(buffer, buffer)
    BY <1>2 DEF CutOf
  <2>5. \A f \in stored' :
          \E T, x : Shows(T, f, x)' /\ CutOf(text'[Final], T)
                    /\ text'[Final] = T
    <3>1. PICK t : t = buffer
      OBVIOUS
    <3>2. \A f \in stored' : Shows(t, f, w)
      BY <2>3, <3>1
    <3>3. \A f \in stored' : Shows(t, f, w)'
      BY <1>1, <3>2, KindKept
    <3>. QED BY <1>3, <2>4, <3>1, <3>3
  <2>. QED BY <1>1, <2>5 DEF DiskInv
<1>. QED BY <1>1, <1>4, <1>5, <1>6, Returns, AtRest DEF IInv

(* A cut at the end of the log, perhaps one more.                          *)
LEMMA Loses == ASSUME IInv, LoseEnd PROVE IInv'
<1>1. /\ pc = "idle" /\ Final \in exists /\ torn' = TRUE /\ pc' = pc
      /\ UNCHANGED <<kind, exists, stored, entries, answer, saving, loading>>
  BY DEF LoseEnd
<1>2. Final \in Name /\ text \in [Name -> Seq(Line)]
  BY DEF IInv, TypeOK, Name
<1>3. PICK f \in stored : TRUE
  BY <1>1 DEF IInv, DiskInv
<1>4. \A T : CutOf(text[Final], T) /\ T \in Seq(Line) =>
               CutOf(text'[Final], T)
  <2>1. SUFFICES ASSUME NEW T \in Seq(Line), CutOf(text[Final], T)
                 PROVE  CutOf(text'[Final], T)
    OBVIOUS
  <2>2. PICK t : t = text[Final]
    OBVIOUS
  <2>3. PICK n \in 0..Len(t) - 1 : \E last \in CutLine(t[n + 1]) \cup {<<>>} :
          text'[Final] = IF last = <<>> THEN SubSeq(t, 1, n)
                         ELSE Append(SubSeq(t, 1, n), last)
    BY <1>2, <2>2 DEF LoseEnd
  <2>4. PICK last \in CutLine(t[n + 1]) \cup {<<>>} :
          text'[Final] = IF last = <<>> THEN SubSeq(t, 1, n)
                         ELSE Append(SubSeq(t, 1, n), last)
    BY <2>3
  <2>5. CutOf(t, T)
    BY <2>1, <2>2
  <2>6. CutOf(IF last = <<>> THEN SubSeq(t, 1, n)
              ELSE Append(SubSeq(t, 1, n), last), T)
    BY ONLY <2>1, <2>5, CutAgain
  <2>. QED BY <2>4, <2>6
<1>5. text' \in [Name -> Seq(Line)]
  <2>1. PICK T, w : Shows(T, f, w) /\ CutOf(text[Final], T)
    BY <1>3 DEF IInv, DiskInv
  <2>2. text'[Final] \in Seq(Line)
    BY <1>4, <2>1 DEF Shows, CutOf
  <2>3. text' = [text EXCEPT ![Final] = text'[Final]]
    BY <1>2 DEF LoseEnd
  <2>. QED BY <1>2, <2>2, <2>3
<1>6. TypeOK'
  BY <1>1, <1>5 DEF IInv, TypeOK, saving, loading
<1>7. LogsInv'
  BY <1>1, LogsKept DEF IInv, LogsInv, SavedLogReadsWell, saving, loading
<1>8. DiskInv'
  <2>1. \A g \in stored : \E T, w : Shows(T, g, w) /\ CutOf(text'[Final], T)
    <3>1. \A T, g, w : Shows(T, g, w) => T \in Seq(Line)
      BY DEF Shows
    <3>. QED BY <1>4, <3>1 DEF IInv, DiskInv
  <2>. QED BY <1>1, <2>1, KindKept DEF IInv, DiskInv
<1>. QED BY <1>1, <1>6, <1>7, <1>8, AtRest DEF IInv


-----------------------------------------------------------------------------
(* load().                                                                 *)

LEMMA CallEnds ==
  ASSUME IInv, NEW a, Return(a), UNCHANGED disk,
         entries' \in Log, faulty' \in BOOLEAN,
         a \in {"none", "ok", "missing", "io_error", "corrupted",
                "unsupported_version"},
         a \in {"corrupted", "unsupported_version"} => faulty'
  PROVE  IInv'
<1>1. TypeOK'
  BY Returns, LogIsLog DEF IInv, TypeOK, disk, history
<1>2. LogsInv'
  BY Returns, LogsKept DEF IInv, LogsInv, SavedLogReadsWell, disk, history
<1>3. DiskInv'
  BY DiskKept DEF IInv, disk, history
<1>. QED BY <1>1, <1>2, <1>3, Returns, AtRest DEF IInv

LEMMA Refuses == ASSUME IInv, Corrupted, faulty PROVE IInv'
BY CallEnds DEF Corrupted, IInv, LogsInv, TypeOK

(* f is the log that was saved, as T, and load() has reached its place.    *)
At(f, T, w) ==
  /\ f \in Log /\ stored = {f} /\ Shows(T, f, w) /\ CutOf(input, T)
  /\ ~faulty => input = T
  /\ Place(f, T, w)

LEMMA Reading == ASSUME IInv, Loading PROVE \E f, T, w : At(f, T, w)
<1>1. PICK f \in stored : stored = {f}
  BY DEF IInv, LoadInv, DiskInv
<1>2. \E T, w : /\ Shows(T, f, w) /\ CutOf(input, T)
                /\ ~faulty => input = T
                /\ Place(f, T, w)
  BY <1>1 DEF IInv, LoadInv
<1>. QED BY <1>1, <1>2 DEF At, IInv, LogsInv

LEMMA LineRead ==
  ASSUME TypeOK, NEW f, NEW T, NEW w, At(f, T, w), ~AtEnd
  PROVE  /\ pos \in Nat /\ pos + 1 <= Len(input) /\ pos + 1 <= Len(T)
         /\ Len(T) \in Nat /\ Len(input) \in Nat
         /\ NextLine \in Line /\ T[pos + 1] \in Line
         /\ \/ NextLine = T[pos + 1]
            \/ /\ faulty /\ pos + 1 = Len(input)
               /\ NextLine \in CutLine(T[pos + 1])
<1>1. /\ T \in Seq(Line) /\ input \in Seq(Line) /\ Len(input) <= Len(T)
      /\ Len(T) \in Nat /\ Len(input) \in Nat
      /\ pos \in Nat /\ pos + 1 \in 1..Len(input)
  BY LenProperties DEF At, Shows, CutOf, TypeOK, AtEnd
<1>. QED BY <1>1, CutShows DEF At, NextLine

(* A step of load() that goes on.                                          *)
LEMMA GoesOn ==
  ASSUME IInv, NEW f, NEW T, NEW w, At(f, T, w),
         UNCHANGED <<disk, entries, answer, saving, input, faulty>>,
         Loading, Loading', TypeOK',
         pc' \in {"count", "input"} => kind = "deps",
         Place(f, T, w)'
  PROVE  IInv'
<1>1. LogsInv'
  BY LogsKept DEF IInv, LogsInv, SavedLogReadsWell, disk, history, saving
<1>2. DiskInv'
  BY DiskKept DEF IInv, disk, history
<1>3. SaveInv'
  BY DEF SaveInv, Loading
<1>4. LoadInv'
  <2>1. Shows(T, f, w)'
    BY KindKept DEF At, disk, history
  <2>2. \A g \in stored' : g = f
    BY DEF At, disk, history
  <2>. QED BY <2>1, <2>2 DEF At, LoadInv, IInv, disk, history
<1>. QED BY <1>1, <1>2, <1>3, <1>4 DEF IInv

LEMMA Opens == ASSUME IInv, RestInv, LoadOpen PROVE IInv'
<1>1. /\ pc = "idle" /\ pc' = "header" /\ Final \in exists /\ answer' = "none"
      /\ input' = text[Final] /\ faulty' = torn /\ pos = 0
      /\ UNCHANGED <<disk, entries, saving, pos, loaded, output, count,
                     inputs>>
  BY DEF LoadOpen, RestInv, Loading
<1>2. TypeOK'
  <2>1. text[Final] \in Seq(Line)
    BY DEF IInv, TypeOK, Name
  <2>. QED BY <1>1, <2>1, LenProperties
           DEF IInv, TypeOK, disk, history, saving
<1>3. LogsInv'
  BY <1>1, LogsKept DEF IInv, LogsInv, SavedLogReadsWell, disk, history,
                        saving
<1>4. DiskInv'
  BY <1>1, DiskKept DEF IInv, disk, history
<1>5. SaveInv'
  BY <1>1 DEF SaveInv
<1>6. LoadInv'
  <2>1. \A f, T, w : Place(f, T, w)'
    BY <1>1 DEF Place
  <2>. QED BY <1>1, <2>1, KindKept
           DEF IInv, LoadInv, DiskInv, disk, history
<1>. QED BY <1>2, <1>3, <1>4, <1>5, <1>6 DEF IInv

LEMMA HeaderRead == ASSUME IInv, RestInv, ReadHeader PROVE IInv'
<1>1. pc = "header" /\ Loading /\ loaded = empty
  BY DEF ReadHeader, Loading, RestInv
<1>2. PICK f, T, w : At(f, T, w)
  BY <1>1, Reading
<1>3. /\ pos = 0 /\ Len(T) \in Nat /\ Len(T) # 0 /\ T[1] = <<Header>>
      /\ ~faulty => input = T
  BY <1>1, <1>2, LenProperties DEF At, Place, Shows
<1>4. CASE AtEnd /\ Corrupted
  BY <1>3, <1>4, Refuses DEF AtEnd, IInv, TypeOK
<1>5. CASE /\ ~AtEnd /\ NextLine # <<Header>>
           /\ Return("unsupported_version")
           /\ UNCHANGED <<disk, entries, faulty>>
  <2>1. faulty
    BY <1>3, <1>5 DEF NextLine, IInv, TypeOK
  <2>. QED BY <1>5, <2>1, CallEnds DEF IInv, LogsInv, TypeOK
<1>6. CASE /\ ~AtEnd /\ pos' = 1 /\ pc' = "entry"
           /\ UNCHANGED <<disk, entries, answer, saving, input, loaded,
                          output, count, inputs, faulty>>
  <2>1. 1 \in 0..Len(input)
    BY <1>3, <1>6, LenProperties DEF AtEnd, IInv, TypeOK
  <2>2. TypeOK'
    BY <1>1, <1>6, <2>1 DEF IInv, TypeOK, disk, history, saving
  <2>3. LoadedTo(f, w, 1)
    <3>1. DOMAIN empty = {} /\ empty \in Log
      BY EmptyIsLog DEF empty, Store!empty
    <3>2. w \in [DOMAIN f -> Nat \ {0}]
      BY <1>2 DEF At, Shows
    <3>. QED BY <1>1, <3>1, <3>2 DEF LoadedTo, PartOf
  <2>4. LoadedTo(f, w, 1)'
    BY <1>6, <2>3, KindKept DEF LoadedTo, disk, history
  <2>5. Place(f, T, w)'
    BY <1>6, <2>4 DEF Place, Starts
  <2>. QED BY <1>1, <1>2, <1>6, <2>2, <2>5, GoesOn DEF Loading
<1>. QED BY <1>4, <1>5, <1>6 DEF ReadHeader

(* An entry is complete.                                                   *)
LEMMA Emplaces ==
  ASSUME IInv, Loading, NEW f, NEW T, NEW w, At(f, T, w),
         NEW o \in DOMAIN f, NEW v \in Values,
         LoadedTo(f, w, w[o]), pos + 1 = w[o] + Size(f[o]),
         pos + 1 <= Len(input),
         Len(v) = Len(f[o]),
         \A i \in 1..Len(v) :
           \/ v[i] = f[o][i]
           \/ faulty /\ i = Len(v) /\ v[i] \in Start[f[o][i]],
         Emplace(o, v)
  PROVE  IInv'
<1>1. /\ f \in Log /\ w \in [DOMAIN f -> Nat \ {0}]
      /\ o \in Output /\ f[o] \in Values /\ Size(f[o]) \in Nat \ {0}
      /\ loaded \in Log /\ DOMAIN loaded = {a \in DOMAIN f : w[a] < w[o]}
  BY LogFacts, ValueFacts DEF At, Shows, LoadedTo
<1>2. o \notin DOMAIN loaded
  BY <1>1
<1>3. /\ loaded' = With(loaded, o, v) /\ pos' = pos + 1 /\ pc' = "entry"
      /\ output' = Empty /\ count' = 0 /\ inputs' = <<>>
      /\ UNCHANGED <<disk, entries, answer, saving, input, faulty>>
  BY <1>2 DEF Emplace
<1>4. loaded' \in Log
  BY <1>1, <1>3, WithIsLog
<1>5. TypeOK'
  <2>1. Store!IsLog(loaded') /\ Empty \in Word
    BY <1>4, LogIsLog, LogFileAssumption
  <2>2. pos' \in 0..Len(input)
    BY <1>1, <1>3, LenProperties DEF IInv, TypeOK
  <2>. QED BY <1>3, <2>1, <2>2 DEF IInv, TypeOK, Loading, disk, history,
                                   saving
<1>. PICK p : p = pos + 1
  OBVIOUS
<1>6. LoadedTo(f, w, p)'
  <2>1. /\ DOMAIN loaded' = DOMAIN loaded \cup {o} /\ loaded'[o] = v
        /\ \A a \in DOMAIN loaded : loaded'[a] = loaded[a]
    BY <1>2, <1>3 DEF With
  <2>2. {a \in DOMAIN f : w[a] < p} =
          {a \in DOMAIN f : w[a] < w[o]} \cup {o}
    <3>1. \A a \in DOMAIN f : \/ a = o
                              \/ w[a] + Size(f[a]) <= w[o]
                              \/ w[o] + Size(f[o]) <= w[a]
      BY DEF At, Shows
    <3>2. \A a \in DOMAIN f : Size(f[a]) \in Nat \ {0}
      BY <1>1, LogFacts, ValueFacts
    <3>3. \A a \in DOMAIN f : w[a] < w[o] + Size(f[o]) <=>
                                w[a] < w[o] \/ a = o
      BY <1>1, <3>1, <3>2
    <3>. QED BY <3>3
  <2>3. PartOf(loaded', f)
    BY <1>1, <2>1 DEF LoadedTo, PartOf
  <2>4. ~faulty => v = f[o]
    <3>1. v \in Seq(Word) /\ f[o] \in Seq(Word)
      BY <1>1, ValueTyped
    <3>. QED BY <3>1
  <2>5. ~faulty => \A a \in DOMAIN loaded' : loaded'[a] = f[a]
    BY <2>1, <2>4 DEF LoadedTo
  <2>6. DOMAIN loaded' = {a \in DOMAIN f : w[a] < p}
    BY <1>1, <2>1, <2>2
  <2>. QED BY <1>3, <1>4, <2>3, <2>5, <2>6, KindKept
           DEF LoadedTo, disk, history
<1>7. Place(f, T, w)'
  <2>1. Starts(f, w, pos + 1) /\ pos + 1 # 0
    BY <1>1 DEF Starts, IInv, TypeOK
  <2>2. Starts(f, w, pos)'
    BY <1>3, <2>1, KindKept DEF disk, history
  <2>3. LoadedTo(f, w, pos)'
    BY <1>3, <1>6 DEF LoadedTo
  <2>. QED BY <1>3, <2>1, <2>2, <2>3 DEF Place
<1>. QED BY <1>3, <1>5, <1>7, GoesOn DEF Loading


LEMMA BuildLineRead == ASSUME IInv, ReadBuildLine PROVE IInv'
<1>1. pc = "entry" /\ Loading /\ kind = "build" /\ ~AtEnd
  BY DEF ReadBuildLine, Loading
<1>2. PICK f, T, w : At(f, T, w)
  BY <1>1, Reading
<1>3. /\ pos \in Nat /\ pos + 1 <= Len(input) /\ pos < Len(T)
      /\ Starts(f, w, pos) /\ LoadedTo(f, w, pos)
      /\ NextLine \in Line /\ T[pos + 1] \in Line
      /\ \/ NextLine = T[pos + 1]
         \/ faulty /\ NextLine \in CutLine(T[pos + 1])
  BY <1>1, <1>2, LineRead DEF IInv, At, Place
<1>4. PICK o \in DOMAIN f : w[o] = pos /\ Entry(T, pos, o, f[o])
  BY <1>2, <1>3, NextEntry DEF At
<1>5. /\ T[pos + 1] = <<o, f[o][1]>> /\ f[o] = <<f[o][1]>>
      /\ f[o][1] \in Numeral /\ o \in Output /\ o # Empty
      /\ Size(f[o]) = 1
  <2>1. f \in Log
    BY <1>2 DEF At
  <2>. QED BY <1>1, <1>4, <2>1, LogFacts, ValueFacts, LogFileAssumption
           DEF Entry, Size
<1>6. CASE NextLine # T[pos + 1] /\ Corrupted
  BY <1>3, <1>6, Refuses
<1>7. ~IsBuildLine(NextLine) => NextLine # T[pos + 1]
  BY <1>5 DEF IsBuildLine
<1>8. CASE IsBuildLine(NextLine) /\ Emplace(NextLine[1], <<NextLine[2]>>)
  <2>. DEFINE n == NextLine[2]
  <2>1. n \in Numeral /\ n # Empty /\ Len(NextLine) = 2
    BY <1>8, LogFileAssumption DEF IsBuildLine
  <2>2. NextLine[1] = o /\ (n = f[o][1] \/ (faulty /\ n \in Start[f[o][1]]))
    <3>1. CASE NextLine = T[pos + 1]
      <4>1. NextLine = <<o, f[o][1]>>
        BY <1>5, <3>1
      <4>. QED BY <4>1
    <3>2. CASE faulty /\ NextLine \in CutLine(T[pos + 1])
      <4>1. \/ Len(NextLine) = 1
            \/ \E y \in Start[T[pos + 1][2]] \cup {Empty} :
                 NextLine = <<T[pos + 1][1], y>>
        BY <1>3, <1>5, <3>2, CutLines
      <4>. QED BY <1>5, <2>1, <3>2, <4>1
    <3>. QED BY <1>3, <3>1, <3>2
  <2>. HIDE DEF n
  <2>3. <<n>> \in Values /\ Len(<<n>>) = 1 /\ Len(f[o]) = 1 /\ <<n>>[1] = n
    BY <1>1, <1>5, <2>1 DEF Values
  <2>4. Emplace(o, <<n>>)
    BY <1>8, <2>2 DEF n
  <2>. DEFINE v == <<n>>
  <2>. HIDE DEF v
  <2>5. /\ v \in Values /\ Len(v) = Len(f[o]) /\ Emplace(o, v)
        /\ \A i \in 1..Len(v) : \/ v[i] = f[o][i]
                                \/ /\ faulty /\ i = Len(v)
                                   /\ v[i] \in Start[f[o][i]]
    BY <2>2, <2>3, <2>4 DEF v
  <2>6. LoadedTo(f, w, w[o]) /\ pos + 1 = w[o] + Size(f[o])
    BY <1>3, <1>4, <1>5
  <2>. QED BY <1>1, <1>2, <1>3, <2>5, <2>6, Emplaces
<1>. QED BY <1>6, <1>7, <1>8 DEF ReadBuildLine

LEMMA OutputRead == ASSUME IInv, RestInv, ReadOutput PROVE IInv'
<1>1. pc = "entry" /\ Loading /\ kind = "deps" /\ ~AtEnd
  BY DEF ReadOutput, Loading
<1>2. PICK f, T, w : At(f, T, w)
  BY <1>1, Reading
<1>3. /\ pos \in Nat /\ pos + 1 <= Len(input) /\ pos < Len(T)
      /\ Len(input) \in Nat
      /\ Starts(f, w, pos) /\ LoadedTo(f, w, pos)
      /\ NextLine \in Line /\ T[pos + 1] \in Line
      /\ \/ NextLine = T[pos + 1]
         \/ /\ faulty /\ pos + 1 = Len(input)
            /\ NextLine \in CutLine(T[pos + 1])
  BY <1>1, <1>2, LineRead DEF IInv, At, Place
<1>4. PICK o \in DOMAIN f : w[o] = pos /\ Entry(T, pos, o, f[o])
  BY <1>2, <1>3, NextEntry DEF At
<1>5. T[pos + 1] = <<o>> /\ o \in Output /\ o # Empty
  <2>1. f \in Log
    BY <1>2 DEF At
  <2>. QED BY <1>1, <1>4, <2>1, LogFacts, LogFileAssumption DEF Entry
<1>6. /\ NextLine # <<Empty>> /\ NextLine[1] \in Word
      /\ NextLine[1] = o \/ (faulty /\ pos + 1 = Len(input))
  <2>1. CASE NextLine = T[pos + 1]
    BY <1>5, <2>1, LogFileAssumption
  <2>2. CASE /\ faulty /\ pos + 1 = Len(input)
             /\ NextLine \in CutLine(T[pos + 1])
    <3>1. \E y \in Start[o] : NextLine = <<y>>
      BY <1>3, <1>5, <2>2, CutLines
    <3>2. Start[o] \subseteq Word \ {Empty}
      BY <1>5, LogFileAssumption
    <3>. QED BY <2>2, <3>1, <3>2
  <2>. QED BY <1>3, <2>1, <2>2
<1>7. /\ output' = NextLine[1] /\ pos' = pos + 1 /\ pc' = "count"
      /\ UNCHANGED <<disk, entries, answer, saving, input, loaded, count,
                     inputs, faulty>>
  BY <1>6 DEF ReadOutput
<1>8. TypeOK'
  <2>1. pos' \in 0..Len(input)
    BY <1>3, <1>7
  <2>. QED BY <1>1, <1>6, <1>7, <2>1
           DEF IInv, TypeOK, disk, history, saving
<1>9. Place(f, T, w)'
  <2>1. pos' = w[o] + 1
    BY <1>4, <1>7
  <2>. DEFINE n == NextLine[1]
  <2>2. output' = n /\ (n = o \/ (faulty /\ pos + 1 = Len(input)))
    BY <1>6, <1>7
  <2>. HIDE DEF n
  <2>3. output' = o \/ (AtEnd' /\ faulty')
    BY <1>7, <2>2 DEF AtEnd
  <2>4. LoadedTo(f, w, w[o])'
    BY <1>3, <1>4, <1>7, KindKept DEF LoadedTo, disk, history
  <2>. QED BY <1>7, <2>1, <2>3, <2>4 DEF Place
<1>. QED BY <1>1, <1>2, <1>7, <1>8, <1>9, GoesOn DEF Loading, disk, history

LEMMA CountRead == ASSUME IInv, RestInv, ReadCount PROVE IInv'
<1>1. pc = "count" /\ Loading /\ kind = "deps" /\ inputs = <<>>
  BY DEF ReadCount, Loading, IInv, LoadInv, RestInv
<1>2. PICK f, T, w : At(f, T, w)
  BY <1>1, Reading
<1>3. PICK o \in DOMAIN f :
        /\ pos = w[o] + 1 /\ LoadedTo(f, w, w[o])
        /\ output = o \/ (AtEnd /\ faulty)
  BY <1>1, <1>2 DEF At, Place
<1>. DEFINE d == Digits[Len(f[o])]
<1>4. /\ f \in Log /\ o \in Output /\ f[o] \in Values
      /\ w[o] \in Nat \ {0} /\ Entry(T, w[o], o, f[o])
  BY <1>2, LogFacts DEF At, Shows
<1>5. /\ T[pos + 1] = <<d>> /\ d \in Numeral /\ Number[d] = Len(f[o])
      /\ Len(f[o]) \in Nat /\ Size(f[o]) = 2 + Len(f[o])
      /\ pos + 1 <= Len(T) /\ pos \in Nat /\ Len(T) \in Nat
      /\ \A x \in Start[d] \cap Numeral : Number[x] # 0
  <2>1. Len(T) \in Nat
    BY <1>2, LenProperties DEF At, Shows
  <2>. QED BY <1>1, <1>3, <1>4, <2>1, ValueFacts DEF Entry, Size
<1>. HIDE DEF d
<1>6. AtEnd => faulty
  BY <1>2, <1>5 DEF At, AtEnd
<1>7. CASE ~CountFollows /\ Corrupted
  <2>1. CASE ~AtEnd
    <3>1. NextLine = T[pos + 1] \/ faulty
      BY <1>2, <2>1, LineRead DEF IInv
    <3>. QED BY <1>5, <1>7, <2>1, <3>1, Refuses DEF CountFollows
  <2>. QED BY <1>6, <1>7, <2>1, Refuses
<1>8. CASE CountFollows
  <2>. DEFINE n == NextLine[1]
  <2>1. /\ ~AtEnd /\ n \in Numeral /\ Len(input) \in Nat
        /\ pos + 1 <= Len(input) /\ output = o
        /\ \/ NextLine = T[pos + 1]
           \/ /\ faulty /\ pos + 1 = Len(input)
              /\ NextLine \in CutLine(T[pos + 1])
        /\ T[pos + 1] \in Line
    BY <1>2, <1>3, <1>8, LineRead DEF IInv, CountFollows
  <2>2. n = d \/ (faulty /\ pos + 1 = Len(input) /\ n \in Start[d])
    <3>1. CASE NextLine = T[pos + 1]
      <4>1. NextLine = <<d>>
        BY <1>5, <3>1
      <4>. QED BY <4>1
    <3>2. CASE /\ faulty /\ pos + 1 = Len(input)
               /\ NextLine \in CutLine(T[pos + 1])
      <4>1. \E y \in Start[d] : NextLine = <<y>>
        BY <1>5, <2>1, <3>2, CutLines
      <4>. QED BY <3>2, <4>1
    <3>. QED BY <2>1, <3>1, <3>2
  <2>3. Number[n] \in Nat
    BY <2>1, LogFileAssumption
  <2>4. CASE Number[n] = 0 /\ Emplace(output, <<>>)
    <3>1. Len(f[o]) = 0 /\ n = d
      BY <1>5, <2>1, <2>2, <2>4
    <3>2. f[o] = <<>>
      BY <1>4, <3>1, <1>1 DEF Values
    <3>3. pos + 1 = w[o] + Size(f[o])
      BY <1>3, <1>4, <1>5, <3>1
    <3>4. Emplace(o, f[o])
      BY <2>1, <2>4, <3>2
    <3>. QED BY <1>1, <1>2, <1>3, <1>4, <2>1, <3>3, <3>4, Emplaces
  <2>5. CASE /\ Number[n] # 0
             /\ count' = Number[n] /\ pos' = pos + 1 /\ pc' = "input"
             /\ UNCHANGED <<disk, entries, answer, saving, input, loaded,
                            output, inputs, faulty>>
    <3>1. pos' \in 0..Len(input)
      BY <1>5, <2>1, <2>5
    <3>2. TypeOK'
      BY <1>1, <2>3, <2>5, <3>1 DEF IInv, TypeOK, disk, history, saving
    <3>3. LoadedTo(f, w, w[o])'
      BY <1>3, <2>5, KindKept DEF LoadedTo, disk, history
    <3>4. /\ pos' = w[o] + 2 + Len(inputs') /\ Len(inputs') < count'
          /\ \A i \in 1..Len(inputs') : inputs'[i] = f[o][i]
      BY <1>1, <1>3, <1>4, <2>3, <2>5
    <3>5. \/ AtEnd' /\ faulty'
          \/ output' = o /\ count' = Len(f[o])
      BY <1>5, <2>1, <2>2, <2>5 DEF AtEnd
    <3>6. Place(f, T, w)'
      BY <2>5, <3>3, <3>4, <3>5 DEF Place
    <3>. QED BY <1>1, <1>2, <2>5, <3>2, <3>6, GoesOn
             DEF Loading, disk, history
  <2>. QED BY <1>8, <2>4, <2>5 DEF ReadCount
<1>. QED BY <1>7, <1>8 DEF ReadCount

LEMMA InputRead == ASSUME IInv, ReadInput PROVE IInv'
<1>1. pc = "input" /\ Loading /\ kind = "deps"
  BY DEF ReadInput, Loading, IInv, LoadInv
<1>2. PICK f, T, w : At(f, T, w)
  BY <1>1, Reading
<1>. DEFINE k == Len(inputs) + 1
<1>3. PICK o \in DOMAIN f :
        /\ pos = w[o] + 2 + Len(inputs) /\ LoadedTo(f, w, w[o])
        /\ Len(inputs) < count
        /\ \/ AtEnd /\ faulty
           \/ /\ output = o /\ count = Len(f[o])
              /\ \A i \in 1..Len(inputs) : inputs[i] = f[o][i]
  BY <1>1, <1>2 DEF At, Place
<1>4. /\ f \in Log /\ o \in Output /\ f[o] \in Values
      /\ w[o] \in Nat \ {0} /\ Entry(T, w[o], o, f[o])
      /\ inputs \in Seq(Word) /\ Len(inputs) \in Nat /\ count \in Nat
      /\ Len(T) \in Nat /\ Len(f[o]) \in Nat
      /\ pos \in Nat /\ pos + 1 = w[o] + 2 + k /\ k \in Nat \ {0}
  <2>1. Len(T) \in Nat
    BY <1>2, LenProperties DEF At, Shows
  <2>2. f \in Log /\ Entry(T, w[o], o, f[o]) /\ w[o] \in Nat \ {0}
    BY <1>2 DEF At, Shows
  <2>3. inputs \in Seq(Word) /\ Len(inputs) \in Nat /\ count \in Nat
    BY LenProperties DEF IInv, TypeOK
  <2>4. o \in Output /\ f[o] \in Values /\ Len(f[o]) \in Nat
    BY <2>2, LogFacts, ValueFacts
  <2>. DEFINE n == Len(inputs)
  <2>. HIDE DEF n
  <2>5. /\ w[o] + 2 + n \in Nat /\ n + 1 \in Nat \ {0}
        /\ w[o] + 2 + n + 1 = w[o] + 2 + (n + 1)
    BY <2>2, <2>3 DEF n
  <2>. QED BY <1>3, <2>1, <2>2, <2>3, <2>4, <2>5 DEF n
<1>. HIDE DEF k
<1>5. ~(AtEnd /\ faulty) =>
        /\ k <= Len(f[o]) /\ pos + 1 <= Len(T) /\ T[pos + 1] = <<f[o][k]>>
        /\ f[o][k] \in Word /\ f[o][k] # Empty
  <2>1. SUFFICES ASSUME ~(AtEnd /\ faulty)
                 PROVE  /\ k <= Len(f[o]) /\ pos + 1 <= Len(T)
                        /\ T[pos + 1] = <<f[o][k]>>
                        /\ f[o][k] \in Word /\ f[o][k] # Empty
    OBVIOUS
  <2>2. k <= Len(f[o]) /\ k \in 1..Len(f[o])
    BY <1>3, <1>4, <2>1 DEF k
  <2>3. Size(f[o]) = 2 + Len(f[o]) /\ w[o] + Size(f[o]) <= Len(T)
        /\ T[w[o] + 2 + k] = <<f[o][k]>>
    BY <1>1, <1>4, <2>2 DEF Entry, Size
  <2>4. f[o][k] \in Word /\ f[o][k] # Empty
    BY <1>1, <1>4, <2>2, ValueFacts
  <2>. QED BY <1>4, <2>2, <2>3, <2>4
<1>6. AtEnd => faulty
  <2>1. ~AtEnd \/ faulty \/ pos + 1 <= Len(input)
    BY <1>2, <1>5 DEF At
  <2>. QED BY <1>4, <2>1 DEF AtEnd
<1>7. ~AtEnd =>
        /\ NextLine # <<Empty>> /\ NextLine[1] \in Word
        /\ NextLine[1] # Empty /\ Len(input) \in Nat
        /\ pos + 1 <= Len(input)
        /\ \/ NextLine[1] = f[o][k]
           \/ /\ faulty /\ pos + 1 = Len(input)
              /\ NextLine[1] \in Start[f[o][k]]
  <2>1. SUFFICES ASSUME ~AtEnd
                 PROVE  /\ NextLine # <<Empty>> /\ NextLine[1] \in Word
                        /\ NextLine[1] # Empty /\ Len(input) \in Nat
                        /\ pos + 1 <= Len(input)
                        /\ \/ NextLine[1] = f[o][k]
                           \/ /\ faulty /\ pos + 1 = Len(input)
                              /\ NextLine[1] \in Start[f[o][k]]
    OBVIOUS
  <2>2. /\ \/ NextLine = T[pos + 1]
           \/ /\ faulty /\ pos + 1 = Len(input)
              /\ NextLine \in CutLine(T[pos + 1])
        /\ T[pos + 1] \in Line /\ Len(input) \in Nat
        /\ pos + 1 <= Len(input)
    BY <1>2, <2>1, LineRead DEF IInv
  <2>3. CASE NextLine = T[pos + 1]
    BY <1>5, <2>1, <2>2, <2>3
  <2>4. CASE /\ faulty /\ pos + 1 = Len(input)
             /\ NextLine \in CutLine(T[pos + 1])
    <3>1. \E y \in Start[f[o][k]] : NextLine = <<y>>
      <4>. DEFINE z == f[o][k]
                  l == T[pos + 1]
      <4>1. l = <<z>> /\ l \in Line /\ NextLine \in CutLine(l)
        BY <1>5, <2>1, <2>2, <2>4
      <4>. HIDE DEF z, l
      <4>2. Len(l) = 1 /\ l[1] = z
        BY ONLY <4>1
      <4>3. \E y \in Start[l[1]] : NextLine = <<y>>
        BY ONLY <4>1, <4>2, CutLines
      <4>. QED BY <4>2, <4>3 DEF z
    <3>2. Start[f[o][k]] \subseteq Word \ {Empty}
      BY <1>5, <2>1, LogFileAssumption
    <3>. QED BY <2>2, <2>4, <3>1, <3>2
  <2>. QED BY <2>2, <2>3, <2>4
<1>8. CASE AtEnd
  <2>1. Corrupted
    BY <1>8 DEF ReadInput, PathFollows
  <2>. QED BY <1>6, <1>8, <2>1, Refuses
<1>9. CASE ~AtEnd
  <2>. DEFINE x == NextLine[1]
              read == Append(inputs, x)
  <2>1. /\ output = o /\ count = Len(f[o]) /\ k <= count
        /\ \A i \in 1..Len(inputs) : inputs[i] = f[o][i]
    BY <1>3, <1>5, <1>9
  <2>2. x \in Word /\ x # Empty
    BY <1>7, <1>9
  <2>3. IF AllRead(read) THEN Emplace(output, read)
        ELSE /\ inputs' = read /\ pos' = pos + 1
             /\ UNCHANGED <<disk, pc, entries, answer, saving, input, loaded,
                            output, count, faulty>>
    BY <1>7, <1>9 DEF ReadInput, PathFollows
  <2>. HIDE DEF x
  <2>4. /\ read \in Seq(Word) /\ Len(read) = k
        /\ \A i \in 1..Len(inputs) : read[i] = inputs[i]
        /\ read[k] = x
    BY <1>4, <2>2, AppendProperties DEF k
  <2>. HIDE DEF read
  <2>5. \A i \in 1..k : i = k \/ i \in 1..Len(inputs)
    BY <1>4 DEF k
  <2>6. \A i \in 1..Len(read) :
          \/ read[i] = f[o][i]
          \/ /\ faulty /\ i = Len(read) /\ pos + 1 = Len(input)
             /\ read[i] \in Start[f[o][i]]
    BY <1>7, <1>9, <2>1, <2>4, <2>5 DEF x
  <2>7. CASE AllRead(read)
    <3>1. k = Len(f[o]) /\ Len(read) = Len(f[o])
      BY <2>1, <2>4, <2>7 DEF AllRead
    <3>2. \A i \in 1..Len(read) : read[i] \in Word \ {Empty}
      <4>1. \A i \in 1..Len(inputs) : f[o][i] \in Word \ {Empty}
        <5>1. \A i \in 1..Len(inputs) : i \in 1..Len(f[o])
          BY <1>4, <3>1 DEF k
        <5>. QED BY <1>1, <1>4, <5>1, ValueFacts
      <4>. QED BY <2>1, <2>2, <2>4, <2>5, <4>1
    <3>3. read \in Seq(Word \ {Empty})
      BY <2>4, <3>2
    <3>4. read \in Values
      BY <1>1, <1>4, <3>1, <3>3, ValueFacts DEF Values
    <3>5. pos + 1 = w[o] + Size(f[o])
      BY <1>1, <1>4, <3>1 DEF Size
    <3>6. Emplace(o, read)
      BY <2>1, <2>3, <2>7
    <3>7. \A i \in 1..Len(read) :
            \/ read[i] = f[o][i]
            \/ faulty /\ i = Len(read) /\ read[i] \in Start[f[o][i]]
      BY <2>6
    <3>8. pos + 1 <= Len(input)
      BY <1>7, <1>9
    <3>. QED BY <1>1, <1>2, <1>3, <3>1, <3>4, <3>5, <3>6, <3>7, <3>8, Emplaces
  <2>8. CASE ~AllRead(read)
    <3>1. /\ inputs' = read /\ pos' = pos + 1
          /\ UNCHANGED <<disk, pc, entries, answer, saving, input, loaded,
                         output, count, faulty>>
      BY <2>3, <2>8
    <3>2. k < count
      BY <1>4, <2>1, <2>4, <2>8 DEF AllRead
    <3>3. pos' \in 0..Len(input)
      BY <1>4, <1>7, <1>9, <3>1
    <3>4. TypeOK'
      BY <1>1, <2>4, <3>1, <3>3 DEF IInv, TypeOK, disk, history, saving
    <3>5. LoadedTo(f, w, w[o])'
      BY <1>3, <3>1, KindKept DEF LoadedTo, disk, history
    <3>6. pos' = w[o] + 2 + Len(inputs') /\ Len(inputs') < count'
      BY <1>4, <2>4, <3>1, <3>2
    <3>7. \/ AtEnd' /\ faulty'
          \/ /\ output' = o /\ count' = Len(f[o])
             /\ \A i \in 1..Len(inputs') : inputs'[i] = f[o][i]
      BY <2>1, <2>6, <3>1 DEF AtEnd
    <3>8. Place(f, T, w)'
      BY <1>1, <3>1, <3>5, <3>6, <3>7 DEF Place
    <3>. QED BY <1>1, <1>2, <3>1, <3>4, <3>8, GoesOn
             DEF Loading, disk, history
  <2>. QED BY <2>7, <2>8
<1>. QED BY <1>8, <1>9


LEMMA Commits == ASSUME IInv, Commit PROVE IInv'
<1>1. pc = "entry" /\ Loading
  BY DEF Commit, Loading
<1>2. PICK f, T, w : At(f, T, w)
  BY <1>1, Reading
<1>3. loaded \in Log
  BY <1>1, <1>2 DEF At, Place, LoadedTo
<1>. QED BY <1>3, CallEnds DEF Commit, IInv, TypeOK

-----------------------------------------------------------------------------
LEMMA Rests == ASSUME RestInv, [Next]_vars PROVE RestInv'
<1>. USE DEF RestInv, Loading
<1>1. ASSUME NEW a, Return(a) PROVE RestInv'
  BY <1>1 DEF Return
<1>2. CASE UNCHANGED vars
  BY <1>2 DEF vars, loading
<1>3. ASSUME NEW o \in Output, NEW v \in Value, Record(o, v) PROVE RestInv'
  BY <1>3 DEF Record, loading
<1>4. CASE Clear \/ BeginSave
  BY <1>4 DEF Clear, BeginSave, loading
<1>5. ASSUME NEW o \in Output, PrintEntry(o) PROVE RestInv'
  BY <1>5 DEF PrintEntry, loading
<1>6. CASE RemoveOldTemp \/ OpenTemp \/ Write \/ CloseTemp
  BY <1>6 DEF RemoveOldTemp, OpenTemp, Write, CloseTemp, loading
<1>7. CASE \/ SaveFails \/ Rename \/ LoadMissing \/ LoadFails \/ Commit
           \/ Kill
  BY <1>1, <1>7 DEF SaveFails, Rename, LoadMissing, LoadFails, Commit, Kill
<1>8. CASE LoadOpen
  BY <1>8 DEF LoadOpen
<1>9. CASE ReadHeader
  BY <1>1, <1>9 DEF ReadHeader, Corrupted
<1>10. CASE ReadBuildLine
  BY <1>1, <1>10 DEF ReadBuildLine, Corrupted, Emplace
<1>11. CASE ReadOutput
  BY <1>1, <1>11 DEF ReadOutput, Corrupted
<1>12. CASE ReadCount
  BY <1>1, <1>12 DEF ReadCount, Corrupted, Emplace
<1>13. CASE ReadInput
  BY <1>1, <1>13 DEF ReadInput, Corrupted, Emplace
<1>14. CASE LoseEnd
  BY <1>14 DEF LoseEnd, loading
<1>. QED BY <1>2, <1>3, <1>4, <1>5, <1>6, <1>7, <1>8, <1>9, <1>10, <1>11,
            <1>12, <1>13, <1>14 DEF Next

(* The invariant holds at first, and every step keeps it.                  *)
LEMMA Initial == ASSUME Init PROVE IInv /\ RestInv
<1>1. empty \in Log /\ Store!IsLog(empty)
  BY EmptyIsLog, LogIsLog
<1>2. Empty \in Word /\ Final \in Name
  BY LogFileAssumption DEF Name
<1>3. TypeOK
  <2>1. /\ snapshot = empty /\ loaded = empty /\ entries = empty
        /\ todo = {} /\ temp = Final /\ buffer = <<>> /\ input = <<>>
        /\ inputs = <<>> /\ output = Empty /\ count = 0 /\ pos = 0
        /\ pc = "idle" /\ answer = "none" /\ stored = {}
        /\ exists = {} /\ torn = FALSE /\ faulty = FALSE
        /\ kind \in {"build", "deps"}
    BY DEF Init, Idle
  <2>2. text \in [Name -> Seq(Line)]
    BY DEF Init
  <2>3. /\ buffer \in Seq(Line) /\ input \in Seq(Line)
        /\ inputs \in Seq(Word) /\ pos \in 0..Len(input)
    BY <2>1
  <2>. QED BY <1>1, <1>2, <2>1, <2>2, <2>3 DEF TypeOK
<1>4. LogsInv
  BY <1>1 DEF Init, Idle, LogsInv, SavedLogReadsWell
<1>5. SaveInv /\ DiskInv /\ LoadInv /\ RestInv
  BY DEF Init, Idle, SaveInv, DiskInv, LoadInv, Loading, RestInv
<1>. QED BY <1>3, <1>4, <1>5 DEF IInv

LEMMA Inductive ==
  ASSUME IInv, RestInv, [Next]_vars
  PROVE  IInv'
<1>1. CASE UNCHANGED vars
  <2>1. /\ UNCHANGED <<disk, pc, entries, answer, saving, loading>>
        /\ UNCHANGED <<kind, stored, torn, exists, text>>
    BY <1>1 DEF vars, disk, history
  <2>2. TypeOK'
    BY <2>1 DEF IInv, TypeOK, saving, loading
  <2>3. LogsInv'
    BY <2>1, LogsKept DEF IInv, LogsInv, SavedLogReadsWell, saving, loading
  <2>. QED BY <2>1, <2>2, <2>3, SaveKept, DiskKept, LoadKept DEF IInv
<1>2. CASE (\E o \in Output, v \in Value : Record(o, v)) \/ Clear
  BY <1>2, InMemory
<1>3. CASE BeginSave
  BY <1>3, Begins
<1>4. ASSUME NEW o \in Output, PrintEntry(o) PROVE IInv'
  BY <1>4, Prints
<1>5. CASE RemoveOldTemp \/ OpenTemp \/ Write \/ CloseTemp
  BY <1>5, Writes
<1>6. CASE SaveFails \/ Rename \/ LoseEnd
  BY <1>6, Fails, Renames, Loses
<1>7. CASE LoadMissing
  BY <1>7, CallEnds DEF LoadMissing, IInv, LogsInv, TypeOK
<1>8. CASE LoadFails
  <2>1. /\ entries' = entries /\ UNCHANGED disk /\ faulty' = TRUE
        /\ Return("io_error") \/ Return("corrupted")
    BY <1>8 DEF LoadFails
  <2>. QED BY <2>1, CallEnds DEF IInv, LogsInv
<1>9. CASE LoadOpen
  BY <1>9, Opens
<1>10. CASE ReadHeader \/ ReadBuildLine \/ ReadOutput \/ ReadCount
            \/ ReadInput
  BY <1>10, HeaderRead, BuildLineRead, OutputRead, CountRead, InputRead
<1>11. CASE Commit
  BY <1>11, Commits
<1>12. CASE Kill
  BY <1>12, CallEnds, EmptyIsLog DEF Kill, IInv, TypeOK
<1>. QED BY <1>1, <1>2, <1>3, <1>4, <1>5, <1>6, <1>7, <1>8, <1>9, <1>10,
            <1>11, <1>12 DEF Next

LEMMA Invariant == Spec => [](IInv /\ RestInv)
<1>1. Init => IInv /\ RestInv
  BY Initial
<1>2. IInv /\ RestInv /\ [Next]_vars => (IInv /\ RestInv)'
  BY Inductive, Rests
<1>. QED BY <1>1, <1>2, PTL DEF Spec

(* Every variable of a log, of save() and of load() is in its range, for   *)
(* every log, and nothing but a temporary name is written to.              *)
THEOREM TypeCorrect == Spec => []TypeOK
<1>1. IInv => TypeOK
  BY DEF IInv
<1>. QED BY <1>1, Invariant, PTL

-----------------------------------------------------------------------------
(* The end of the file is reached: all of an unhurt log has been read.     *)
LEMMA AllLoaded ==
  ASSUME IInv, Commit
  PROVE  /\ \E f \in stored : PartOf(loaded, f)
         /\ ~torn => loaded \in stored
<1>1. pc = "entry" /\ Loading /\ pos = Len(input)
  BY DEF Commit, Loading, AtEnd
<1>2. PICK f, T, w : At(f, T, w)
  BY <1>1, Reading
<1>3. f \in stored /\ LoadedTo(f, w, pos) /\ faulty = torn
  BY <1>1, <1>2 DEF At, Place, IInv, LoadInv
<1>4. PartOf(loaded, f)
  BY <1>3 DEF LoadedTo
<1>5. ASSUME ~torn PROVE loaded = f
  <2>1. pos = Len(T)
    BY <1>1, <1>2, <1>3, <1>5 DEF At
  <2>2. DOMAIN loaded = DOMAIN f
    BY <1>2, <1>3, <2>1, AllBefore DEF At, LoadedTo
  <2>3. \A o \in DOMAIN loaded : loaded[o] = f[o]
    BY <1>3, <1>5 DEF LoadedTo
  <2>4. loaded = f
    <3>1. f = [o \in DOMAIN f |-> f[o]]
      BY <1>2, LogFacts DEF At
    <3>2. loaded = [o \in DOMAIN loaded |-> loaded[o]]
      BY <1>3, LogFacts DEF LoadedTo
    <3>. QED BY <2>2, <2>3, <3>1, <3>2
  <2>. QED BY <2>4
<1>. QED BY <1>3, <1>4, <1>5

LEMMA AnswerKept ==
  ASSUME IInv, AnswerInv, [Next]_vars
  PROVE  AnswerInv'
<1>. USE DEF AnswerInv
<1>1. ASSUME UNCHANGED <<disk, entries, answer>> PROVE AnswerInv'
  BY <1>1 DEF disk, history, PartOf
<1>2. ASSUME answer' # "ok" PROVE AnswerInv'
  BY <1>2
<1>3. CASE UNCHANGED vars
  BY <1>1, <1>3 DEF vars
<1>4. CASE \/ \E o \in Output, v \in Value : Record(o, v)
           \/ Clear \/ BeginSave \/ LoadOpen
  BY <1>2, <1>4 DEF Record, Clear, BeginSave, LoadOpen
<1>5. ASSUME NEW o \in Output, PrintEntry(o) PROVE AnswerInv'
  BY <1>1, <1>5 DEF PrintEntry
<1>6. CASE RemoveOldTemp \/ OpenTemp \/ Write \/ CloseTemp \/ LoseEnd
  BY <1>6 DEF RemoveOldTemp, OpenTemp, Write, CloseTemp, LoseEnd, disk,
              history, PartOf
<1>7. CASE SaveFails \/ Rename \/ LoadMissing \/ LoadFails \/ Kill
  BY <1>2, <1>7 DEF SaveFails, Rename, LoadMissing, LoadFails, Kill, Return
<1>8. ASSUME Corrupted PROVE AnswerInv'
  BY <1>2, <1>8 DEF Corrupted, Return
<1>9. CASE ReadHeader
  BY <1>1, <1>2, <1>8, <1>9 DEF ReadHeader, Return
<1>10. CASE ReadBuildLine \/ ReadOutput \/ ReadCount \/ ReadInput
  <2>1. Corrupted \/ UNCHANGED <<disk, entries, answer>>
    BY <1>10 DEF ReadBuildLine, ReadOutput, ReadCount, ReadInput, Emplace
  <2>. QED BY <1>1, <1>8, <2>1
<1>11. CASE Commit
  <2>1. entries' = loaded /\ stored' = stored
    BY <1>11 DEF Commit, disk, history
  <2>2. \E f \in stored : PartOf(loaded, f)
    BY <1>11, AllLoaded
  <2>. QED BY <2>1, <2>2 DEF PartOf
<1>. QED BY <1>3, <1>4, <1>5, <1>6, <1>7, <1>9, <1>10, <1>11 DEF Next

(* Whatever happens to the end of the file: a log is refused only for such *)
(* damage or a failing read, and what is loaded of it is a part of what    *)
(* was saved.                                                              *)
THEOREM NothingNewLoaded == Spec => []LoadsNothingNew
<1>1. Init => AnswerInv
  BY DEF Init, AnswerInv
<1>2. IInv /\ AnswerInv /\ [Next]_vars => AnswerInv'
  BY AnswerKept
<1>3. IInv /\ AnswerInv => LoadsNothingNew
  BY DEF IInv, LogsInv, AnswerInv, SavedLogReadsWell, LoadsNothingNew
<1>. QED BY <1>1, <1>2, <1>3, Invariant, PTL DEF Spec

-----------------------------------------------------------------------------
LEMMA StepImplements ==
  ASSUME IInv, IInv', [Next]_vars
  PROVE  [Store!Next \/ LoadsDamaged]_Store!vars
<1>. USE DEF Store!Next, Store!vars
<1>1. CASE UNCHANGED vars
  BY <1>1 DEF vars, disk, history
<1>2. CASE \/ \E o \in Output, v \in Value : Record(o, v)
           \/ Clear \/ BeginSave \/ LoadOpen
  <2>1. answer' = "none" /\ stored' = stored
    BY <1>2 DEF Record, Clear, BeginSave, LoadOpen, disk, history
  <2>2. Store!IsLog(entries')
    BY DEF IInv, TypeOK
  <2>. QED BY <2>1, <2>2 DEF Store!Change
<1>3. ASSUME NEW o \in Output, PrintEntry(o)
      PROVE  [Store!Next \/ LoadsDamaged]_Store!vars
  BY <1>3 DEF PrintEntry, disk, history
<1>4. CASE RemoveOldTemp \/ OpenTemp \/ Write \/ CloseTemp \/ LoseEnd
  BY <1>4 DEF RemoveOldTemp, OpenTemp, Write, CloseTemp, LoseEnd, disk,
              history
<1>5. CASE SaveFails
  <2>1. answer' = "not_saved" /\ UNCHANGED <<stored, entries>>
    BY <1>5 DEF SaveFails, Return, disk, history
  <2>. QED BY <2>1 DEF Store!SaveFails
<1>6. CASE Rename
  <2>1. snapshot = entries
    BY <1>6 DEF Rename, IInv, SaveInv
  <2>. QED BY <1>6, <2>1 DEF Rename, Return, Store!Save
<1>8. CASE LoadMissing
  <2>1. stored = {}
    BY <1>8 DEF LoadMissing, IInv, DiskInv
  <2>. QED BY <1>8, <2>1 DEF LoadMissing, Return, disk, history,
                             Store!LoadFails
<1>9. CASE LoadFails
  BY <1>9 DEF LoadFails, Return, disk, history, Store!LoadFails
<1>10. CASE Corrupted
  BY <1>10 DEF Corrupted, Return, disk, history, Store!LoadFails
<1>11. CASE ReadHeader
  <2>1. CASE /\ Return("unsupported_version")
             /\ UNCHANGED <<disk, entries, faulty>>
    <3>1. /\ answer' = "unsupported_version" /\ faulty' = faulty
          /\ UNCHANGED <<stored, entries>>
      BY <2>1 DEF Return, disk, history
    <3>2. faulty' /\ faulty = torn
      BY <1>11, <3>1 DEF ReadHeader, IInv, LogsInv, SavedLogReadsWell,
                         LoadInv, Loading
    <3>. QED BY <3>1, <3>2 DEF LoadsDamaged
  <2>2. CASE UNCHANGED <<disk, entries, answer>>
    BY <2>2 DEF disk, history
  <2>. QED BY <1>10, <1>11, <2>1, <2>2 DEF ReadHeader
<1>12. CASE ReadBuildLine \/ ReadOutput \/ ReadCount \/ ReadInput
  <2>1. Corrupted \/ UNCHANGED <<disk, entries, answer>>
    BY <1>12 DEF ReadBuildLine, ReadOutput, ReadCount, ReadInput, Emplace
  <2>. QED BY <1>10, <2>1 DEF disk, history
<1>13. CASE Commit
  <2>1. answer' = "ok" /\ entries' = loaded /\ stored' = stored
    BY <1>13 DEF Commit, Return, disk, history
  <2>2. torn \/ loaded \in stored
    BY <1>13, AllLoaded
  <2>. QED BY <2>1, <2>2 DEF Store!Load, LoadsDamaged
<1>14. CASE Kill
  <2>1. answer' = "none" /\ entries' = empty /\ stored' = stored
    BY <1>14 DEF Kill, Return, disk, history
  <2>. QED BY <2>1 DEF empty, Store!Restart
<1>. QED BY <1>1, <1>2, <1>3, <1>4, <1>5, <1>6, <1>8, <1>9, <1>11,
            <1>12, <1>13, <1>14 DEF Next

(* Saving is one step for whoever loads, whatever fails and whenever forge *)
(* dies, and what load() accepts is what was saved, whole, of every file   *)
(* that has not lost its end.                                              *)
THEOREM Implements == Spec => ImplementsLogStore
<1>1. Init => Store!Init
  BY DEF Init, empty, Store!Init
<1>2. IInv /\ IInv' /\ [Next]_vars =>
        [Store!Next \/ LoadsDamaged]_Store!vars
  BY StepImplements
<1>. QED BY <1>1, <1>2, Invariant, PTL DEF Spec, ImplementsLogStore

=============================================================================
