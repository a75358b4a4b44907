------------------------------- MODULE LogFile -------------------------------
(***************************************************************************)
(* BuildLog and DepsLog on disk (src/src/build_log.cpp,                    *)
(* src/src/deps_log.cpp, src/src/file_system.cpp): save() writes the       *)
(* entries, one after the other, into a text, and atomic_write_file puts   *)
(* the text into place call by call; load() reads it back line by line.    *)
(* Forge is killed at any instant and started again, calls fail, and the   *)
(* file may lose its end: nothing is fsynced, so a rename can survive a    *)
(* loss of power that the data of the renamed file do not.                 *)
(*                                                                         *)
(* A line is the sequence of its tab-separated fields.  The processes that *)
(* use the file follow one another: each holds the directory lock.         *)
(***************************************************************************)
EXTENDS Naturals, Sequences

CONSTANTS
  Word,        (* what stands in a field                                   *)
  Output,      (* the words that are paths                                 *)
  Header,      (* the first line of this version of the format             *)
  Empty,       (* the empty word                                           *)
  Number,      (* Number[w]: the number a numeral stands for               *)
  Digits,      (* Digits[n]: how n is printed                              *)
  Hash,        (* the numerals of command hashes                           *)
  Inputs,      (* lists of inputs, as Depfile::inputs() gives them         *)
  Start,       (* Start[w]: what may be left of w if its end is cut off    *)
  Final,       (* the name of the log                                      *)
  Temporary    (* the names temporary_path() may give: final path, process *)
               (* id and a counter.  Process ids recur.                    *)

Name == {Final} \cup Temporary
Numeral == DOMAIN Number
Line == {l \in Seq(Word) : Len(l) \in {1, 2}}

(* No word holds a tab or an end of line: manifests and depfiles are split *)
(* at white space.  Numbers are printed without leading zeros, so that the *)
(* start of one is not zero.                                               *)
ASSUME LogFileAssumption ==
  /\ Output \subseteq Word /\ {Header, Empty} \subseteq Word
  /\ Number \in [Numeral -> Nat] /\ Numeral \subseteq Word
  /\ Empty \notin Output \cup Numeral
  /\ Hash \subseteq Numeral /\ Inputs \subseteq Seq(Output)
  /\ \A v \in Inputs : /\ Digits[Len(v)] \in Numeral
                       /\ Number[Digits[Len(v)]] = Len(v)
                       /\ \A d \in Start[Digits[Len(v)]] \cap Numeral :
                            Number[d] # 0
  /\ Start \in [Word -> SUBSET (Word \ {Empty})] /\ Start[Empty] = {}
  /\ \A w \in Word : \A v \in Start[w] : Start[v] \subseteq Start[w]
  /\ Final \notin Temporary

VARIABLES
  kind,      (* "build": the log is .forge_log; "deps": .forge_deps        *)
  exists,    (* the names in the directory                                 *)
  text,      (* text[n]: the lines of the file n                           *)
  pc,        (* "idle", or the place in save() or load()                   *)
  entries,   (* entries_                                                   *)
  answer,    (* what the last call returned                                *)
  snapshot,  (* save(): its copy of entries_                               *)
  todo,      (* the outputs its loop has not reached                       *)
  buffer,    (* the text so far                                            *)
  temp,      (* temp_path                                                  *)
  input,     (* load(): the file it has open                               *)
  pos,       (* the lines it has read                                      *)
  loaded,    (* loaded_entries                                             *)
  output,    (* output_path                                                *)
  count,     (* input_count                                                *)
  inputs,    (* inputs                                                     *)
  stored,    (* history: the log that the last rename put into place, if   *)
             (* there was one                                              *)
  torn,      (* history: the file has lost its end since                   *)
  faulty     (* history: the last load met such a file, or a failing read  *)

history == <<kind, stored, torn>>
disk == <<history, exists, text>>
saving == <<snapshot, todo, buffer, temp>>
loading == <<input, pos, loaded, output, count, inputs, faulty>>
vars == <<disk, pc, entries, answer, saving, loading>>

Store == INSTANCE LogStore
empty == Store!empty
With(f, o, v) == [x \in DOMAIN f \cup {o} |-> IF x = o THEN v ELSE f[x]]

(* Nothing is in use.                                                      *)
Idle ==
  /\ snapshot = empty /\ todo = {} /\ buffer = <<>> /\ temp = Final
  /\ input = <<>> /\ pos = 0 /\ loaded = empty
  /\ output = Empty /\ count = 0 /\ inputs = <<>>

Init ==
  /\ kind \in {"build", "deps"}
  /\ exists = {} /\ text = [n \in Name |-> <<>>]
  /\ stored = {} /\ torn = FALSE /\ faulty = FALSE
  /\ pc = "idle" /\ entries = empty /\ answer = "none"
  /\ Idle

-----------------------------------------------------------------------------
(* A command hash, or the dependencies of an output.                       *)
Value == IF kind = "build" THEN {<<h>> : h \in Hash} ELSE Inputs

Record(o, v) ==
  /\ pc = "idle"
  /\ entries' = With(entries, o, v) /\ answer' = "none"
  /\ UNCHANGED <<disk, pc, saving, loading>>

Clear ==
  /\ pc = "idle"
  /\ entries' = empty /\ answer' = "none"
  /\ UNCHANGED <<disk, pc, saving, loading>>

(* save(): the entries are copied under the lock of the log.               *)
BeginSave ==
  /\ pc = "idle"
  /\ snapshot' = entries /\ todo' = DOMAIN entries
  /\ buffer' = << <<Header>> >>
  /\ pc' = "entries" /\ answer' = "none"
  /\ UNCHANGED <<disk, entries, temp, loading>>

(* One entry of a log.  Mutant: the count comes after the inputs.          *)
CountLast(o, v) ==
  IF kind = "build" THEN << <<o, v[1]>> >>
  ELSE << <<o>> >> \o [i \in 1..Len(v) |-> <<v[i]>>]
                   \o << <<Digits[Len(v)]>> >>
Lines(o, v) ==
  IF kind = "build" THEN << <<o, v[1]>> >>
  ELSE << <<o>>, <<Digits[Len(v)]>> >> \o [i \in 1..Len(v) |-> <<v[i]>>]

PrintEntry(o) ==
  /\ pc = "entries" /\ o \in todo
  /\ buffer' = buffer \o Lines(o, snapshot[o])
  /\ todo' = todo \ {o}
  /\ UNCHANGED <<disk, pc, entries, answer, snapshot, temp, loading>>

(* atomic_write_file(): a file that has the temporary name is removed.     *)
(* Mutant: the text is written under the final name.                       *)
InPlace == {Final}
TempPath == Temporary

RemoveOldTemp ==
  /\ pc = "entries" /\ todo = {}
  /\ \E t \in TempPath :
       /\ temp' = t
       /\ exists' = exists \ {t} /\ text' = [text EXCEPT ![t] = <<>>]
  /\ pc' = "open"
  /\ UNCHANGED <<history, entries, answer, snapshot, todo, buffer,
                 loading>>

OpenTemp ==
  /\ pc = "open"
  /\ exists' = exists \cup {temp} /\ text' = [text EXCEPT ![temp] = <<>>]
  /\ pc' = "write"
  /\ UNCHANGED <<history, entries, answer, saving, loading>>

(* The stream hands its buffer over piece by piece, the last of it in      *)
(* close(); a line may be cut where a piece ends.  What counts is that a   *)
(* file that is not whole may be left behind.                              *)
Write ==
  /\ pc = "write" /\ Len(text[temp]) < Len(buffer)
  /\ text' = [text EXCEPT ![temp] = Append(@, buffer[Len(@) + 1])]
  /\ UNCHANGED <<history, exists, pc, entries, answer, saving, loading>>

(* close() reports whether all was written.  Mutant: nobody looks.         *)
Unchecked == TRUE
Written == text[temp] = buffer

CloseTemp ==
  /\ pc = "write" /\ Written
  /\ pc' = "rename"
  /\ UNCHANGED <<disk, entries, answer, saving, loading>>

Return(value) ==
  /\ pc' = "idle" /\ answer' = value
  /\ snapshot' = empty /\ todo' = {} /\ buffer' = <<>> /\ temp' = Final
  /\ input' = <<>> /\ pos' = 0 /\ loaded' = empty
  /\ output' = Empty /\ count' = 0 /\ inputs' = <<>>

(* open, write or rename failed: the temporary file is removed, if that    *)
(* can be done.                                                            *)
SaveFails ==
  /\ pc \in {"open", "write", "rename"}
  /\ \/ /\ exists' = exists \ {temp} /\ text' = [text EXCEPT ![temp] = <<>>]
        /\ UNCHANGED history
     \/ UNCHANGED disk
  /\ Return("not_saved")
  /\ UNCHANGED <<entries, faulty>>

Rename ==
  /\ pc = "rename"
  /\ exists' = (exists \ {temp}) \cup {Final}
  /\ text' = [text EXCEPT ![Final] = text[temp], ![temp] = <<>>]
  /\ stored' = {snapshot} /\ torn' = FALSE
  /\ Return("saved")
  /\ UNCHANGED <<kind, entries, faulty>>

-----------------------------------------------------------------------------
(* load(): exists(), open.  An open file stays what it was.                *)
LoadMissing ==
  /\ pc = "idle" /\ Final \notin exists
  /\ Return("missing")
  /\ UNCHANGED <<disk, entries, faulty>>

LoadOpen ==
  /\ pc = "idle" /\ Final \in exists
  /\ input' = text[Final] /\ faulty' = torn
  /\ pc' = "header" /\ answer' = "none"
  /\ UNCHANGED <<disk, entries, saving, pos, loaded, output, count, inputs>>

(* exists() or open failed, or reading did.  Only the loop that expects an *)
(* entry tells a failed read from the end of the file.                     *)
LoadFails ==
  /\ \/ pc = "idle" /\ Return("io_error")
     \/ pc = "entry" /\ Return("io_error")
     \/ pc \in {"header", "count", "input"} /\ Return("corrupted")
  /\ faulty' = TRUE
  /\ UNCHANGED <<disk, entries>>

AtEnd == pos = Len(input)
NextLine == input[pos + 1]

Corrupted == Return("corrupted") /\ UNCHANGED <<disk, entries, faulty>>

ReadHeader ==
  /\ pc = "header"
  /\ \/ AtEnd /\ Corrupted
     \/ /\ ~AtEnd /\ NextLine # <<Header>>
        /\ Return("unsupported_version")
        /\ UNCHANGED <<disk, entries, faulty>>
     \/ /\ ~AtEnd /\ NextLine = <<Header>>
        /\ pos' = 1 /\ pc' = "entry"
        /\ UNCHANGED <<disk, entries, answer, saving, input, loaded, output,
                       count, inputs, faulty>>

(* loaded_entries.emplace(): an output that is there already is refused.   *)
Emplace(o, v) ==
  \/ o \in DOMAIN loaded /\ Corrupted
  \/ /\ o \notin DOMAIN loaded
     /\ loaded' = With(loaded, o, v)
     /\ pos' = pos + 1 /\ pc' = "entry"
     /\ output' = Empty /\ count' = 0 /\ inputs' = <<>>
     /\ UNCHANGED <<disk, entries, answer, saving, input, faulty>>

(* A line of .forge_log: a path, a tab, a number.                          *)
IsBuildLine(l) == Len(l) = 2 /\ l[1] # Empty /\ l[2] \in Numeral

ReadBuildLine ==
  /\ pc = "entry" /\ kind = "build" /\ ~AtEnd
  /\ \/ ~IsBuildLine(NextLine) /\ Corrupted
     \/ IsBuildLine(NextLine) /\ Emplace(NextLine[1], <<NextLine[2]>>)

(* An entry of .forge_deps: a path, the number of inputs, the inputs.      *)
(* getline takes the whole line, tabs and all.                             *)
ReadOutput ==
  /\ pc = "entry" /\ kind = "deps" /\ ~AtEnd
  /\ \/ NextLine = <<Empty>> /\ Corrupted
     \/ /\ NextLine # <<Empty>>
        /\ output' = NextLine[1]
        /\ pos' = pos + 1 /\ pc' = "count"
        /\ UNCHANGED <<disk, entries, answer, saving, input, loaded, count,
                       inputs, faulty>>

CountFollows == ~AtEnd /\ NextLine[1] \in Numeral

ReadCount ==
  /\ pc = "count"
  /\ \/ ~CountFollows /\ Corrupted
     \/ /\ CountFollows
        /\ IF Number[NextLine[1]] = 0
           THEN Emplace(output, <<>>)
           ELSE /\ count' = Number[NextLine[1]]
                /\ pos' = pos + 1 /\ pc' = "input"
                /\ UNCHANGED <<disk, entries, answer, saving, input, loaded,
                               output, inputs, faulty>>

AllRead(read) == Len(read) = count

PathFollows == ~AtEnd /\ NextLine # <<Empty>>

ReadInput ==
  /\ pc = "input"
  /\ \/ ~PathFollows /\ Corrupted
     \/ /\ PathFollows
        /\ LET read == Append(inputs, NextLine[1]) IN
             IF AllRead(read)
             THEN Emplace(output, read)
             ELSE /\ inputs' = read
                  /\ pos' = pos + 1
                  /\ UNCHANGED <<disk, pc, entries, answer, saving, input,
                                 loaded, output, count, faulty>>

(* The end of the file: what was read replaces the entries.                *)

Commit ==
  /\ pc = "entry" /\ AtEnd
  /\ entries' = loaded
  /\ Return("ok")
  /\ UNCHANGED <<disk, faulty>>

-----------------------------------------------------------------------------
(* Forge is gone; the next process starts with nothing in memory.          *)
Kill ==
  /\ Return("none") /\ entries' = empty
  /\ UNCHANGED <<disk, faulty>>

(* The file loses its last lines, and perhaps a part of the one before.    *)
CutLine(l) ==
  {<<w>> : w \in Start[l[1]]} \cup
  (IF Len(l) = 1 THEN {}
   ELSE {<<l[1]>>} \cup {<<l[1], w>> : w \in Start[l[2]] \cup {Empty}})

LoseEnd ==
  /\ Final \in exists /\ pc = "idle"
  /\ \E n \in 0..Len(text[Final]) - 1 :
       LET rest == SubSeq(text[Final], 1, n) IN
         \E last \in CutLine(text[Final][n + 1]) \cup {<<>>} :
           text' = [text EXCEPT ![Final] =
                      IF last = <<>> THEN rest ELSE Append(rest, last)]
  /\ torn' = TRUE
  /\ UNCHANGED <<kind, exists, stored, pc, entries, answer, saving, loading>>

Next ==
  \/ \E o \in Output, v \in Value : Record(o, v)
  \/ Clear \/ BeginSave
  \/ \E o \in Output : PrintEntry(o)
  \/ RemoveOldTemp \/ OpenTemp \/ Write \/ CloseTemp \/ SaveFails \/ Rename
  \/ LoadMissing \/ LoadOpen \/ LoadFails
  \/ ReadHeader \/ ReadBuildLine \/ ReadOutput \/ ReadCount \/ ReadInput
  \/ Commit
  \/ Kill \/ LoseEnd

Spec == Init /\ [][Next]_vars

-----------------------------------------------------------------------------
(* Every variable is in its range; what is written to has a temporary name.*)
TypeOK ==
  /\ kind \in {"build", "deps"}
  /\ exists \subseteq Name /\ text \in [Name -> Seq(Line)]
  /\ pc \in {"idle", "entries", "open", "write", "rename",
             "header", "entry", "count", "input"}
  /\ answer \in {"none", "saved", "not_saved", "ok", "missing", "io_error",
                 "corrupted", "unsupported_version"}
  /\ Store!IsLog(entries) /\ Store!IsLog(snapshot) /\ Store!IsLog(loaded)
  /\ todo \subseteq DOMAIN snapshot
  /\ temp \in IF pc \in {"open", "write", "rename"} THEN Temporary ELSE {Final}
  /\ buffer \in Seq(Line) /\ input \in Seq(Line)
  /\ pos \in 0..Len(input)
  /\ output \in Word /\ count \in Nat /\ inputs \in Seq(Word)
  /\ \A f \in stored : Store!IsLog(f)
  /\ torn \in BOOLEAN /\ faulty \in BOOLEAN

(* A log on disk is replaced in one step, whatever fails and whenever      *)
(* forge dies; what load() accepts is the log that was saved last, entry   *)
(* by entry, and what save() wrote is never refused but for a failing      *)
(* call; what the two answer is what happened.  The promise does not reach *)
(* one kind of step: load() accepts, or takes for another version, a file  *)
(* that has lost its end.  LoadsNothingNew and NoDependencyIsLost say what *)
(* such a load is worth.                                                   *)
LoadsDamaged ==
  /\ torn /\ UNCHANGED stored
  /\ \/ answer' = "ok"
     \/ answer' = "unsupported_version" /\ UNCHANGED entries

ImplementsLogStore ==
  Store!Init /\ [][Store!Next \/ LoadsDamaged]_Store!vars

(* f has outputs of g only, and says of them what g says; at most the end  *)
(* of a last word is lost.                                                 *)
PartOf(f, g) ==
  \A o \in DOMAIN f :
    /\ o \in DOMAIN g /\ Len(f[o]) = Len(g[o])
    /\ \A i \in 1..Len(f[o]) :
         \/ f[o][i] = g[o][i]
         \/ i = Len(f[o]) /\ f[o][i] \in Start[g[o][i]]

(* Also of a file that may have lost its end: load() refuses no log for    *)
(* its text but such a one, and what it accepts says nothing that was not  *)
(* saved: entries may be missing, and of the last entry the end of its     *)
(* last word, but no output has gained, lost or changed another one.       *)
LoadsNothingNew ==
  /\ answer \in {"corrupted", "unsupported_version"} => faulty
  /\ answer = "ok" => \E f \in stored : PartOf(entries, f)

(* What src/README.md:612 promises, a damaged log is not believed, for the *)
(* log where that matters: an edge without an entry in .forge_deps is held *)
(* to have no dependencies, so that an entry that is lost makes it look    *)
(* clean.  A file cut between two entries, or in its last path, is loaded  *)
(* as if it were whole.                                                    *)
NoDependencyIsLost == kind = "deps" /\ answer = "ok" => entries \in stored

=============================================================================
