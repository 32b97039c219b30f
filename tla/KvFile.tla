-------------------------------- MODULE KvFile --------------------------------
(***************************************************************************)
(* KvFile: the key-value files with the generator's configuration and the  *)
(* scheduler's.  A file is a sequence of lines and whether the last one    *)
(* ends with a newline.  The text of a value is kept as what atoi() makes  *)
(* of it.                                                                  *)
(***************************************************************************)
EXTENDS Integers, Sequences, SequencesExt

Kinds == {"entry", "bare", "blank", "comment", "overlong"}

\* getline() with a buffer of BUFFLEN characters: a longer line sets failbit, which
\* readConfig() throws as a KvFileException.
Throws(file) == \E i \in DOMAIN file.lines : file.lines[i].kind = "overlong"

\* A last line without a newline sets eofbit, and the loop ends before it is stored.
LinesRead(file) == IF file.ended THEN file.lines ELSE Front(file.lines)

\* Mutant: the first entry of a key stays (insert() for operator[]).
StoreLineOnce(map, line) ==
  CASE line.kind = "entry" -> map @@ (line.key :> line.value)
    [] line.kind = "bare"  -> map @@ (line.key :> 0)
    [] OTHER -> map

\* Without "=" the whole line is the key and, as npos + 1 = 0, the value too.
StoreLine(map, line) ==
  CASE line.kind = "entry" -> (line.key :> line.value) @@ map
    [] line.kind = "bare"  -> (line.key :> 0) @@ map
    [] OTHER -> map

ReadConfig(file) == FoldLeft(StoreLine, << >>, LinesRead(file))

ContainsKey(map, key) == key \in DOMAIN map

GetBool(map, key) == map[key] # 0

\* getUInt8 to getUInt64
GetUInt(map, key, bits) == map[key] % 2 ^ bits

\* SchedulerConfiguration's constructors: a key that is missing leaves the default.
SchedulerConfiguration(map) ==
  [key \in {"execCancellations", "dlMissCancellations"} |->
     ContainsKey(map, key) => GetBool(map, key)]
=============================================================================
