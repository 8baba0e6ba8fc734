------------------------------- MODULE Files --------------------------------
(***************************************************************************)
(* The table files of file/tab.cc: a text file is read into the object,    *)
(* written as text or as binary, and read again.  The strings of a table   *)
(* are pooled: a string cell first holds an offset into the pool, and is   *)
(* relocated to an address when the pool is complete.  A cell of a file is *)
(* a member of a small set, with its number (atoi) and its length given by *)
(* constants; lines are shorter than the 10240 characters of the buffer.   *)
(*                                                                         *)
(* And the ini files of file/ini.cc, which share nothing with them: open   *)
(* reads the lines into sections of keys whose values lie one after        *)
(* another in a buffer that grows; close frees them.  A line is a section, *)
(* a key with its value, or neither.                                       *)
(*                                                                         *)
(* And the plugins of file/library.cc, on their own too.  The open         *)
(* function of a library may call the manager again, and the manager       *)
(* registers a library only after its open function has returned.  The     *)
(* loader counts the handles of each file; a file name is a search path,   *)
(* whether it has the prefix, and a name.                                  *)
(***************************************************************************)
EXTENDS Integers, Sequences, FiniteSets, SequencesExt, FiniteSetsExt

CONSTANTS
  Tables,      \* text files: the lines of types, names and rows
  NumberOf,    \* the number a cell's text stands for
  TextOf,      \* the text of a number
  LengthOf,    \* the length of a cell's text, and of a value's in an ini file
  Comments,    \* the cells that begin with '#'
  Uint16,      \* the range of uint16_t
  MaxOpens,    \* bound: calls of open_from_txt
  Settings,    \* ini files, sequences of lines
  Sections, Keys,
  BufferSize,  \* INI_VALUE_MAX
  MaxCalls     \* bound: calls of open and close

VARIABLES
  types, names, data, records, pool,   \* the object
  index,      \* hash_index_: the row of each number of the first column
  file,       \* the file that was opened
  saved,      \* the text file that was saved, and the file it was read from
  binary,     \* the length of the binary file saved, and its header
  opens, fresh,  \* opens, and whether the object was empty at the last one
  hung        \* the relocation does not end

tabVars == <<types, names, data, records, pool, index, file, saved, binary, opens,
          fresh, hung>>

NoFile == [types |-> <<>>, names |-> <<>>, rows |-> <<>>]
NoSave == [types |-> <<>>, names |-> <<>>, rows |-> <<>>, of |-> <<>>]
NoBinary == [bytes |-> 0, fields |-> 0, records |-> 0, strings |-> 0]

TabInit ==
  /\ types = <<>> /\ names = <<>> /\ data = <<>> /\ records = 0 /\ pool = <<>>
  /\ index = <<>> /\ file = NoFile /\ saved = NoSave /\ binary = NoBinary
  /\ opens = 0 /\ fresh = TRUE /\ hung = FALSE

-----------------------------------------------------------------------------
Types == {"INT", "FLOAT", "STRING"}

(* Rows without a first cell and comments are left out; a short row is       *)
(* filled with empty cells.                                                  *)
Rows(f) == SelectSeq(f.rows, LAMBDA r : r[1] # "" /\ r[1] \notin Comments)

CellOf(row, c) == IF c <= Len(row) THEN row[c] ELSE ""

(* string_buffer: every string once, in the order of its first cell.         *)
Strings(f) ==
  LET cells == FlattenSeq([n \in 1..Len(Rows(f)) |->
                 [c \in 1..Len(f.types) |-> <<f.types[c], CellOf(Rows(f)[n], c)>>]])
      strings == SelectSeq(cells, LAMBDA x : x[1] = "STRING")
      add(acc, x) == IF Contains(acc, x[2]) THEN acc ELSE Append(acc, x[2])
  IN  FoldLeft(add, <<>>, strings)

MutantSize(s) == LengthOf[s]

(* What a string takes in the pool, with its end.                            *)
Size(s) == LengthOf[s] + 1

(* The pool begins with an empty string.                                     *)
Offset(strings, i) ==
  1 + FoldLeft(LAMBDA acc, s : acc + Size(s), 0, SubSeq(strings, 1, i - 1))

IndexOfString(strings, s) == CHOOSE i \in DOMAIN strings : strings[i] = s

Value(f, type, cell) ==
  IF type = "STRING"
    THEN Offset(Strings(f), IndexOfString(Strings(f), cell))
    ELSE NumberOf[cell]

(* The characters of the pool, as the string and the place in it.            *)
PoolOf(strings) ==
  <<<<"", 0>>>> \o
  FlattenSeq([i \in DOMAIN strings |->
    [k \in 1..(LengthOf[strings[i]] + 1) |-> <<strings[i], k - 1>>]])

Cells(f) ==
  FlattenSeq([n \in 1..Len(Rows(f)) |->
    [c \in 1..Len(f.types) |-> Value(f, f.types[c], CellOf(Rows(f)[n], c))]])

(* create_index on the first column: the first row of a number is kept.      *)
IndexOf(d, fields, n) ==
  [k \in {d[(i - 1) * fields + 1] : i \in 1..n} |->
     Min({i \in 1..n : d[(i - 1) * fields + 1] = k})]

-----------------------------------------------------------------------------
(* open_from_memory_text.  The rows are appended to data_buffer_, which is   *)
(* not cleared; the relocation counts rows in a uint16_t.                    *)
OpenText(f) ==
  /\ ~hung /\ opens < MaxOpens
  /\ opens' = opens + 1
  /\ IF f.types = <<>> \/ ~(Range(f.types) \subseteq Types)
       THEN UNCHANGED <<types, names, data, records, pool, index, file, fresh, hung>>
       ELSE LET fields == Len(f.types)  n == Len(Rows(f)) IN
            /\ fresh' = (data = <<>>)
            /\ file' = f /\ names' = f.names /\ types' = f.types
            /\ data' = data \o Cells(f)
            /\ records' = n /\ pool' = PoolOf(Strings(f))
            /\ hung' = ("STRING" \in Range(f.types) /\ n >= Uint16)
            /\ index' = IF hung' THEN index ELSE IndexOf(data', fields, n)
  /\ UNCHANGED <<saved, binary>>

(* search_position, and the text of a string cell.                           *)
Position(n, c) == (n - 1) * Len(types) + c

Text(n, c) ==
  LET v == data[Position(n, c)] IN
  IF types[c] # "STRING" THEN TextOf[v]
  ELSE IF v + 1 \in DOMAIN pool /\ pool[v + 1][2] = 0 THEN pool[v + 1][1] ELSE "garbage"

(* save_totext ends every row with a tab, which is an empty cell more.  Only *)
(* of an object that has read one file: after another the string cells are   *)
(* addresses relocated twice.                                                *)
SaveText ==
  /\ ~hung /\ types # <<>> /\ fresh
  /\ saved' = [types |-> types, names |-> names, of |-> file,
               rows |-> [n \in 1..records |-> [c \in 1..(Len(types) + 1) |->
                           IF c <= Len(types) THEN Text(n, c) ELSE ""]]]
  /\ UNCHANGED <<types, names, data, records, pool, index, file, binary, opens,
                 fresh, hung>>

(* save_tobinary writes one byte for each cell, of which each has eight.     *)
SaveBinary ==
  /\ ~hung /\ types # <<>>
  /\ binary' = [bytes |-> 16 + 4 * Len(types) + Len(types) * records + Len(pool),
                fields |-> Len(types), records |-> records, strings |-> Len(pool)]
  /\ UNCHANGED <<types, names, data, records, pool, index, file, saved, opens,
                 fresh, hung>>

(* The check of the size in open_from_memory_binary, on a file of that       *)
(* length and the zero after it.                                             *)
BinaryFits(b) == 16 + 4 * b.fields + 8 * b.records * b.fields + b.strings <= b.bytes + 1

TabNext ==
  \/ \E f \in Tables : OpenText(f)
  \/ SaveText
  \/ SaveBinary

TabSpec == TabInit /\ [][TabNext]_tabVars

-----------------------------------------------------------------------------
(* A table that an empty object reads has every cell of the file: a number   *)
(* as atoi reads it, a string from the pool after its relocation, and the    *)
(* index leads to a row of each number; what is saved as text reads as the   *)
(* same table again.                                                         *)
TabReads ==
  fresh /\ ~hung /\ types # <<>> =>
    /\ \A n \in 1..records, c \in 1..Len(types) :
         LET cell == CellOf(Rows(file)[n], c) IN
         Text(n, c) = IF types[c] = "STRING" THEN cell ELSE TextOf[NumberOf[cell]]
    /\ types[1] = "INT" =>
         \A k \in DOMAIN index : NumberOf[Rows(file)[index[k]][1]] = k
    /\ saved.of = file =>
         /\ Rows(saved) = saved.rows
         /\ \A n \in 1..records, c \in 1..Len(types) :
              IF types[c] = "STRING"
                THEN saved.rows[n][c] = CellOf(Rows(file)[n], c)
                ELSE NumberOf[saved.rows[n][c]] = NumberOf[CellOf(Rows(file)[n], c)]

-----------------------------------------------------------------------------
(* Ini files                                                                 *)

VARIABLES
  source,    \* the file that was read
  sections,  \* sectiondata_: for each section its keys and their positions
  buffer,    \* the values and their positions; lost when buffer_ is replaced
  length, size,  \* bufferlength_ and bufferlength_max_
  stream,    \* fstream_: "closed", "open", "failed" (open, and at its end)
  overrun,   \* a value has been written past the buffer
  calls

iniVars == <<source, sections, buffer, length, size, stream, overrun, calls>>

IniInit ==
  /\ source = <<>> /\ sections = <<>> /\ buffer = <<>> /\ length = 0 /\ size = 0
  /\ stream = "closed" /\ overrun = FALSE /\ calls = 0

-----------------------------------------------------------------------------
(* What open knows after each line.  A section that comes again is not       *)
(* inserted: its keys go to a section nobody finds.                          *)
Start == [sections |-> <<>>, current |-> "none", linked |-> FALSE,
          buffer |-> <<>>, length |-> length, size |-> size + BufferSize,
          overrun |-> FALSE]

With(f, k, v) == [x \in DOMAIN f \cup {k} |-> IF x = k THEN v ELSE f[x]]

MutantInserted(f, k, v) == With(f, k, v)

(* std::map::insert keeps what is there.                                     *)
Inserted(f, k, v) == IF k \in DOMAIN f THEN f ELSE With(f, k, v)

(* _add_bufferstring, with _buffer_resize.                                   *)
AddString(r, v) ==
  LET need == LengthOf[v] + 1
      newsize == IF r.length + need >= r.size THEN 2 * r.size ELSE r.size
  IN  [r EXCEPT !.buffer = With(@, r.length, v), !.length = @ + need,
                !.size = newsize, !.overrun = @ \/ r.length + need > newsize]

Line(r, l) ==
  CASE l.kind = "section" ->
         [r EXCEPT !.linked = l.name \notin DOMAIN r.sections,
                   !.current = l.name,
                   !.sections = IF l.name \in DOMAIN @ THEN @ ELSE With(@, l.name, <<>>)]
    [] l.kind = "key" ->
         LET a == AddString(r, l.value) IN
         IF r.linked
           THEN [a EXCEPT !.sections[r.current] = Inserted(@, l.key, r.length)]
           ELSE a
    [] OTHER -> r

(* A key before the first section fails an assertion.                        *)
Accepted(f) ==
  \A i \in DOMAIN f : f[i].kind = "key" =>
    \E j \in 1..(i - 1) : f[j].kind = "section"

Open(f) ==
  /\ calls < MaxCalls /\ Accepted(f)
  /\ calls' = calls + 1
  /\ IF stream # "closed"
       THEN (* the stream is open already: only the buffer has been replaced *)
            /\ buffer' = <<>> /\ size' = size + BufferSize
            /\ stream' = "failed"
            /\ UNCHANGED <<source, sections, length, overrun>>
       ELSE LET r == FoldLeft(Line, Start, f) IN
            /\ source' = f /\ sections' = r.sections /\ buffer' = r.buffer
            /\ length' = r.length /\ size' = r.size /\ overrun' = r.overrun
            /\ stream' = "failed"

(* Reading to the end has set the stream's fail bit, so it is not closed.    *)
Close ==
  /\ calls < MaxCalls
  /\ calls' = calls + 1
  /\ stream' = IF stream = "failed" THEN stream ELSE "closed"
  /\ sections' = <<>> /\ buffer' = <<>> /\ length' = 0 /\ size' = 0
  /\ UNCHANGED <<source, overrun>>

IniNext == Close \/ \E f \in Settings : Open(f)

IniSpec == IniInit /\ [][IniNext]_iniVars

-----------------------------------------------------------------------------
(* _get: the value found, if any.                                            *)
Get(s, k) ==
  IF s \in DOMAIN sections /\ k \in DOMAIN sections[s]
    THEN LET p == sections[s][k] IN
         IF p \in DOMAIN buffer THEN buffer[p] ELSE "garbage"
    ELSE "none"

(* What the file says: the first such key of the first such section.         *)
FirstOf(P) == CHOOSE i \in P : \A j \in P : i <= j
Said(s, k) ==
  LET heads == {i \in DOMAIN source : source[i].kind = "section"}
      mine == {i \in heads : source[i].name = s}
      inside == {i \in DOMAIN source : /\ source[i].kind = "key" /\ source[i].key = k
                                     /\ i > FirstOf(mine)
                                     /\ ~\E j \in heads : FirstOf(mine) < j /\ j < i}
  IN  IF mine = {} \/ inside = {} THEN "none" ELSE source[FirstOf(inside)].value

(* While the object holds the one file it has read, every key reads as the   *)
(* file says, however the buffer has grown, and no value lies outside it.    *)
IniReads ==
  /\ ~overrun
  /\ calls = 1 => \A s \in Sections, k \in Keys : sections # <<>> => Get(s, k) = Said(s, k)

-----------------------------------------------------------------------------
(* Libraries: file::Library and LibraryManager                               *)

CONSTANTS
  Names,     \* the names libraries are asked for by
  NamesOf,   \* namesmap_: the sequence of file names tried for a name
  Paths,     \* searchpaths_
  Absent, Empty,  \* no entry in librarymap_, and an entry holding nullptr
  MaxLoads   \* bound: calls of load

VARIABLES
  disk,      \* the files that exist and can be loaded
  map,       \* librarymap_: the file each name holds
  refs,      \* the loader's handles of each file
  opening,   \* the loads whose open function is running, innermost last
  crashed,   \* nullptr has been dereferenced
  loads

libVars == <<disk, map, refs, opening, crashed, loads>>

FileNames == UNION {Range(NamesOf[n]) : n \in Names}
LibraryFiles == [path : Range(Paths), prefix : BOOLEAN, name : FileNames]

LibraryInit ==
  /\ disk \in SUBSET LibraryFiles
  /\ map = [n \in Names |-> Absent]
  /\ refs = [f \in LibraryFiles |-> 0]
  /\ opening = <<>> /\ crashed = FALSE /\ loads = 0

-----------------------------------------------------------------------------
(* Library::load over the search paths: the prefix is added to the file name *)
(* for good when the first path lacks the file, so only there is the name    *)
(* tried as it is.  A library that already holds a file takes another only   *)
(* if the first path has it.                                                 *)
Plain(n) == [path |-> Paths[1], prefix |-> FALSE, name |-> n]
Prefixed(n, i) == [path |-> Paths[i], prefix |-> TRUE, name |-> n]

Tried(n) == <<Plain(n)>> \o [i \in 1..Len(Paths) |-> Prefixed(n, i)]

Opened(n, held) ==
  LET found == SelectSeq(IF held = <<>> THEN Tried(n) ELSE <<Plain(n)>>,
                         LAMBDA f : f \in disk)
  IN  IF found = <<>> THEN <<>> ELSE <<Head(found)>>

(* LibraryManager::load tries every name; the last file opened is held.      *)
AllOpened(n) ==
  FoldLeft(LAMBDA held, m : held \o Opened(m, held), <<>>, NamesOf[n])

Count(s, f) == Cardinality({i \in DOMAIN s : s[i] = f})

Load(n) ==
  LET files == AllOpened(n) IN
  /\ ~crashed /\ loads < MaxLoads
  /\ loads' = loads + 1
  /\ IF map[n] \in LibraryFiles
       THEN UNCHANGED <<map, refs, opening>>
       ELSE /\ map' = [map EXCEPT ![n] = Empty]
            /\ refs' = [f \in LibraryFiles |-> refs[f] + Count(files, f)]
            /\ opening' = IF files = <<>> THEN opening
                          ELSE Append(opening, [name |-> n, file |-> Last(files)])
  /\ UNCHANGED <<disk, crashed>>

(* The library that a name held before, if any, is unloaded.                 *)
Replaced(n) == IF map[n] \in LibraryFiles THEN {map[n]} ELSE {}

(* The open function of the innermost load returns.                          *)
Loaded ==
  /\ ~crashed /\ opening # <<>>
  /\ LET l == Last(opening) IN
       /\ refs' = [f \in LibraryFiles |-> refs[f] - Cardinality(Replaced(l.name) \cap {f})]
       /\ map' = [map EXCEPT ![l.name] = l.file]
  /\ opening' = Front(opening)
  /\ UNCHANGED <<disk, crashed, loads>>

MutantErased(n) == [map EXCEPT ![n] = map[n]]

(* librarymap_.erase                                                         *)
Erased(n) == [map EXCEPT ![n] = Absent]

(* LibraryManager::unload, where dlclose may fail.                           *)
Unload(n) ==
  /\ ~crashed /\ map[n] # Absent
  /\ IF map[n] = Empty
       THEN crashed' = TRUE /\ UNCHANGED <<map, refs>>
       ELSE /\ \/ /\ refs' = [refs EXCEPT ![map[n]] = @ - 1]
                  /\ map' = Erased(n)
               \/ UNCHANGED <<map, refs>>
            /\ UNCHANGED crashed
  /\ UNCHANGED <<disk, opening, loads>>

(* LibraryManager::get                                                       *)
GetLibrary(n) ==
  /\ ~crashed /\ map[n] = Absent
  /\ map' = [map EXCEPT ![n] = Empty]
  /\ UNCHANGED <<disk, refs, opening, crashed, loads>>

LibraryNext ==
  \/ \E n \in Names : Load(n) \/ Unload(n) \/ GetLibrary(n)
  \/ Loaded

LibrarySpec == LibraryInit /\ [][LibraryNext]_libVars

-----------------------------------------------------------------------------
Holders(f) ==
  Cardinality({n \in Names : map[n] = f})
  + Cardinality({i \in DOMAIN opening : opening[i].file = f})

(* A library that is registered, or whose open function is running, is       *)
(* loaded: the loader has a handle for every holder, however loads nest.     *)
LibrariesOpen == \A f \in LibraryFiles : refs[f] >= Holders(f)

-----------------------------------------------------------------------------
Init == TabInit /\ IniInit /\ LibraryInit

-----------------------------------------------------------------------------
(* What the code does not ensure.                                            *)

(* A second open reads the second file.                                      *)
ReopenReads ==
  ~hung /\ types # <<>> => Len(data) = records * Len(types)

(* A binary file that was saved can be opened.                               *)
BinaryOpens == binary # NoBinary => BinaryFits(binary)

(* Every table is read to the end.                                           *)
OpenReturns == ~hung

(* After close a file can be opened again, and a failed open leaves what the *)
(* object holds as it was.                                                   *)
ReopenWorks ==
  \A s \in Sections, k \in Keys : Get(s, k) # "garbage" /\ (size = 0 => stream = "closed")

(* Each handle has a holder: not when two of a name's alternatives exist.    *)
NoHandleLost == \A f \in LibraryFiles : refs[f] = Holders(f)

(* Unloading after a load that failed is safe.                               *)
UnloadSafe == ~crashed
=============================================================================
