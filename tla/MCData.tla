------------------------------- MODULE MCData -------------------------------
(* What the rest is built from: the ring between two threads, packets over a *)
(* stream, packed values, calls by name, connecting by address, the memory   *)
(* pool, loaded libraries, tables, settings, digests, texts with codecs, and *)
(* passwords.  They share no variable, so each behaviour is of one of them.  *)
EXTENDS RingSpsc, Integers, Sequences, SequencesExt

CONSTANTS
  Parts,                   \* the components considered
  Callers,                 \* RpcCall
  PoolThreads, OneThread,  \* Pool
  Uint16, TabOpens         \* Files

VARIABLES
  part,  \* the component that this behaviour is of
  codec, o, i, wire, sent, got, errorTimes, closed, moved, lives,
  items, packed, phase, packFresh, absWraps, u, packOut,
  callIndex, callings, bound, requests, answers, open, life, rpcPc, rpcAsked,
  rpcIndex, born, outcome, rpcCrashed,
  up, conState, told, target, err, conPc, conAsked, result, stale, peer,
  conCalls, losses,
  available, deallocated, curLeaf, poolHead, live, poolPc, leaf, start,
  poolSize, offset, returned, loaded, mallocs, refused,
  disk, map, refs, opening, libCrashed, loads,
  types, names, data, records, pool, tableIndex, tableFile, saved, binary,
  opens, tableFresh, hung,
  source, sections, confBuffer, length, confSize, stream, overrun,
  confCalls,
  md5State, count, md5Buffer, finalized, digest, message,
  string, bytes, size,
  password, tick, level, scrambled, status

MCPackets ==
  {[id |-> 1, data |-> <<1>>, call |-> "none"],
   [id |-> 65534, data |-> <<2, 3, 4, 5, 6>>, call |-> "request"]}

V4(h, p) == [family |-> 4, host |-> <<h>>, port |-> p]
V6(h, p) == [family |-> 6, host |-> <<h>>, port |-> p]

(* One library may be in any of two files.                                   *)
MCNamesOf == [n \in {"a", "b"} |-> IF n = "a" THEN <<"a">> ELSE <<"a", "b">>]

(* Columns with and without numbers; rows short, commented and repeated.     *)
Cell == {"", "0", "1", "x", "yy", "#"}
ColumnTypes == {<<"INT", "STRING">>, <<"STRING", "STRING">>, <<"BOOL">>}
Row == {<<"1">>, <<"x", "yy">>, <<"yy", "x">>, <<"1", "x">>, <<"", "x">>,
        <<"#", "x">>, <<"0", "">>, <<"x", "x">>}
MCTables ==
  {[types |-> t, names |-> <<"id">>, rows |-> r] :
     t \in ColumnTypes, r \in BoundedSeq(Row, 3)}

(* Sections and keys in any order, repeated or before the first section.     *)
Section(n) == [kind |-> "section", name |-> n]
Setting(k, v) == [kind |-> "key", key |-> k, value |-> v]
Lines == {Section("s"), Section("t"), Setting("k", "a"), Setting("k", "bb"),
          Setting("l", "a"), [kind |-> "other"]}
MCSettings == BoundedSeq(Lines, 4)

(* Each type of value, each of its sizes, and the bounds between them.       *)
Fill(b, n) == [k \in 1..n |-> b]
I(v) == [t |-> "int", v |-> v]
U(v) == [t |-> "uint", v |-> v]
R(t, n, e, f) == [t |-> t, v |-> [neg |-> n, exp |-> e, frac |-> f]]
S(n) == [t |-> "str", v |-> Fill(65, n)]
MCItems ==
  << [t |-> "null", v |-> 0], [t |-> "bool", v |-> TRUE], [t |-> "bool", v |-> FALSE],
    I(<<0>>), I(<<1>>), I(<<25>>), I(<<26>>), I(<<128>>), I(<<255>>), I(<<0, 3>>), I(<<0, 127>>),
    I(<<0, 128>>), I(<<255, 128>>), I(<<255, 5>>), I(<<128, 0>>), I(<<0, 0, 0, 7>>),
    I(<<0, 0, 127, 255>>), I(<<255, 255, 128, 0>>), I(<<255, 255, 127, 255>>), I(<<128, 0, 0, 0>>),
    I(<<0, 0, 0, 0, 127, 255, 255, 255>>), I(<<128, 0, 0, 0, 0, 0, 0, 0>>), I(<<255, 255, 255, 255, 128, 0, 0, 0>>),
    I(<<255, 251>>), U(<<2>>), U(<<127>>), U(<<128>>), U(<<0, 255>>), U(<<1, 0>>), U(<<0, 0, 0, 1>>), U(<<0, 0, 0, 6>>), U(<<0, 1, 0, 0>>),
    U(<<0, 0, 0, 0, 0, 0, 0, 3>>), U(<<0, 0, 0, 0, 0, 1, 0, 0>>), U(<<0, 0, 0, 1, 0, 0, 0, 0>>),
    R("float", FALSE, 1, 1), R("float", TRUE, 0, 3), R("float", FALSE, -1, 0), R("float", FALSE, 3, 1), R("float", TRUE, 1, 0),
    R("double", TRUE, 5, 1), R("double", FALSE, 0, 1), R("double", FALSE, 8, 0), R("double", TRUE, -2, 1),
    S(0), S(31), S(32), S(254), S(255), [t |-> "bin", v |-> <<>>], [t |-> "bin", v |-> Fill(2, 255)],
    [t |-> "array", v |-> <<S(1), S(3)>>], [t |-> "array", v |-> [k \in 1..16 |-> U(<<k + 40>>)]], [t |-> "array", v |-> <<I(<<255, 128>>), I(<<1, 0>>)>>],
    [t |-> "map", v |-> <<S(2), [t |-> "bool", v |-> TRUE], S(1), [t |-> "bool", v |-> FALSE]>>],
    [t |-> "object", v |-> <<I(<<0, 0, 48, 57>>), [t |-> "object", v |-> <<S(3)>>]>>] >>

(* Sizes at the bounds between units and between numbers of decimals.        *)
Size(N, E) == {[n |-> n, e |-> e] : n \in N, e \in E}
MCSizes ==
  Size({0, 1, 10, 11, 31, 32, 33, 341, 342, 999, 1000, 1023, 1024, 10922, 10923, 32767, 32768}
         \cup 9990..10010 \cup 99940..99960 \cup 999490..999510, {0})
    \cup Size({1000, 9994, 9995, 9999, 99949, 99950, 99999, 999499, 999500, 999999}, 1..4)
    \cup Size({1000, 9994, 9995, 18446}, {5})

(* Passwords short and long, of one character and of many, and bad ones.     *)
MCPasswords ==
  {<<>>, <<97>>, <<32, 126, 65>>, Fill(126, 20), [k \in 1..20 |-> 33 + 3 * k],
   <<120, 33, 89, 95, 48, 126, 64, 90, 33, 33, 33>>, Fill(65, 21), <<97, 7>>}

Net == INSTANCE NetStream WITH
  Packets <- MCPackets, Base <- 8, MaxId <- 65535, MaxLength <- 16,
  OnceMax <- 2, CantPeekMax <- 2, MaxSends <- 2, MaxWire <- 12, MaxLives <- 1
Again == INSTANCE NetStream WITH
  Packets <- MCPackets, Base <- 8, MaxId <- 65535, MaxLength <- 16,
  OnceMax <- 2, CantPeekMax <- 2, MaxSends <- 1, MaxWire <- 12, MaxLives <- 3
Pack == INSTANCE Packer WITH
  Items <- MCItems, MaxItems <- 2, MaxCut <- 10, fresh <- packFresh,
  out <- packOut
Rpc == INSTANCE RpcCall WITH
  Names <- {"f", "g"}, Void <- {"g"}, MaxLives <- 2, pc <- rpcPc,
  asked <- rpcAsked, index <- rpcIndex, crashed <- rpcCrashed
Con == INSTANCE Connect WITH
  Address <- {V4("a", 1), V4("b", 2), V6("c", 3)}, Loopback <- V4("l", 0),
  Null <- V4("null", 0), MaxCalls <- 3, MaxLosses <- 2, state <- conState,
  pc <- conPc, asked <- conAsked, calls <- conCalls
Pool == INSTANCE Pool WITH
  LeafCount <- 2, LeafSize <- 4, Average <- 2, Sizes <- {1, 2},
  DoOSMalloc <- TRUE, Threads <- PoolThreads, MaxMallocs <- 3,
  head <- poolHead, pc <- poolPc, size <- poolSize
Alone == INSTANCE Pool WITH
  LeafCount <- 2, LeafSize <- 4, Average <- 2, Sizes <- {1, 2},
  DoOSMalloc <- TRUE, Threads <- {OneThread}, MaxMallocs <- 5,
  head <- poolHead, pc <- poolPc, size <- poolSize
File == INSTANCE Files WITH
  Tables <- MCTables, NumberOf <- [c \in Cell |-> IF c = "1" THEN 1 ELSE 0],
  TextOf <- [n \in 0..1 |-> IF n = 1 THEN "1" ELSE "0"],
  LengthOf <- [c \in Cell \cup {"a", "bb"} |->
                 CASE c = "" -> 0 [] c \in {"yy", "bb"} -> 2 [] OTHER -> 1],
  Comments <- {"#"}, MaxOpens <- TabOpens, index <- tableIndex,
  file <- tableFile, fresh <- tableFresh, Settings <- MCSettings,
  Sections <- {"s", "t"}, Keys <- {"k", "l"}, BufferSize <- 4, MaxCalls <- 2,
  buffer <- confBuffer, size <- confSize, calls <- confCalls,
  Names <- {"a", "b"}, NamesOf <- MCNamesOf, Paths <- <<"p", "q">>,
  Absent <- [path |-> "absent"], Empty <- [path |-> "empty"], MaxLoads <- 3,
  crashed <- libCrashed
Md5 == INSTANCE Digest WITH
  BlockSize <- 4, LengthSize <- 2, Word <- 64,
  Pieces <- {0, 1, 2, 3, 5, 9, 17}, MaxLength <- 18, state <- md5State,
  buffer <- md5Buffer
Str == INSTANCE Strings WITH
  Chars <- {"a", "'", "\\", "\"", "/", "\n"}, Key <- {"/"},
  Bytes <- {0, 1, 77, 128, 255}, MaxLength <- 5, Sizes <- MCSizes,
  Thousand <- 32, Hundredth <- 3, text <- string,
  Texts <- MCPasswords, Ticks <- {1, 50, 10001},
  Numbers <- {0, 7, 10, 42, -1, -12, -345, 999999999}, result <- scrambled

netVars == <<codec, o, i, wire, sent, got, errorTimes, closed, moved, lives>>
packVars == <<items, packed, phase, packFresh, absWraps, u, packOut>>
rpcVars == <<callIndex, callings, bound, requests, answers, open, life, rpcPc,
             rpcAsked, rpcIndex, born, outcome, rpcCrashed>>
conVars == <<up, conState, told, target, err, conPc, conAsked, result, stale,
             peer, conCalls, losses>>
poolVars == <<available, deallocated, curLeaf, poolHead, live, poolPc, leaf,
              start, poolSize, offset, returned, loaded, mallocs, refused>>
libVars == <<disk, map, refs, opening, libCrashed, loads>>
tableVars == <<types, names, data, records, pool, tableIndex, tableFile,
               saved, binary, opens, tableFresh, hung>>
confVars == <<source, sections, confBuffer, length, confSize, stream,
              overrun, confCalls>>
md5Vars == <<md5State, count, md5Buffer, finalized, digest, message>>
strVars == <<string, bytes, size>>
passVars == <<password, tick, level, scrambled, status>>

SuiteInit ==
  /\ part \in Parts
  /\ Init
  /\ Net!Init /\ (part \notin {"stream", "stream_again"} => codec = "head")
  /\ Pack!Init /\ (part # "packer" => packFresh /\ absWraps)
  /\ Rpc!Init /\ (part # "rpc" => rpcAsked = [c \in Callers |-> "f"])
  /\ Con!Init /\ (part # "connect" => up = {})
  /\ Pool!Init
  /\ File!Init /\ (part # "library" => disk = {})
  /\ Md5!Init
  /\ Str!Init /\ (part # "strings" => size = [n |-> 0, e |-> 0])
       /\ (part # "passwords" => password = <<>> /\ tick = 1)

(* One component takes its steps and the others stay as they began.          *)
SuiteNext ==
  /\ UNCHANGED part
  /\ \/ part = "ring" /\ Next
        /\ UNCHANGED <<netVars, packVars, rpcVars, conVars, poolVars, libVars,
                      tableVars, confVars, md5Vars, strVars, passVars>>
     \/ part = "stream" /\ Net!Next
        /\ UNCHANGED <<vars, packVars, rpcVars, conVars, poolVars,
                      libVars, tableVars, confVars, md5Vars, strVars, passVars>>
     \/ part = "stream_again" /\ Again!Next
        /\ UNCHANGED <<vars, packVars, rpcVars, conVars, poolVars,
                      libVars, tableVars, confVars, md5Vars, strVars, passVars>>
     \/ part = "packer" /\ Pack!Next
        /\ UNCHANGED <<vars, netVars, rpcVars, conVars, poolVars, libVars,
                      tableVars, confVars, md5Vars, strVars, passVars>>
     \/ part = "rpc" /\ Rpc!Next
        /\ UNCHANGED <<vars, netVars, packVars, conVars, poolVars,
                      libVars, tableVars, confVars, md5Vars, strVars, passVars>>
     \/ part = "connect" /\ Con!Next
        /\ UNCHANGED <<vars, netVars, packVars, rpcVars, poolVars,
                      libVars, tableVars, confVars, md5Vars, strVars, passVars>>
     \/ part = "pool" /\ Pool!Next
        /\ UNCHANGED <<vars, netVars, packVars, rpcVars, conVars, libVars,
                      tableVars, confVars, md5Vars, strVars, passVars>>
     \/ part = "pool_alone" /\ Alone!Next
        /\ UNCHANGED <<vars, netVars, packVars, rpcVars, conVars, libVars,
                      tableVars, confVars, md5Vars, strVars, passVars>>
     \/ part = "library" /\ File!LibraryNext
        /\ UNCHANGED <<vars, netVars, packVars, rpcVars, conVars,
                      poolVars, tableVars, confVars, md5Vars, strVars, passVars>>
     \/ part = "tab" /\ File!TabNext
        /\ UNCHANGED <<vars, netVars, packVars, rpcVars, conVars,
                      poolVars, libVars, confVars, md5Vars, strVars, passVars>>
     \/ part = "ini" /\ File!IniNext
        /\ UNCHANGED <<vars, netVars, packVars, rpcVars, conVars,
                      poolVars, libVars, tableVars, md5Vars, strVars, passVars>>
     \/ part = "digest" /\ Md5!Next
        /\ UNCHANGED <<vars, netVars, packVars, rpcVars, conVars,
                      poolVars, libVars, tableVars, confVars, strVars, passVars>>
     \/ part = "strings" /\ Str!TextNext
        /\ UNCHANGED <<vars, netVars, packVars, rpcVars, conVars, poolVars, libVars,
                      tableVars, confVars, md5Vars, passVars>>
     \/ part = "passwords" /\ Str!Attempt
        /\ UNCHANGED <<vars, netVars, packVars, rpcVars, conVars, poolVars, libVars,
                      tableVars, confVars, md5Vars, strVars>>
     \/ part \in {"ring", "stream", "stream_again", "packer", "rpc", "connect", "pool",
                  "pool_alone", "library", "tab", "ini", "digest", "strings", "passwords"}  \* it may stop
        /\ UNCHANGED <<vars, netVars, packVars, rpcVars, conVars,
                      poolVars, libVars, tableVars, confVars, md5Vars,
                      strVars, passVars>>

suiteVars == <<part, vars, netVars, packVars, rpcVars, conVars, poolVars,
                libVars, tableVars, confVars, md5Vars, strVars, passVars>>

SuiteSpec == SuiteInit /\ [][SuiteNext]_suiteVars

-----------------------------------------------------------------------------
(* However the sockets cut the bytes, the packets handled are those sent,    *)
(* unchanged and in order, also when the connection object is used again     *)
(* (net/stream/codec.cc, net/stream/basic.cc).                               *)
PacketsIntact ==
  part \in {"stream", "stream_again"} => Net!TypeOK /\ Net!PacketsIntact

(* Packed values come back equal, and a vector without its tail is reported  *)
(* (net/rpc/packer.cc, unpacker.cc).                                         *)
RoundTrip == part = "packer" => Pack!TypeOK /\ Pack!RoundTrip

(* A call by name gets the answer to its own request or a failure            *)
(* (net/connection/basic.cc, handle_rpc_request and handle_rpc_response).    *)
AnswerMatchesCall == part = "rpc" => Rpc!TypeOK /\ Rpc!AnswerMatchesCall

(* connect returns true only for a socket connected where it was asked to,   *)
(* and an IPv4 peer's text reads as its address (socket/basic.cc, api.cc).   *)
ConnectedAsAsked ==
  part = "connect" => Con!ConnectedAsAsked /\ Con!TextRoundTrip

(* Blocks of the memory pool lie in their leaf, whatever threads do; for one *)
(* thread they are disjoint and free knows them (sys/memory/pool.h).         *)
PoolSound ==
  /\ part \in {"pool", "pool_alone"} => Pool!InLeaf
  /\ part = "pool_alone" => Pool!NoOverlap /\ Pool!FreeAccepts

(* A registered library is loaded, however loads nest (file/library.cc).     *)
LibrariesOpen == part = "library" => File!LibrariesOpen

(* Tables and settings read as their files say, a digest depends on the      *)
(* message alone and the text codecs are inverse to each other; texts are    *)
(* replaced and trimmed, sizes written and passwords scrambled as they can   *)
(* be read back (file/tab.cc, file/ini.cc, basic/md5.cc, basic/base64.cc,    *)
(* basic/utility.cc).                                                        *)
FilesRead ==
  /\ part = "tab" => File!TabReads
  /\ part = "ini" => File!IniReads
  /\ part = "digest" => Md5!BlocksExact
  /\ part = "strings" => Str!TextsReplaced /\ Str!TextsTrimmed /\ Str!SizesWritten
       /\ Str!CodecsInverse
  /\ part = "passwords" => Str!PasswordsReturn /\ Str!NumbersReturn

-----------------------------------------------------------------------------
(* What the code does not ensure.                                            *)

(* A DynamicRing that grows keeps its contents: not when its indices have    *)
(* passed its old size (ring.h, resize).                                     *)
GrowthKeepsBytes == Net!PacketsIntactOnGrowth

(* Every value packed comes back: not small negative numbers, values equal   *)
(* to a tag, some 64-bit ones and floats below one (packer.cc, unpacker.cc). *)
EveryValueReturns == Pack!RoundTripAll

(* A socket left connecting to one address is not used for another one.      *)
ConnectedToAsked == Con!ConnectedToAsked

(* Connector::connect(conn) goes back to the connection's peer: not with an  *)
(* IPv6 address, and not once the connection is lost.                        *)
ReconnectsToPeer == Con!ReconnectsToPeer
ReconnectsAfterLoss == Con!ReconnectsAfterLoss

(* A library's handle has an owner; unloading what failed to load is safe.   *)
NoHandleLost == File!NoHandleLost
UnloadSafe == File!UnloadSafe

(* A table object can be opened twice, a saved binary table be opened, and   *)
(* every open returns.                                                       *)
ReopenReads == File!ReopenReads
BinaryOpens == File!BinaryOpens
OpenReturns == File!OpenReturns

(* A settings object can be opened again after close.                        *)
ReopenWorks == File!ReopenWorks

(* Every size has five characters, str_replaces replaces each of what it is  *)
(* given, trim leaves nothing of its mask at an end, bytes come back from    *)
(* their digits, a text from what its number was put into, and a long        *)
(* password is encrypted in the end.                                         *)
FiveCharacters == Str!FiveCharacters
ReplacesEach == Str!ReplacesEach
TrimsAll == Str!TrimsAll
BytesReturn == Str!BytesReturn
TextReturns == Str!TextReturns
LongReturns == Str!LongReturns
=============================================================================
