----------------------------- MODULE TreeReader -----------------------------
(***************************************************************************)
(* How collectLegalTreeRaw of gogit_history_stream.go takes the bytes of a *)
(* tree apart.  A tree that the library has in memory comes as a whole, to *)
(* legalTreeWriter.Write; any other is read through a buffer from a pool,  *)
(* which hands out slices of itself: what a slice shows changes when the   *)
(* buffer is filled again.                                                 *)
(*                                                                         *)
(* Module LegalTrees has the reading of a tree as one step.  The names of  *)
(* this module differ from those of LegalTrees, so that one module can     *)
(* extend both.                                                            *)
(***************************************************************************)
EXTENDS Naturals, Sequences, SequencesExt

CONSTANTS
  Bytes,       (* The mode of an entry counts as one.                      *)
  StoredTrees, (* The trees to consider.                                   *)
  LegalNames,  (* The names that make a file or a directory a legal one.   *)
  HashSize,    (* Bytes of an object id.                                   *)
  BufferSize   (* Of the pooled readers.                                   *)

Modes == {"file", "dir", "link"}

(* The bytes that end a mode and a name.                                   *)
Space == "sp"
NUL == "nul"

(* A tree object: its bytes, and the entries they stand for; that of entry *)
(* i are bytes starts[i] + 1 to starts[i + 1].  size is the number of      *)
(* bytes that are stored: all, or not all.                                 *)
StoredType ==
  [entries: Seq([mode: Modes, name: Seq(Bytes), oid: Seq(Bytes)]),
   starts: Seq(Nat), bytes: Seq(Bytes), size: Nat]

Encoding(e) == <<e.mode, Space>> \o e.name \o <<NUL>> \o e.oid

LaidOut(t) ==
  LET n == Len(t.entries) IN
  /\ Len(t.starts) = n + 1
  /\ t.starts[1] = 0
  /\ t.starts[n + 1] = Len(t.bytes)
  /\ \A i \in 1..n :
       /\ t.starts[i + 1] = t.starts[i] + Len(Encoding(t.entries[i]))
       /\ t.starts[i + 1] <= Len(t.bytes)
       /\ SubSeq(t.bytes, t.starts[i] + 1, t.starts[i + 1]) = Encoding(t.entries[i])

ASSUME TreeAssumption ==
  /\ Modes \cup {Space, NUL} \subseteq Bytes
  /\ StoredTrees \subseteq StoredType
  /\ HashSize \in Nat \ {0}
  /\ BufferSize \in Nat
  /\ HashSize <= BufferSize
  /\ \A t \in StoredTrees :
       /\ LaidOut(t)
       /\ t.size <= Len(t.bytes)
       /\ \A i \in DOMAIN t.entries :
            LET e == t.entries[i] IN
            /\ Len(e.oid) = HashSize
            /\ e.name # <<>>
            /\ NUL \notin ToSet(e.name)

VARIABLES
  tree,        (* Fixed for the run, as are the next two.                  *)
  inMemory,    (* The library has it as a MemoryObject.                    *)
  inherited,   (* It is below a legal directory.                           *)
  data,        (* The bytes that are still to come from the library.       *)
  buf,         (* The buffer; its bytes readAt + 1 to writeAt are unread.   *)
  readAt, writeAt,
  eof,
  pc,          (* "mode", "name" or "oid": what is due; or "returned".     *)
  mode,        (* The mode of the entry that is being read.                *)
  name,        (* Its name: a slice of the buffer.                         *)
  taken,       (* The entries, and whether each was found to be legal.     *)
  result

givenVars == <<tree, inMemory, inherited>>
bufferVars == <<data, buf, readAt, writeAt, eof>>
readerVars == <<givenVars, bufferVars, pc, mode, name, taken, result>>

ReaderInit ==
  /\ tree \in StoredTrees
  /\ inMemory \in BOOLEAN
  /\ inherited \in BOOLEAN
  /\ data = SubSeq(tree.bytes, 1, tree.size)
  /\ buf = [i \in 1..BufferSize |-> NUL]
  /\ readAt = 0
  /\ writeAt = 0
  /\ eof = FALSE
  /\ pc = "mode"
  /\ mode = "none"
  /\ name = [from |-> 0, len |-> 0]
  /\ taken = <<>>
  /\ result = "running"

-----------------------------------------------------------------------------
(* The index of the first byte b in some bytes, or 0.                      *)
IndexByte(bytes, b) == SelectInSeq(bytes, LAMBDA x : x = b)

(* What an entry leads to: a file is collected and a directory descended   *)
(* into as legal if the name is, or everything here is.                    *)
Entry(m, n, o) == [mode |-> m, oid |-> o, legal |-> inherited \/ n \in LegalNames]

Stop(how) ==
  /\ pc' = "returned"
  /\ result' = how
  /\ UNCHANGED <<givenVars, bufferVars, mode, name, taken>>

-----------------------------------------------------------------------------
(* legalTreeWriter.Write: one round of its loop, on the bytes of data.     *)

ModeEnd == IndexByte(data, Space)
AfterMode == SubSeq(data, ModeEnd + 1, Len(data))
NameEnd == IndexByte(AfterMode, NUL)
AfterName == SubSeq(AfterMode, NameEnd + 1, Len(AfterMode))

WellFormed ==
  /\ ModeEnd = 2
  /\ data[1] \in Modes
  /\ NameEnd > 1
  /\ Len(AfterName) >= HashSize

WriteEntry ==
  /\ inMemory
  /\ pc = "mode"
  /\ WellFormed
  /\ taken' = Append(taken, Entry(data[1], SubSeq(AfterMode, 1, NameEnd - 1),
                                  SubSeq(AfterName, 1, HashSize)))
  /\ data' = SubSeq(AfterName, HashSize + 1, Len(AfterName))
  /\ UNCHANGED <<givenVars, buf, readAt, writeAt, eof, pc, mode, name, result>>

WriteEnd ==
  /\ inMemory
  /\ pc = "mode"
  /\ IF data = <<>> THEN Stop("ok") ELSE ~WellFormed /\ Stop("malformed")

-----------------------------------------------------------------------------
(* The buffered reader, which is bufio.Reader.                             *)

Unread == SubSeq(buf, readAt + 1, writeAt)

(* The operation that is due has not enough in the buffer.                 *)
Short ==
  \/ pc = "mode" /\ IndexByte(Unread, Space) = 0
  \/ pc = "name" /\ IndexByte(Unread, NUL) = 0
  \/ pc = "oid" /\ Len(Unread) < HashSize

(* fill: what has not been consumed slides to the beginning, and n bytes   *)
(* follow it; the rest of the buffer stays what it was.                    *)
Fill(n) ==
  LET end == Len(Unread) + n IN
  /\ ~inMemory
  /\ Short
  /\ ~eof
  /\ Len(Unread) < BufferSize
  /\ end <= BufferSize
  /\ buf' = Unread \o SubSeq(data, 1, n) \o SubSeq(buf, end + 1, BufferSize)
  /\ readAt' = 0
  /\ writeAt' = end
  /\ data' = SubSeq(data, n + 1, Len(data))
  /\ eof' = (data = <<>>)
  /\ UNCHANGED <<givenVars, pc, mode, name, taken, result>>

-----------------------------------------------------------------------------
(* collectLegalTreeRaw: one entry takes three calls of the buffer.         *)

(* ReadSlice of a space; the slice is parsed at once.                      *)
ReadMode ==
  LET end == IndexByte(Unread, Space) IN
  /\ ~inMemory
  /\ pc = "mode"
  /\ end = 2
  /\ Unread[1] \in Modes
  /\ mode' = Unread[1]
  /\ readAt' = readAt + end
  /\ pc' = "name"
  /\ UNCHANGED <<givenVars, data, buf, writeAt, eof, name, taken, result>>

(* Mutant of ReadName: the byte that ends the name is not consumed.        *)
ReadNameNoEnd ==
  LET end == IndexByte(Unread, NUL) IN
  /\ ~inMemory
  /\ pc = "name"
  /\ end > 1
  /\ name' = [from |-> readAt, len |-> end - 1]
  /\ readAt' = readAt + end - 1
  /\ pc' = "oid"
  /\ UNCHANGED <<givenVars, data, buf, writeAt, eof, mode, taken, result>>

(* ReadSlice of a NUL; the slice is kept.                                  *)
ReadName ==
  LET end == IndexByte(Unread, NUL) IN
  /\ ~inMemory
  /\ pc = "name"
  /\ end > 1
  /\ name' = [from |-> readAt, len |-> end - 1]
  /\ readAt' = readAt + end
  /\ pc' = "oid"
  /\ UNCHANGED <<givenVars, data, buf, writeAt, eof, mode, taken, result>>

(* Mutant of TakeEntry: the error of Peek is ignored, and what it has of   *)
(* the object id is taken for the whole.                                   *)
TakeEntryShort ==
  LET oid == SubSeq(Unread, 1, IF Short THEN Len(Unread) ELSE HashSize) IN
  /\ ~inMemory
  /\ pc = "oid"
  /\ Short => eof
  /\ taken' = Append(taken, Entry(mode, SubSeq(buf, name.from + 1, name.from + name.len), oid))
  /\ readAt' = readAt + Len(oid)
  /\ pc' = "mode"
  /\ UNCHANGED <<givenVars, data, buf, writeAt, eof, mode, name, result>>

(* Peek and Discard of the object id, after which the slice is looked at.  *)
TakeEntry ==
  /\ ~inMemory
  /\ pc = "oid"
  /\ ~Short
  /\ taken' = Append(taken, Entry(mode, SubSeq(buf, name.from + 1, name.from + name.len),
                                  SubSeq(Unread, 1, HashSize)))
  /\ readAt' = readAt + HashSize
  /\ pc' = "mode"
  /\ UNCHANGED <<givenVars, data, buf, writeAt, eof, mode, name, result>>

(* io.EOF between two entries is the end of the tree; within one it is an  *)
(* error, as is a field that the buffer cannot hold, a mode or a name that *)
(* is none.                                                                *)
ReadEnd ==
  /\ ~inMemory
  /\ pc # "returned"
  /\ \/ Short /\ eof /\ Stop(IF pc = "mode" /\ Unread = <<>> THEN "ok" ELSE "malformed")
     \/ Short /\ ~eof /\ Len(Unread) = BufferSize /\ Stop("malformed")
     \/ /\ ~Short
        /\ \/ pc = "mode" /\ (IndexByte(Unread, Space) # 2 \/ Unread[1] \notin Modes)
           \/ pc = "name" /\ IndexByte(Unread, NUL) = 1
        /\ Stop("malformed")

(* The object cannot be loaded, read or closed, or is no tree.             *)
ObjectFails ==
  /\ pc # "returned"
  /\ Stop("failed")

ReaderDone ==
  /\ pc = "returned"
  /\ UNCHANGED readerVars

ReaderNext ==
  \/ WriteEntry
  \/ WriteEnd
  \/ \E n \in 0..BufferSize : (n = 0 <=> data = <<>>) /\ n <= Len(data) /\ Fill(n)
  \/ ReadMode
  \/ ReadName
  \/ TakeEntry
  \/ ReadEnd
  \/ ObjectFails
  \/ ReaderDone

ReaderSpec == ReaderInit /\ [][ReaderNext]_readerVars

-----------------------------------------------------------------------------
(* What does not change, the buffer, and where the reading is.             *)
BufferTypeOK ==
  /\ tree \in StoredType
  /\ {inMemory, inherited, eof} \subseteq BOOLEAN
  /\ data \in Seq(Bytes)
  /\ buf \in Seq(Bytes)
  /\ Len(buf) = BufferSize
  /\ readAt \in 0..writeAt
  /\ writeAt \in 0..BufferSize
  /\ pc \in {"mode", "name", "oid", "returned"}
  /\ mode \in Modes \cup {"none"}
  /\ name \in [from: Nat, len: Nat]
  /\ name.from + name.len <= BufferSize
  /\ result \in {"running", "ok", "malformed", "failed"}

TakenType == [mode: Modes, oid: [1..HashSize -> Bytes], legal: BOOLEAN]

(* Types.  Wherever a tree ends, what was taken from it are entries with a *)
(* mode and an object id of full length; the indices of the reader and the *)
(* slice are inside the buffer.                                            *)
ReaderTypeOK ==
  /\ BufferTypeOK
  /\ taken \in Seq(TakenType)

(* The entries that are stored in full.                                    *)
Stored == {i \in DOMAIN tree.entries : tree.starts[i + 1] <= tree.size}

LegalByName(e) == inherited \/ e.name \in LegalNames

(* A tree that can be read is read entry by entry, whatever pieces it      *)
(* comes in: modes and object ids are those stored, and what was taken for *)
(* the end is where an entry ends and nothing is left.  Refused is only a  *)
(* tree that is cut, or has a name that the buffer cannot hold.  What is   *)
(* collected from a tree in memory is what its names demand.               *)
EntriesInStep ==
  /\ \A i \in DOMAIN taken :
       i \in Stored /\ taken[i].mode = tree.entries[i].mode
                    /\ taken[i].oid = tree.entries[i].oid
  /\ result = "ok" => tree.size = tree.starts[Len(taken) + 1]
  /\ result = "malformed" =>
       \/ tree.size < Len(tree.bytes)
       \/ ~inMemory /\ \E i \in DOMAIN tree.entries : Len(tree.entries[i].name) >= BufferSize
  /\ inMemory => \A i \in DOMAIN taken : taken[i].legal = LegalByName(tree.entries[i])

(* A file or directory counts as legal if it is one by its name: the limit *)
(* of --max-legal-blob-size is for blobs used at legal paths (main.go,     *)
(* addSharedFlags), whichever way the tree is read.                        *)
CollectsLegal ==
  \A i \in DOMAIN taken : taken[i].legal = LegalByName(tree.entries[i])
=============================================================================
