---------------------------- MODULE FeedChildren ----------------------------
(***************************************************************************)
(* What the git feeder says to its children, feedBlobsCatFile, listBlobs   *)
(* and catFile of main.go, down to the lines and bytes on the pipes.       *)
(*                                                                         *)
(* One child lists the objects of the store; each reader has a child of    *)
(* its own, which it asks for one object after the other.  An answer is a  *)
(* header, the bytes of the object and a line feed, and nothing marks      *)
(* where it ends but the size in its header: a reader that leaves a byte   *)
(* behind, or takes one too many, reads its next header out of some file.  *)
(* Module CatFileScan has the same goroutines with a read as one step.     *)
(***************************************************************************)
EXTENDS ChildProcess, FiniteSets, SequencesExt

CONSTANTS
  Objects, NoObject,
  Stores,      (* The stores to consider.                                  *)
  Readers, Lister,
  BlobsCap,    (* Capacity of the blobs channel (jobQueueSize).            *)
  Limit        (* The size limit, the same for all blobs.                  *)

(* A line of the listing or the header of an answer has a name, a type and *)
(* a size; a byte of an object may be that of a line that looks like one.  *)
Line(o, t, n) == [kind |-> "line", object |-> o, type |-> t, size |-> n]
Gone(o) == [kind |-> "missing", object |-> o]
LF == [kind |-> "lf"]
Byte == [kind |-> "byte"]

Types == {"blob", "tree"}

Token ==
  [kind: {"line"}, object: Objects, type: Types, size: Nat]
  \cup [kind: {"missing"}, object: Objects] \cup {LF, Byte}

(* How an object is listed, and what is served for it: something else if   *)
(* refs/replace says so, which the listing ignores, and nothing if it is   *)
(* lost between the two.                                                   *)
StoreType ==
  [Objects -> [listed: [type: Types, size: Nat], type: Types, body: Seq(Token),
               lost: BOOLEAN]]

ASSUME FeedAssumption ==
  /\ Stores \subseteq StoreType
  /\ Children = Readers \cup {Lister}
  /\ Lister \notin Readers
  /\ IsFiniteSet(Objects) /\ IsFiniteSet(Readers)
  /\ Readers # {}
  /\ NoObject \notin Objects
  /\ BlobsCap \in Nat \ {0}
  /\ Limit \in Nat

VARIABLES
  store,       (* Fixed for the run.                                       *)
  main,        (* Program counter of the calling goroutine.                *)
  offered,     (* The object it offers to the channel, or NoObject.        *)
  listErr,     (* err of listBlobs.                                        *)
  total,       (* Blobs listed.                                            *)
  blobs,       (* The channel to the readers.                              *)
  blobsClosed,
  reader,      (* Program counter of each reader.                          *)
  asked,       (* The object it has in hand, or NoObject.                  *)
  header,      (* The header of the answer it reads.                       *)
  left,        (* Bytes of the body to come.                               *)
  data,        (* Bytes of it kept.                                        *)
  errs,        (* Errors in the errs channel.                              *)
  cancelled,   (* The context is done.                                     *)
  sent,        (* What went to the jobs channel, by object.                *)
  skipped,     (* Objects passed to skip.                                  *)
  outcome

listVars == <<main, offered, listErr, total, outcome>>
readerVars == <<reader, asked, header, left, data>>
failVars == <<errs, cancelled>>
resultVars == <<sent, skipped>>
vars == <<store, childVars, listVars, blobs, blobsClosed, readerVars, failVars, resultVars>>

Served(o) == Line(o, store[o].type, Len(store[o].body))

Init ==
  /\ ChildInit
  /\ store \in Stores
  /\ main = "start"
  /\ offered = NoObject
  /\ listErr = FALSE
  /\ total = 0
  /\ blobs = <<>>
  /\ blobsClosed = FALSE
  /\ reader = [r \in Readers |-> "start"]
  /\ asked = [r \in Readers |-> NoObject]
  /\ header = [r \in Readers |-> LF]
  /\ left = [r \in Readers |-> 0]
  /\ data = [r \in Readers |-> <<>>]
  /\ errs = 0
  /\ cancelled = FALSE
  /\ sent = [o \in {} |-> <<>>]
  /\ skipped = {}
  /\ outcome = "running"

-----------------------------------------------------------------------------
(* listBlobs.                                                              *)

ListStart ==
  /\ main = "start"
  /\ \E order \in SetToSeqs(Objects) :
       Start(Lister, [i \in DOMAIN order |->
                        LET l == store[order[i]].listed IN Line(order[i], l.type, l.size)])
  /\ main' = "scan"
  /\ UNCHANGED <<store, offered, listErr, total, outcome, blobs, blobsClosed, readerVars,
                 failVars, resultVars>>

ListStartFails ==
  /\ main = "start"
  /\ main' = "close"
  /\ listErr' = TRUE
  /\ UNCHANGED <<store, childVars, offered, total, outcome, blobs, blobsClosed, readerVars,
                 failVars, resultVars>>

(* A line is scanned: a blob is counted and, unless its size is above the  *)
(* limit, offered; anything else is passed over.                           *)
Scan ==
  LET line == Head(pipe[Lister]) IN
  /\ main = "scan"
  /\ pipe[Lister] # <<>>
  /\ ReadFrom(Lister)
  /\ IF line.type # "blob"
     THEN UNCHANGED <<main, offered, total, skipped>>
     ELSE /\ total' = total + 1
          /\ IF line.size > Limit
             THEN skipped' = skipped \cup {line.object} /\ UNCHANGED <<main, offered>>
             ELSE main' = "offer" /\ offered' = line.object /\ UNCHANGED skipped
  /\ UNCHANGED <<store, child, script, listErr, outcome, blobs, blobsClosed, readerVars,
                 failVars, sent>>

(* select, case blobs <- blob                                              *)
Offer ==
  /\ main = "offer"
  /\ Len(blobs) < BlobsCap
  /\ blobs' = Append(blobs, offered)
  /\ offered' = NoObject
  /\ main' = "scan"
  /\ UNCHANGED <<store, childVars, listErr, total, outcome, blobsClosed, readerVars, failVars,
                 resultVars>>

(* The listing ends in an error of the parser, the scanner or visit: the   *)
(* child is killed before it is waited for, for it may have more to print  *)
(* than the pipe holds.                                                    *)
StopListing ==
  /\ Kill(Lister)
  /\ listErr' = TRUE
  /\ offered' = NoObject
  /\ main' = "reap"
  /\ UNCHANGED <<store, total, outcome, blobs, blobsClosed, readerVars, failVars, resultVars>>

(* Mutant of ScanFails: the child is left alone.                           *)
ScanFailsNoKill ==
  /\ main = "scan"
  /\ listErr' = TRUE
  /\ main' = "reap"
  /\ UNCHANGED <<store, childVars, offered, total, outcome, blobs, blobsClosed, readerVars,
                 failVars, resultVars>>

ScanFails == main = "scan" /\ StopListing

(* select, case <-ctx.Done                                                 *)
OfferCancelled == main = "offer" /\ cancelled /\ StopListing

ScanEnd ==
  /\ main = "scan"
  /\ AtEOF(Lister)
  /\ main' = "reap"
  /\ UNCHANGED <<store, childVars, offered, listErr, total, outcome, blobs, blobsClosed,
                 readerVars, failVars, resultVars>>

(* Mutant of ListReap: the end of the output is taken for the end of the   *)
(* list.                                                                   *)
ListReapUnchecked ==
  /\ main = "reap"
  /\ Ended(Lister)
  /\ main' = "close"
  /\ UNCHANGED <<store, childVars, offered, listErr, total, outcome, blobs, blobsClosed,
                 readerVars, failVars, resultVars>>

(* cmd.Wait: how the child ended is the last word on the listing.          *)
ListReap ==
  /\ main = "reap"
  /\ Ended(Lister)
  /\ listErr' = (listErr \/ child[Lister] = "died")
  /\ main' = "close"
  /\ UNCHANGED <<store, childVars, offered, total, outcome, blobs, blobsClosed, readerVars,
                 failVars, resultVars>>

CloseBlobs ==
  /\ main = "close"
  /\ blobsClosed' = TRUE
  /\ main' = "wait"
  /\ UNCHANGED <<store, childVars, offered, listErr, total, outcome, blobs, readerVars,
                 failVars, resultVars>>

(* wg.Wait, and the first error there is.                                  *)
FeedReturn ==
  /\ main = "wait"
  /\ \A r \in Readers : reader[r] = "done"
  /\ main' = "returned"
  /\ outcome' = IF errs > 0 \/ listErr THEN "failed" ELSE "ok"
  /\ UNCHANGED <<store, childVars, offered, listErr, total, blobs, blobsClosed, readerVars,
                 failVars, resultVars>>

MainStep ==
  \/ ListStart
  \/ Scan
  \/ Offer
  \/ OfferCancelled
  \/ ScanEnd
  \/ ListReap
  \/ CloseBlobs
  \/ FeedReturn

-----------------------------------------------------------------------------
(* A reader and catFile.                                                   *)

mainVars == <<listVars, blobsClosed>>

GoTo(r, pc) == reader' = [reader EXCEPT ![r] = pc]

(* errs <- err, cancel, and on return the deferred close.                  *)
Report(r, pc) ==
  /\ GoTo(r, pc)
  /\ errs' = errs + 1
  /\ cancelled' = TRUE
  /\ UNCHANGED <<asked, header, left, data>>

ReaderStart(r) ==
  /\ reader[r] = "start"
  /\ Start(r, <<>>)
  /\ GoTo(r, "take")
  /\ UNCHANGED <<store, mainVars, blobs, asked, header, left, data, failVars, resultVars>>

(* Without a child there is nothing to close.                              *)
ReaderStartFails(r) ==
  /\ reader[r] = "start"
  /\ Report(r, "done")
  /\ UNCHANGED <<store, childVars, mainVars, blobs, resultVars>>

(* A blob is taken and its name written to the child.                      *)
Ask(r) ==
  /\ reader[r] = "take"
  /\ blobs # <<>>
  /\ child[r] = "running"
  /\ blobs' = Tail(blobs)
  /\ asked' = [asked EXCEPT ![r] = Head(blobs)]
  /\ LET o == Head(blobs) IN
     script' = [script EXCEPT ![r] = @ \o
       IF store[o].lost THEN <<Gone(o)>>
       ELSE <<Served(o)>> \o store[o].body \o <<LF>>]
  /\ GoTo(r, "header")
  /\ UNCHANGED <<store, child, pipe, mainVars, header, left, data, failVars, resultVars>>

(* The child has gone; the write fails.                                    *)
AskFails(r) ==
  /\ reader[r] = "take"
  /\ blobs # <<>>
  /\ Ended(r)
  /\ blobs' = Tail(blobs)
  /\ Report(r, "close")
  /\ UNCHANGED <<store, childVars, mainVars, resultVars>>

(* Mutant of ReadHeader: the body of a large object is not discarded.      *)
ReadHeaderNoDiscard(r) ==
  LET line == Head(pipe[r]) IN
  /\ reader[r] = "header"
  /\ pipe[r] # <<>>
  /\ ReadFrom(r)
  /\ IF line.kind = "line"
     THEN /\ header' = [header EXCEPT ![r] = line]
          /\ left' = [left EXCEPT ![r] = line.size]
          /\ data' = [data EXCEPT ![r] = <<>>]
          /\ GoTo(r, IF line.size \in {0} \cup {n \in {line.size} : n > Limit}
                     THEN "lf" ELSE "body")
          /\ UNCHANGED <<asked, failVars>>
     ELSE Report(r, "close")
  /\ UNCHANGED <<store, child, script, mainVars, blobs, resultVars>>

(* ReadString: a line without name, type and size is an error, be it that  *)
(* the object is missing or that the line is none.                         *)
ReadHeader(r) ==
  LET line == Head(pipe[r]) IN
  /\ reader[r] = "header"
  /\ pipe[r] # <<>>
  /\ ReadFrom(r)
  /\ IF line.kind = "line"
     THEN /\ header' = [header EXCEPT ![r] = line]
          /\ left' = [left EXCEPT ![r] = line.size]
          /\ data' = [data EXCEPT ![r] = <<>>]
          /\ GoTo(r, IF line.size = 0 THEN "lf" ELSE "body")
          /\ UNCHANGED <<asked, failVars>>
     ELSE Report(r, "close")
  /\ UNCHANGED <<store, child, script, mainVars, blobs, resultVars>>

(* Mutant of ReadBody: one byte more than the header says.                 *)
ReadBodyOneMore(r) ==
  /\ reader[r] = "body"
  /\ pipe[r] # <<>>
  /\ ReadFrom(r)
  /\ left' = [left EXCEPT ![r] = @ - 1]
  /\ data' = IF header[r].size > Limit THEN data
             ELSE [data EXCEPT ![r] = Append(@, Head(pipe[r]))]
  /\ GoTo(r, IF left[r] = 0 THEN "lf" ELSE "body")
  /\ UNCHANGED <<store, child, script, mainVars, blobs, asked, header, failVars, resultVars>>

(* A byte of the body: kept by ReadFull, or dropped by CopyN if there are  *)
(* more than the limit.                                                    *)
ReadBody(r) ==
  /\ reader[r] = "body"
  /\ pipe[r] # <<>>
  /\ ReadFrom(r)
  /\ left' = [left EXCEPT ![r] = @ - 1]
  /\ data' = IF header[r].size > Limit THEN data
             ELSE [data EXCEPT ![r] = Append(@, Head(pipe[r]))]
  /\ GoTo(r, IF left[r] = 1 THEN "lf" ELSE "body")
  /\ UNCHANGED <<store, child, script, mainVars, blobs, asked, header, failVars, resultVars>>

(* Discard(1)                                                              *)
SkipLF(r) ==
  /\ reader[r] = "lf"
  /\ pipe[r] # <<>>
  /\ ReadFrom(r)
  /\ GoTo(r, "answered")
  /\ UNCHANGED <<store, child, script, mainVars, blobs, asked, header, left, data, failVars,
                 resultVars>>

(* The child dies in the middle of an answer.                              *)
ReadFails(r) ==
  /\ reader[r] \in {"header", "body", "lf"}
  /\ AtEOF(r)
  /\ Report(r, "close")
  /\ UNCHANGED <<store, childVars, mainVars, blobs, resultVars>>

(* What the loop of the reader does with an answer.                        *)
UseAnswer(r) ==
  /\ reader[r] = "answered"
  /\ IF header[r].type # "blob" THEN UNCHANGED resultVars
     ELSE IF header[r].size > Limit
     THEN skipped' = skipped \cup {asked[r]} /\ UNCHANGED sent
     ELSE /\ sent' = [o \in DOMAIN sent \cup {asked[r]} |->
                        IF o = asked[r] THEN data[r] ELSE sent[o]]
          /\ UNCHANGED skipped
  /\ GoTo(r, "take")
  /\ asked' = [asked EXCEPT ![r] = NoObject]
  /\ UNCHANGED <<store, childVars, mainVars, blobs, header, left, data, failVars>>

Drained(r) ==
  /\ reader[r] = "take"
  /\ blobs = <<>>
  /\ blobsClosed
  /\ GoTo(r, "close")
  /\ UNCHANGED <<store, childVars, mainVars, blobs, asked, header, left, data, failVars,
                 resultVars>>

(* catFile.close ends the input of the child, which then exits, and waits. *)
ReaderReap(r) ==
  /\ reader[r] = "close"
  /\ Ended(r)
  /\ GoTo(r, "done")
  /\ UNCHANGED <<store, childVars, mainVars, blobs, asked, header, left, data, failVars,
                 resultVars>>

ReaderStep(r) ==
  \/ ReaderStart(r)
  \/ Ask(r)
  \/ AskFails(r)
  \/ ReadHeader(r)
  \/ ReadBody(r)
  \/ SkipLF(r)
  \/ ReadFails(r)
  \/ UseAnswer(r)
  \/ Drained(r)
  \/ ReaderReap(r)

-----------------------------------------------------------------------------
(* The children.  The lister ends by itself, a reader's child when its     *)
(* input has ended.                                                        *)
ChildStep(c) ==
  /\ \/ Prints(c)
     \/ /\ c \in Readers => reader[c] = "close"
        /\ Exit(c)
  /\ UNCHANGED <<store, listVars, blobs, blobsClosed, readerVars, failVars, resultVars>>

(* A line of the listing may be cut in its last field, which is the size.  *)
Cuts(c) ==
  {<<>>} \cup
  IF c = Lister /\ script[c] # <<>>
  THEN LET l == Head(script[c]) IN {<<Line(l.object, l.type, n)>> : n \in 0..l.size}
  ELSE {}

(* A child dies; cancelling the context kills the lister, but that is only *)
(* one of the ways.                                                        *)
ChildDies(c) ==
  /\ \E part \in Cuts(c) : Die(c, part)
  /\ UNCHANGED <<store, listVars, blobs, blobsClosed, readerVars, failVars, resultVars>>

Done ==
  /\ outcome # "running"
  /\ UNCHANGED vars

Next ==
  \/ MainStep
  \/ ListStartFails
  \/ ScanFails
  \/ \E r \in Readers : ReaderStep(r) \/ ReaderStartFails(r)
  \/ \E c \in Children : ChildStep(c) \/ ChildDies(c)
  \/ Done

(* As long as a goroutine or a child can go on, one of them does.          *)
Fairness ==
  WF_vars(\/ MainStep
          \/ \E r \in Readers : ReaderStep(r)
          \/ \E c \in Children : ChildStep(c))

Spec == Init /\ [][Next]_vars /\ Fairness

-----------------------------------------------------------------------------
(* Types; what is offered and asked is there to be.                        *)
TypeOK ==
  /\ ChildTypeOK(Token)
  /\ store \in Stores
  /\ main \in {"start", "scan", "offer", "reap", "close", "wait", "returned"}
  /\ offered \in Objects \cup {NoObject}
  /\ main = "offer" <=> offered # NoObject
  /\ listErr \in BOOLEAN
  /\ total \in 0..Cardinality(Objects)
  /\ blobs \in Seq(Objects)
  /\ Len(blobs) <= BlobsCap
  /\ blobsClosed \in BOOLEAN
  /\ reader \in [Readers -> {"start", "take", "header", "body", "lf", "answered", "close",
                             "done"}]
  /\ asked \in [Readers -> Objects \cup {NoObject}]
  /\ header \in [Readers -> Token]
  /\ left \in [Readers -> Nat]
  /\ data \in [Readers -> Seq(Token)]
  /\ errs \in 0..Cardinality(Readers)
  /\ cancelled \in BOOLEAN
  /\ DOMAIN sent \subseteq Objects
  /\ skipped \subseteq Objects
  /\ outcome \in {"running", "ok", "failed"}

(* An answer is the one to the question: header and bytes are those of the *)
(* object asked for, whatever was asked before and however the bytes look. *)
(* The bytes are kept unless there are more than the limit.                *)
AnswersWhatWasAsked ==
  \A r \in Readers : reader[r] = "answered" =>
    LET o == asked[r] IN
    /\ header[r] = Served(o)
    /\ data[r] = IF Served(o).size > Limit THEN <<>> ELSE store[o].body

(* A feed that succeeds has counted every blob of the store and has sent   *)
(* or skipped it as its size demands: a child that dies between two lines  *)
(* or between two answers, or prints part of a size, never passes for one  *)
(* that has done its work.                                                 *)
FeedIsComplete ==
  outcome = "ok" =>
    LET listed == {o \in Objects : store[o].listed.type = "blob"}
        read == {o \in listed : store[o].listed.size <= Limit}
        served == {o \in read : store[o].type = "blob"}
        large == {o \in served : Served(o).size > Limit} IN
    /\ total = Cardinality(listed)
    /\ skipped = (listed \ read) \cup large
    /\ sent = [o \in served \ large |-> store[o].body]

(* The feed returns, and with it every child has been waited for: no one   *)
(* waits for a child that waits for somebody to read its output.           *)
Returns == <>(outcome # "running" /\ \A c \in Children : child[c] # "running")
=============================================================================
