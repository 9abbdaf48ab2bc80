------------------------- MODULE FeedChildrenProofs -------------------------
(***************************************************************************)
(* Proofs about the feeder and its children, for objects of any size and   *)
(* content, pipes of any capacity and any number of readers.               *)
(*                                                                         *)
(* An answer is the one to the question.  What a child still has to say,   *)
(* in its pipe or not yet printed, is a prefix of what the reader expects  *)
(* (InSync), a proper one if the child has died.  So the reader never      *)
(* mistakes one token for another, whatever the bytes look like, and what  *)
(* it has kept of the body is the body up to where it is (Kept).           *)
(*                                                                         *)
(* A feed that succeeds is complete: every blob is still to be heard of,   *)
(* in a hand or settled as it should, unless something went wrong; and     *)
(* that is then on record (Listing, Control, Accounted).                   *)
(***************************************************************************)
EXTENDS FeedChildren, SequenceTheorems, FiniteSetTheorems, TLAPS

(* A line of the listing.                                                  *)
ListToken == [kind: {"line"}, object: Objects, type: Types, size: Nat]

Pending(r) == reader[r] \in {"header", "body", "lf", "answered"}

FeedTypeOK ==
  /\ store \in StoreType
  /\ pipe \in [Children -> Seq(Token)]
  /\ script \in [Children -> Seq(Token)]
  /\ pipe[Lister] \in Seq(ListToken) /\ script[Lister] \in Seq(ListToken)
  /\ offered \in Objects \cup {NoObject}
  /\ main = "offer" => offered \in Objects
  /\ blobs \in Seq(Objects)
  /\ reader \in [Readers -> {"start", "take", "header", "body", "lf", "answered", "close",
                             "done"}]
  /\ asked \in [Readers -> Objects \cup {NoObject}]
  /\ \A r \in Readers : Pending(r) => asked[r] \in Objects
  /\ header \in [Readers -> Token]
  /\ left \in [Readers -> Nat]
  /\ data \in [Readers -> Seq(Token)]

(* What a child says to a question.                                        *)
Answer(st, o) ==
  IF st[o].lost THEN <<Gone(o)>>
  ELSE <<Line(o, st[o].type, Len(st[o].body))>> \o st[o].body \o <<LF>>

(* What a reader at pc has yet to hear of it, n bytes of the body among    *)
(* it.                                                                     *)
Rest(st, pc, o, n) ==
  LET body == st[o].body IN
  IF pc = "header" THEN Answer(st, o)
  ELSE IF pc = "body"
  THEN [i \in 1..(n + 1) |-> IF i = n + 1 THEN LF ELSE body[Len(body) - n + i]]
  ELSE IF pc = "lf" THEN <<LF>> ELSE <<>>

(* What is in the pipe and what is not yet printed begin it.               *)
Due(p, s, t) ==
  /\ Len(p) + Len(s) <= Len(t)
  /\ \A i \in 1..Len(p) : p[i] = t[i]
  /\ \A i \in 1..Len(s) : s[i] = t[Len(p) + i]

InSync(r) ==
  reader[r] \notin {"close", "done"} =>
    Due(pipe[r], script[r], Rest(store, reader[r], asked[r], left[r]))

(* What it has heard of it: the header, and d of the body.                 *)
Heard(st, pc, o, h, n, d) ==
  LET body == st[o].body IN
  pc \in {"body", "lf", "answered"} =>
    /\ h = Line(o, st[o].type, Len(body))
    /\ n <= Len(body)
    /\ pc = "body" <=> n # 0
    /\ IF Len(body) > Limit THEN d = <<>>
       ELSE /\ Len(d) = Len(body) - n
            /\ \A i \in 1..Len(d) : d[i] = body[i]

Kept(r) == Heard(store, reader[r], asked[r], header[r], left[r], data[r])

Inv == FeedTypeOK /\ \A r \in Readers : InSync(r) /\ Kept(r)

-----------------------------------------------------------------------------
(* What a child has still to say.                                          *)

(* The child prints a token.                                               *)
LEMMA DuePrint ==
  ASSUME NEW S, NEW p \in Seq(S), NEW s \in Seq(S), NEW t \in Seq(S), Due(p, s, t), s # <<>>
  PROVE  Due(Append(p, Head(s)), Tail(s), t)
<1>1. /\ Len(s) \in Nat \ {0} /\ Len(p) \in Nat /\ Len(t) \in Nat /\ Head(s) = s[1]
      /\ Tail(s) \in Seq(S) /\ Len(Tail(s)) = Len(s) - 1
      /\ \A i \in 1..(Len(s) - 1) : Tail(s)[i] = s[i + 1]
  BY EmptySeq
<1>2. /\ Len(Append(p, Head(s))) = Len(p) + 1
      /\ \A i \in 1..(Len(p) + 1) : Append(p, Head(s))[i] = IF i = Len(p) + 1 THEN s[1] ELSE p[i]
  BY <1>1
<1>3. s[1] = t[Len(p) + 1]
  BY <1>1 DEF Due
<1>4. \A i \in 1..(Len(p) + 1) : Append(p, Head(s))[i] = t[i]
  <2> TAKE i \in 1..(Len(p) + 1)
  <2>1. CASE i = Len(p) + 1
    BY <1>2, <1>3, <2>1
  <2>2. CASE i # Len(p) + 1
    <3>1. i \in 1..Len(p)
      BY <1>1, <2>2
    <3> QED BY <1>2, <2>2, <3>1 DEF Due
  <2> QED BY <2>1, <2>2
<1>5. \A i \in 1..(Len(s) - 1) : Tail(s)[i] = t[(Len(p) + 1) + i]
  <2> TAKE i \in 1..(Len(s) - 1)
  <2>1. i + 1 \in 1..Len(s) /\ Len(p) + (i + 1) = (Len(p) + 1) + i
    BY <1>1
  <2>2. s[i + 1] = t[Len(p) + (i + 1)]
    BY <2>1 DEF Due
  <2> QED BY <1>1, <2>1, <2>2
<1> QED BY <1>1, <1>2, <1>4, <1>5 DEF Due

(* It dies.                                                                *)
LEMMA DueCut ==
  ASSUME NEW S, NEW p \in Seq(S), NEW s \in Seq(S), NEW t \in Seq(S), Due(p, s, t)
  PROVE  Due(p, <<>>, t)
<1>1. Len(s) \in Nat /\ Len(p) \in Nat /\ Len(t) \in Nat /\ Len(<<>>) = 0
  OBVIOUS
<1> QED BY <1>1 DEF Due

(* The reader reads a token: it is the one it expects.                     *)
LEMMA DueRead ==
  ASSUME NEW S, NEW p \in Seq(S), NEW s \in Seq(S), NEW t \in Seq(S), Due(p, s, t), p # <<>>
  PROVE  /\ Head(p) = t[1] /\ Len(t) >= 1
         /\ \A u \in Seq(S) :
              Len(u) + 1 = Len(t) /\ (\A i \in 1..Len(u) : u[i] = t[i + 1])
                => Due(Tail(p), s, u)
<1>1. /\ Len(p) \in Nat \ {0} /\ Len(s) \in Nat /\ Len(t) \in Nat /\ Head(p) = p[1]
      /\ Tail(p) \in Seq(S) /\ Len(Tail(p)) = Len(p) - 1
      /\ \A i \in 1..(Len(p) - 1) : Tail(p)[i] = p[i + 1]
  BY EmptySeq
<1>2. Head(p) = t[1] /\ Len(t) >= 1
  BY <1>1 DEF Due
<1>3. ASSUME NEW u \in Seq(S), Len(u) + 1 = Len(t), \A i \in 1..Len(u) : u[i] = t[i + 1]
      PROVE  Due(Tail(p), s, u)
  <2>1. Len(u) \in Nat /\ Len(Tail(p)) + Len(s) <= Len(u)
    BY <1>1, <1>3 DEF Due
  <2>2. \A i \in 1..Len(Tail(p)) : Tail(p)[i] = u[i]
    <3> TAKE i \in 1..Len(Tail(p))
    <3>1. i + 1 \in 1..Len(p) /\ i \in 1..Len(u)
      BY <1>1, <2>1
    <3> QED BY <1>1, <1>3, <3>1 DEF Due
  <2>3. \A i \in 1..Len(s) : s[i] = u[Len(Tail(p)) + i]
    <3> TAKE i \in 1..Len(s)
    <3>1. Len(Tail(p)) + i \in 1..Len(u) /\ (Len(Tail(p)) + i) + 1 = Len(p) + i
      BY <1>1, <2>1
    <3> QED BY <1>3, <3>1 DEF Due
  <2> QED BY <2>1, <2>2, <2>3 DEF Due
<1> QED BY <1>2, <1>3

(* Nothing is due, or everything.                                          *)
LEMMA DueEnds ==
  ASSUME NEW S, NEW p \in Seq(S), NEW s \in Seq(S)
  PROVE  /\ Due(p, s, <<>>) => p = <<>> /\ s = <<>>
         /\ Due(<<>>, s, s)
<1>1. Len(s) \in Nat /\ Len(p) \in Nat /\ Len(<<>>) = 0
  OBVIOUS
<1>2. Due(p, s, <<>>) => Len(p) = 0 /\ Len(s) = 0
  BY <1>1 DEF Due
<1>3. Due(<<>>, s, s)
  BY <1>1 DEF Due
<1> QED BY <1>2, <1>3, EmptySeq

-----------------------------------------------------------------------------
(* What it says.                                                           *)

(* The children's names, and what the store serves.                        *)
LEMMA StoreFacts ==
  ASSUME FeedTypeOK
  PROVE  /\ Lister \in Children /\ Lister \notin Readers /\ Readers \subseteq Children
         /\ \A o \in Objects : /\ store[o].body \in Seq(Token) /\ store[o].type \in Types
                               /\ store[o].lost \in BOOLEAN
                               /\ store[o].listed.type \in Types /\ store[o].listed.size \in Nat
         /\ LF \in Token /\ ListToken \subseteq Token
         /\ \A o \in Objects : Served(o) \in Token /\ Gone(o) \in Token
<1>1. \A o \in Objects : /\ store[o].body \in Seq(Token) /\ store[o].type \in Types
                         /\ store[o].lost \in BOOLEAN
                         /\ store[o].listed.type \in Types /\ store[o].listed.size \in Nat
  BY DEF FeedTypeOK, StoreType
<1>2. \A o \in Objects : Len(store[o].body) \in Nat
  BY <1>1
<1>3. LF \in Token /\ ListToken \subseteq Token
  BY DEF Token, ListToken
<1>4. \A o \in Objects, t \in Types, n \in Nat : Line(o, t, n) \in Token
  BY DEF Line, Token
<1>5. \A o \in Objects : Served(o) \in Token /\ Gone(o) \in Token
  BY <1>1, <1>2, <1>4 DEF Served, Gone, Token
<1> QED BY <1>1, <1>3, <1>5, FeedAssumption

(* An answer, token by token.                                              *)
LEMMA AnswerFacts ==
  ASSUME FeedTypeOK, NEW o \in Objects
  PROVE  LET body == store[o].body IN
         /\ Answer(store, o) \in Seq(Token)
         /\ store[o].lost => Len(Answer(store, o)) = 1 /\ Answer(store, o)[1] = Gone(o)
         /\ ~store[o].lost =>
              /\ Len(Answer(store, o)) = Len(body) + 2 /\ Answer(store, o)[1] = Served(o)
              /\ \A i \in 1..(Len(body) + 1) :
                   Answer(store, o)[i + 1] = IF i = Len(body) + 1 THEN LF ELSE body[i]
<1> DEFINE body == store[o].body
<1>1. /\ body \in Seq(Token) /\ Len(body) \in Nat /\ LF \in Token
      /\ Served(o) \in Token /\ Gone(o) \in Token
  BY StoreFacts
<1>2. \A x \in Token : <<x>> \in Seq(Token) /\ Len(<<x>>) = 1 /\ <<x>>[1] = x
  OBVIOUS
<1>3. CASE store[o].lost
  BY <1>1, <1>2, <1>3 DEF Answer, Served
<1>4. CASE ~store[o].lost
  <2> HIDE DEF body
  <2>1. PICK h : h = Served(o)
    OBVIOUS
  <2>2. PICK a : a = <<h>> \o body
    OBVIOUS
  <2>3. /\ a \in Seq(Token) /\ Len(a) = Len(body) + 1
        /\ \A i \in 1..(Len(body) + 1) : a[i] = IF i <= 1 THEN h ELSE body[i - 1]
    <3>1. <<h>> \in Seq(Token) /\ Len(<<h>>) = 1 /\ <<h>>[1] = h
      BY <1>1, <1>2, <2>1
    <3>2. /\ <<h>> \o body \in Seq(Token)
          /\ Len(<<h>> \o body) = 1 + Len(body)
          /\ \A i \in 1..(1 + Len(body)) :
               (<<h>> \o body)[i] = IF i <= 1 THEN <<h>>[i] ELSE body[i - 1]
      BY <1>1, <3>1, ConcatProperties
    <3>3. \A i \in 1..(1 + Len(body)) : i <= 1 => i = 1
      BY <1>1
    <3> QED BY <1>1, <2>2, <3>1, <3>2, <3>3
  <2>4. Answer(store, o) = Append(a, LF)
    <3>1. a \o <<LF>> = Append(a, LF)
      <4>1. PICK x : x = LF
        OBVIOUS
      <4>2. a \o <<x>> = Append(a, x)
        BY <1>1, <2>3, <4>1
      <4> QED BY <4>1, <4>2
    <3>2. Answer(store, o) = <<h>> \o body \o <<LF>>
      BY <1>4, <2>1 DEF Answer, Served, body
    <3> QED BY <2>2, <3>1, <3>2
  <2>5. /\ Append(a, LF) \in Seq(Token) /\ Len(Append(a, LF)) = Len(body) + 2
        /\ \A i \in 1..(Len(body) + 2) : Append(a, LF)[i] = IF i = Len(body) + 2 THEN LF ELSE a[i]
    BY <1>1, <2>3
  <2>6. Append(a, LF)[1] = h
    BY <1>1, <2>3, <2>5
  <2>7. \A i \in 1..(Len(body) + 1) :
          Append(a, LF)[i + 1] = IF i = Len(body) + 1 THEN LF ELSE body[i]
    <3> TAKE i \in 1..(Len(body) + 1)
    <3>1. i + 1 \in 1..(Len(body) + 2) /\ (i + 1 = Len(body) + 2 <=> i = Len(body) + 1)
      BY <1>1
    <3>2. CASE i # Len(body) + 1
      <4>1. i + 1 \in 1..(Len(body) + 1) /\ ~(i + 1 <= 1) /\ (i + 1) - 1 = i
        BY <1>1, <3>2
      <4> QED BY <2>3, <2>5, <3>1, <3>2, <4>1
    <3> QED BY <2>5, <3>1, <3>2
  <2> QED BY <1>4, <2>1, <2>4, <2>5, <2>6, <2>7 DEF body
<1> QED BY <1>3, <1>4

(* What is left of it is a sequence of tokens.                             *)
LEMMA RestType ==
  ASSUME FeedTypeOK, NEW pc, NEW o, pc = "header" => o \in Objects,
         NEW n \in Nat, pc = "body" => o \in Objects /\ n <= Len(store[o].body)
  PROVE  Rest(store, pc, o, n) \in Seq(Token)
<1>1. CASE pc = "header"
  BY <1>1, AnswerFacts DEF Rest
<1>2. CASE pc = "body"
  <2>1. PICK body : body = store[o].body
    OBVIOUS
  <2>2. body \in Seq(Token) /\ n <= Len(body) /\ Len(body) \in Nat /\ LF \in Token
    BY <1>2, <2>1, StoreFacts
  <2>3. \A i \in 1..(n + 1) :
          (IF i = n + 1 THEN LF ELSE body[Len(body) - n + i]) \in Token
    <3> TAKE i \in 1..(n + 1)
    <3>1. i # n + 1 => Len(body) - n + i \in 1..Len(body)
      BY <2>2
    <3> QED BY <2>2, <3>1
  <2>4. Rest(store, pc, o, n) = [i \in 1..(n + 1) |->
                                   IF i = n + 1 THEN LF ELSE body[Len(body) - n + i]]
    BY <1>2, <2>1 DEF Rest
  <2> QED BY <2>3, <2>4
<1>3. CASE pc = "lf"
  <2>1. LF \in Token
    BY StoreFacts
  <2> QED BY <1>3, <2>1 DEF Rest
<1>4. CASE pc \notin {"header", "body", "lf"}
  BY <1>4 DEF Rest
<1> QED BY <1>1, <1>2, <1>3, <1>4

(* The readers that do not move.                                           *)
LEMMA Unmoved ==
  ASSUME NEW q \in Readers, InSync(q), Kept(q), store' = store,
         pipe'[q] = pipe[q], script'[q] = script[q], reader'[q] = reader[q],
         asked'[q] = asked[q], header'[q] = header[q], left'[q] = left[q], data'[q] = data[q]
  PROVE  InSync(q)' /\ Kept(q)'
BY DEF InSync, Kept

-----------------------------------------------------------------------------
(* The calling goroutine.                                                  *)

(* What it does leaves the readers and their children alone.               *)
LEMMA MainApart ==
  ASSUME Inv, UNCHANGED <<store, readerVars>>, FeedTypeOK',
         \A c \in Children : c # Lister => pipe'[c] = pipe[c] /\ script'[c] = script[c]
  PROVE  Inv'
<1>1. \A q \in Readers : q \in Children /\ q # Lister
  BY StoreFacts DEF Inv
<1>2. ASSUME NEW q \in Readers
      PROVE  InSync(q)' /\ Kept(q)'
  BY <1>1, <1>2, Unmoved DEF Inv, readerVars
<1> QED BY <1>2 DEF Inv

(* The listing starts.                                                     *)
LEMMA ListStartKeeps ==
  ASSUME Inv, ListStart
  PROVE  Inv'
<1> USE DEF Inv
<1>1. PICK order \in SetToSeqs(Objects) :
        Start(Lister, [i \in DOMAIN order |->
                         LET l == store[order[i]].listed IN Line(order[i], l.type, l.size)])
  BY DEF ListStart
<1>2. PICK n \in Nat : n = Cardinality(Objects)
  BY FeedAssumption, FS_CardinalityType
<1>3. order \in [1..n -> Objects]
  BY <1>2 DEF SetToSeqs
<1>4. PICK lines : lines = [i \in DOMAIN order |->
                              LET l == store[order[i]].listed
                              IN Line(order[i], l.type, l.size)]
  OBVIOUS
<1>5. lines \in Seq(ListToken)
  <2>1. lines = [i \in 1..n |-> Line(order[i], store[order[i]].listed.type,
                                    store[order[i]].listed.size)]
    BY <1>3, <1>4
  <2>2. \A i \in 1..n : Line(order[i], store[order[i]].listed.type,
                            store[order[i]].listed.size) \in ListToken
    BY <1>3, StoreFacts DEF Line, ListToken
  <2> QED BY <1>2, <2>1, <2>2
<1>6. script' = [script EXCEPT ![Lister] = lines] /\ pipe' = pipe
  BY <1>1, <1>4 DEF Start
<1>7. lines \in Seq(Token)
  BY <1>5, StoreFacts
<1>8. FeedTypeOK'
  BY <1>5, <1>6, <1>7, StoreFacts DEF ListStart, FeedTypeOK, readerVars, Pending
<1> QED BY <1>6, <1>8, MainApart DEF ListStart, FeedTypeOK

(* A line is read: it names an object.                                     *)
LEMMA ScanKeeps ==
  ASSUME Inv, Scan
  PROVE  Inv'
<1> USE DEF Inv
<1>1. PICK p : p = pipe[Lister]
  OBVIOUS
<1>2. p \in Seq(ListToken) /\ p # <<>>
  BY <1>1 DEF Scan, FeedTypeOK
<1>3. Head(p) \in ListToken /\ Tail(p) \in Seq(ListToken) /\ Tail(p) \in Seq(Token)
  BY <1>2, StoreFacts, HeadTailProperties
<1>4. Head(p).object \in Objects
  BY <1>3 DEF ListToken
<1>5. pipe' = [pipe EXCEPT ![Lister] = Tail(p)] /\ script' = script
  BY <1>1 DEF Scan, ReadFrom
<1>6. FeedTypeOK'
  <2>1. /\ offered' \in Objects \cup {NoObject}
        /\ main' = "offer" => offered' \in Objects
    BY <1>1, <1>4 DEF Scan, FeedTypeOK
  <2> QED BY <1>3, <1>5, <2>1, StoreFacts DEF Scan, FeedTypeOK, readerVars, Pending
<1> QED BY <1>5, <1>6, MainApart DEF Scan, FeedTypeOK

(* The other steps of the calling goroutine.                               *)
LEMMA MainKeeps ==
  ASSUME Inv, MainStep \/ ListStartFails \/ ScanFails
  PROVE  Inv'
<1> USE DEF Inv
<1>1. CASE Offer
  <2>1. FeedTypeOK'
    BY <1>1 DEF Offer, FeedTypeOK, childVars, readerVars, Pending
  <2> QED BY <1>1, <2>1, MainApart DEF Offer, childVars
<1>2. CASE StopListing
  <2>1. script' = [script EXCEPT ![Lister] = <<>>] /\ pipe' = pipe
    BY <1>2 DEF StopListing, Kill
  <2>2. FeedTypeOK'
    BY <1>2, <2>1, StoreFacts DEF StopListing, FeedTypeOK, readerVars, Pending
  <2> QED BY <1>2, <2>1, <2>2, MainApart DEF StopListing, FeedTypeOK
<1>3. CASE ScanEnd \/ ListReap \/ CloseBlobs \/ FeedReturn \/ ListStartFails
  <2>1. /\ UNCHANGED <<store, childVars, offered, blobs, readerVars>>
        /\ main' \in {"reap", "close", "wait", "returned"}
    BY <1>3 DEF ScanEnd, ListReap, CloseBlobs, FeedReturn, ListStartFails
  <2>2. FeedTypeOK'
    BY <2>1 DEF FeedTypeOK, childVars, readerVars, Pending
  <2> QED BY <2>1, <2>2, MainApart DEF childVars
<1> QED BY <1>1, <1>2, <1>3, ListStartKeeps, ScanKeeps
     DEF MainStep, ScanFails, OfferCancelled

-----------------------------------------------------------------------------
(* The children.                                                           *)

(* A child that moves takes the pipe and the script of nobody else.        *)
LEMMA ChildApart ==
  ASSUME Inv, NEW c \in Children, UNCHANGED <<store, main, offered, blobs, readerVars>>,
         NEW p \in Seq(Token), NEW s \in Seq(Token),
         pipe' = [pipe EXCEPT ![c] = p], script' = [script EXCEPT ![c] = s],
         c = Lister => p \in Seq(ListToken) /\ s \in Seq(ListToken),
         c \in Readers /\ reader[c] \notin {"close", "done"} =>
           Due(p, s, Rest(store, reader[c], asked[c], left[c]))
  PROVE  Inv'
<1> USE DEF Inv
<1>1. FeedTypeOK'
  BY StoreFacts DEF FeedTypeOK, readerVars, Pending
<1>2. ASSUME NEW q \in Readers
      PROVE  InSync(q)' /\ Kept(q)'
  <2>1. CASE q = c
    <3>1. pipe'[q] = p /\ script'[q] = s
      BY <2>1 DEF FeedTypeOK
    <3>2. Kept(q)'
      BY DEF Kept, readerVars
    <3>3. InSync(q)'
      BY <2>1, <3>1 DEF InSync, readerVars
    <3> QED BY <3>2, <3>3
  <2>2. CASE q # c
    <3>1. pipe'[q] = pipe[q] /\ script'[q] = script[q]
      BY <2>2, StoreFacts DEF FeedTypeOK
    <3> QED BY <3>1, Unmoved DEF readerVars
  <2> QED BY <2>1, <2>2
<1> QED BY <1>1, <1>2

(* What is due of a reader's child.                                        *)
LEMMA DueNow ==
  ASSUME Inv, NEW r \in Readers, reader[r] \notin {"close", "done"}
  PROVE  /\ Rest(store, reader[r], asked[r], left[r]) \in Seq(Token)
         /\ Due(pipe[r], script[r], Rest(store, reader[r], asked[r], left[r]))
<1> USE DEF Inv
<1>1. reader[r] \in {"header", "body"} => asked[r] \in Objects
  BY DEF FeedTypeOK, Pending
<1>2. reader[r] = "body" => left[r] <= Len(store[asked[r]].body)
  BY DEF Kept, Heard
<1>3. left[r] \in Nat
  BY DEF FeedTypeOK
<1> QED BY <1>1, <1>2, <1>3, RestType DEF InSync

(* It prints, exits or dies.                                               *)
LEMMA ChildKeeps ==
  ASSUME Inv, NEW c \in Children, ChildStep(c) \/ ChildDies(c)
  PROVE  Inv'
<1> USE DEF Inv
<1>1. UNCHANGED <<store, main, offered, blobs, readerVars>>
  BY DEF ChildStep, ChildDies, listVars
<1>2. PICK p, s : p = pipe[c] /\ s = script[c]
  OBVIOUS
<1>3. /\ p \in Seq(Token) /\ s \in Seq(Token)
      /\ c = Lister => p \in Seq(ListToken) /\ s \in Seq(ListToken)
  BY <1>2 DEF FeedTypeOK
<1>4. CASE Prints(c)
  <2>1. /\ s # <<>> /\ pipe' = [pipe EXCEPT ![c] = Append(p, Head(s))]
        /\ script' = [script EXCEPT ![c] = Tail(s)]
    BY <1>2, <1>4 DEF Prints
  <2>2. /\ Append(p, Head(s)) \in Seq(Token) /\ Tail(s) \in Seq(Token)
        /\ c = Lister => Append(p, Head(s)) \in Seq(ListToken) /\ Tail(s) \in Seq(ListToken)
    BY <1>3, <2>1, HeadTailProperties, AppendProperties
  <2>3. ASSUME c \in Readers, reader[c] \notin {"close", "done"}
        PROVE  Due(Append(p, Head(s)), Tail(s), Rest(store, reader[c], asked[c], left[c]))
    BY <1>2, <1>3, <2>1, <2>3, DueNow, DuePrint
  <2> QED BY <1>1, <2>1, <2>2, <2>3, ChildApart
<1>5. CASE Exit(c)
  <2>1. UNCHANGED <<pipe, script>>
    BY <1>5 DEF Exit
  <2>2. pipe' = [pipe EXCEPT ![c] = p] /\ script' = [script EXCEPT ![c] = s]
    BY <1>2, <2>1 DEF FeedTypeOK
  <2>3. ASSUME c \in Readers, reader[c] \notin {"close", "done"}
        PROVE  Due(p, s, Rest(store, reader[c], asked[c], left[c]))
    BY <1>2, <2>3, DueNow
  <2> QED BY <1>1, <1>3, <2>2, <2>3, ChildApart
<1>6. CASE ChildDies(c)
  <2>1. PICK part \in Cuts(c) : Die(c, part)
    BY <1>6 DEF ChildDies
  <2>2. pipe' = [pipe EXCEPT ![c] = p \o part] /\ script' = [script EXCEPT ![c] = <<>>]
    BY <1>2, <2>1 DEF Die
  <2> <<>> \in Seq(Token) /\ <<>> \in Seq(ListToken)
    OBVIOUS
  <2>3. CASE part = <<>>
    <3>1. pipe' = [pipe EXCEPT ![c] = p]
      BY <1>3, <2>2, <2>3, ConcatEmptySeq
    <3>2. ASSUME c \in Readers, reader[c] \notin {"close", "done"}
          PROVE  Due(p, <<>>, Rest(store, reader[c], asked[c], left[c]))
      BY <1>2, <1>3, <3>2, DueNow, DueCut
    <3> QED BY <1>1, <1>3, <2>2, <3>1, <3>2, ChildApart
  <2>4. CASE part # <<>>
    <3>1. c = Lister /\ s # <<>>
      BY <1>2, <2>1, <2>4 DEF Cuts
    <3>2. Head(s) \in ListToken
      BY <1>3, <3>1, HeadTailProperties
    <3>3. PICK n \in 0..Head(s).size : part = <<Line(Head(s).object, Head(s).type, n)>>
      BY <1>2, <2>1, <2>4, <3>1 DEF Cuts
    <3>4. PICK x : x = Line(Head(s).object, Head(s).type, n)
      OBVIOUS
    <3>5. x \in ListToken
      BY <3>2, <3>3, <3>4 DEF Line, ListToken
    <3>6. p \o <<x>> \in Seq(ListToken) /\ p \o <<x>> \in Seq(Token)
      BY <1>3, <3>1, <3>5, StoreFacts
    <3>7. c \notin Readers
      BY <3>1, StoreFacts
    <3> QED BY <1>1, <2>2, <3>3, <3>4, <3>6, <3>7, ChildApart
  <2> QED BY <2>3, <2>4
<1> QED BY <1>4, <1>5, <1>6 DEF ChildStep

-----------------------------------------------------------------------------
(* The readers.                                                            *)

(* What is left to hear, token by token.                                   *)
LEMMA RestFacts ==
  ASSUME NEW st, NEW o, NEW n \in Nat
  PROVE  /\ Rest(st, "header", o, n) = Answer(st, o)
         /\ LET t == Rest(st, "body", o, n)
                body == st[o].body IN
            /\ Len(t) = n + 1
            /\ \A i \in 1..(n + 1) :
                 t[i] = IF i = n + 1 THEN LF ELSE body[Len(body) - n + i]
         /\ Rest(st, "lf", o, n) = <<LF>>
         /\ \A pc \in {"start", "take", "answered"} : Rest(st, pc, o, n) = <<>>
<1>1. PICK body : body = st[o].body
  OBVIOUS
<1>2. PICK t : t = [i \in 1..(n + 1) |-> IF i = n + 1 THEN LF ELSE body[Len(body) - n + i]]
  OBVIOUS
<1>3. /\ Len(t) = n + 1
      /\ \A i \in 1..(n + 1) : t[i] = IF i = n + 1 THEN LF ELSE body[Len(body) - n + i]
  BY <1>2
<1>4. Rest(st, "body", o, n) = t
  BY <1>1, <1>2 DEF Rest
<1> QED BY <1>1, <1>3, <1>4 DEF Rest

(* A reader moves.                                                         *)
LEMMA ReaderMoves ==
  ASSUME Inv, NEW r \in Readers, UNCHANGED <<store, main, offered>>, blobs' \in Seq(Objects),
         NEW p \in Seq(Token), NEW s \in Seq(Token),
         NEW pc \in {"start", "take", "header", "body", "lf", "answered", "close", "done"},
         NEW o \in Objects \cup {NoObject}, NEW h \in Token, NEW n \in Nat,
         NEW d \in Seq(Token),
         pipe' = [pipe EXCEPT ![r] = p], script' = [script EXCEPT ![r] = s],
         reader' = [reader EXCEPT ![r] = pc], asked' = [asked EXCEPT ![r] = o],
         header' = [header EXCEPT ![r] = h], left' = [left EXCEPT ![r] = n],
         data' = [data EXCEPT ![r] = d],
         pc \in {"header", "body", "lf", "answered"} => o \in Objects,
         pc \notin {"close", "done"} => Due(p, s, Rest(store, pc, o, n)),
         Heard(store, pc, o, h, n, d)
  PROVE  Inv'
<1> USE DEF Inv
<1>1. FeedTypeOK'
  <2>1. /\ pipe' \in [Children -> Seq(Token)] /\ script' \in [Children -> Seq(Token)]
        /\ pipe'[Lister] = pipe[Lister] /\ script'[Lister] = script[Lister]
    BY StoreFacts DEF FeedTypeOK
  <2>2. \A q \in Readers : Pending(q)' => asked'[q] \in Objects
    BY DEF FeedTypeOK, Pending
  <2> QED BY <2>1, <2>2 DEF FeedTypeOK
<1>2. ASSUME NEW q \in Readers
      PROVE  InSync(q)' /\ Kept(q)'
  <2>1. CASE q = r
    <3>1. /\ pipe'[q] = p /\ script'[q] = s /\ reader'[q] = pc /\ asked'[q] = o
          /\ header'[q] = h /\ left'[q] = n /\ data'[q] = d
      BY <2>1, StoreFacts DEF FeedTypeOK
    <3>2. Kept(q)'
      BY <3>1 DEF Kept
    <3>3. InSync(q)'
      BY <3>1 DEF InSync
    <3> QED BY <3>2, <3>3
  <2>2. CASE q # r
    <3>1. /\ pipe'[q] = pipe[q] /\ script'[q] = script[q] /\ reader'[q] = reader[q]
          /\ asked'[q] = asked[q] /\ header'[q] = header[q] /\ left'[q] = left[q]
          /\ data'[q] = data[q]
      BY <2>2, StoreFacts DEF FeedTypeOK
    <3> QED BY <3>1, Unmoved
  <2> QED BY <2>1, <2>2
<1> QED BY <1>1, <1>2

(* A reader gives up, or ends; some of the pipe may be read.               *)
LEMMA ReaderStops ==
  ASSUME Inv, NEW r \in Readers, NEW pc \in {"close", "done"}, GoTo(r, pc),
         UNCHANGED <<store, main, offered, script, asked, header, left, data>>,
         blobs' \in Seq(Objects),
         \/ pipe' = pipe
         \/ pipe[r] # <<>> /\ pipe' = [pipe EXCEPT ![r] = Tail(@)]
  PROVE  Inv'
<1> USE DEF Inv
<1>1. PICK p \in Seq(Token) : pipe' = [pipe EXCEPT ![r] = p]
  <2>1. pipe[r] \in Seq(Token)
    BY StoreFacts DEF FeedTypeOK
  <2>2. CASE pipe' = pipe
    <3>1. pipe' = [pipe EXCEPT ![r] = pipe[r]]
      BY <2>2 DEF FeedTypeOK
    <3> QED BY <2>1, <3>1
  <2>3. CASE pipe[r] # <<>> /\ pipe' = [pipe EXCEPT ![r] = Tail(@)]
    <3>1. Tail(pipe[r]) \in Seq(Token)
      BY <2>1, <2>3, HeadTailProperties
    <3> QED BY <2>3, <3>1
  <2> QED BY <2>2, <2>3
<1>2. PICK s, o, h, n, d : s = script[r] /\ o = asked[r] /\ h = header[r] /\ n = left[r]
                           /\ d = data[r]
  OBVIOUS
<1>3. /\ s \in Seq(Token) /\ o \in Objects \cup {NoObject} /\ h \in Token /\ n \in Nat
      /\ d \in Seq(Token)
  BY <1>2, StoreFacts DEF FeedTypeOK
<1>4. /\ script' = [script EXCEPT ![r] = s] /\ asked' = [asked EXCEPT ![r] = o]
      /\ header' = [header EXCEPT ![r] = h] /\ left' = [left EXCEPT ![r] = n]
      /\ data' = [data EXCEPT ![r] = d]
  BY <1>2 DEF FeedTypeOK
<1>5. reader' = [reader EXCEPT ![r] = pc]
  BY DEF GoTo
<1>6. Heard(store, pc, o, h, n, d)
  BY DEF Heard
<1>7. /\ pc \in {"start", "take", "header", "body", "lf", "answered", "close", "done"}
      /\ pc \in {"header", "body", "lf", "answered"} => o \in Objects
      /\ pc \notin {"close", "done"} => Due(p, s, Rest(store, pc, o, n))
  OBVIOUS
<1>8. UNCHANGED <<store, main, offered>>
  OBVIOUS
<1> HIDE DEF Inv
<1> QED BY ONLY Inv, r \in Readers, blobs' \in Seq(Objects), p \in Seq(Token), <1>1, <1>3,
                 <1>4, <1>5, <1>6, <1>7, <1>8, ReaderMoves

(* It starts, takes a blob or is done with one: nothing is due but what it *)
(* asks for.                                                               *)
LEMMA QuietKeeps ==
  ASSUME Inv, NEW r \in Readers, ReaderStart(r) \/ Ask(r) \/ UseAnswer(r)
  PROVE  Inv'
<1> USE DEF Inv
<1>1. PICK h, n, d : h = header[r] /\ n = left[r] /\ d = data[r]
  OBVIOUS
<1>2. h \in Token /\ n \in Nat /\ d \in Seq(Token)
  BY <1>1 DEF FeedTypeOK
<1>3. /\ header' = [header EXCEPT ![r] = h] /\ left' = [left EXCEPT ![r] = n]
      /\ data' = [data EXCEPT ![r] = d]
  BY <1>1 DEF FeedTypeOK, ReaderStart, Ask, UseAnswer
<1> <<>> \in Seq(Token)
  OBVIOUS
<1>4. UNCHANGED <<store, main, offered>>
  BY DEF ReaderStart, Ask, UseAnswer, mainVars, listVars
<1>5. pipe[r] = <<>> /\ script[r] = <<>>
  <2>1. reader[r] \in {"start", "take", "answered"}
    BY DEF ReaderStart, Ask, UseAnswer
  <2>2. Rest(store, reader[r], asked[r], left[r]) = <<>>
    BY <2>1, <1>1, <1>2, RestFacts
  <2>3. pipe[r] \in Seq(Token) /\ script[r] \in Seq(Token)
    BY StoreFacts DEF FeedTypeOK
  <2> QED BY <2>1, <2>2, <2>3, DueNow, DueEnds
<1>6. pipe' = [pipe EXCEPT ![r] = <<>>]
  <2>1. pipe' = pipe
    BY DEF ReaderStart, Ask, UseAnswer, Start, childVars
  <2> QED BY <1>5, <2>1 DEF FeedTypeOK
<1>7. CASE Ask(r)
  <2>1. PICK o \in Objects : o = Head(blobs) /\ blobs' \in Seq(Objects)
    BY <1>7, HeadTailProperties DEF Ask, FeedTypeOK
  <2>2. PICK s \in Seq(Token) : s = Answer(store, o)
    BY <2>1, AnswerFacts
  <2>3. script' = [script EXCEPT ![r] = s]
    <3>1. script' = [script EXCEPT ![r] = @ \o Answer(store, o)]
      BY <1>7, <2>1 DEF Ask, Answer, Served
    <3>2. <<>> \o s = s
      BY <2>2, ConcatEmptySeq
    <3> QED BY <1>5, <2>2, <3>1, <3>2
  <2>4. reader' = [reader EXCEPT ![r] = "header"] /\ asked' = [asked EXCEPT ![r] = o]
    BY <1>7, <2>1 DEF Ask, GoTo
  <2>5. Due(<<>>, s, Rest(store, "header", o, n))
    BY <1>2, <1>4, <2>2, DueEnds, RestFacts
  <2>6. Heard(store, "header", o, h, n, d)
    BY DEF Heard
  <2> QED BY <1>2, <1>3, <1>4, <1>6, <2>1, <2>2, <2>3, <2>4, <2>5, <2>6, ReaderMoves
<1>8. CASE ReaderStart(r) \/ UseAnswer(r)
  <2>1. PICK o \in Objects \cup {NoObject} : asked' = [asked EXCEPT ![r] = o]
    <3>1. CASE ReaderStart(r)
      <4>1. asked' = [asked EXCEPT ![r] = asked[r]] /\ asked[r] \in Objects \cup {NoObject}
        BY <3>1 DEF ReaderStart, FeedTypeOK
      <4> QED BY <4>1
    <3>2. CASE UseAnswer(r)
      BY <3>2 DEF UseAnswer
    <3> QED BY <1>8, <3>1, <3>2
  <2>2. script' = [script EXCEPT ![r] = <<>>]
    BY <1>5, <1>8 DEF ReaderStart, UseAnswer, Start, childVars, FeedTypeOK
  <2>3. reader' = [reader EXCEPT ![r] = "take"] /\ blobs' \in Seq(Objects)
    BY <1>8 DEF ReaderStart, UseAnswer, GoTo, FeedTypeOK
  <2>4. Due(<<>>, <<>>, Rest(store, "take", o, n))
    <3>1. Rest(store, "take", o, n) = <<>>
      BY <1>2, RestFacts
    <3> QED BY <3>1, <1>4, DueEnds
  <2>5. Heard(store, "take", o, h, n, d)
    BY DEF Heard
  <2> QED BY <1>2, <1>3, <1>4, <1>6, <2>1, <2>2, <2>3, <2>4, <2>5, ReaderMoves
<1> QED BY <1>7, <1>8

(* A header is read: the one of the object asked for, or none.             *)
LEMMA ReadHeaderKeeps ==
  ASSUME Inv, NEW r \in Readers, ReadHeader(r)
  PROVE  Inv'
<1>1. PICK o, p, s, t : /\ o = asked[r] /\ p = pipe[r] /\ s = script[r]
                        /\ t = Answer(store, o)
  OBVIOUS
<1>2. reader[r] = "header" /\ p # <<>> /\ pipe' = [pipe EXCEPT ![r] = Tail(p)]
  BY <1>1 DEF ReadHeader, ReadFrom
<1>3. o \in Objects /\ p \in Seq(Token) /\ s \in Seq(Token) /\ left[r] \in Nat
  BY <1>1, <1>2, StoreFacts DEF Inv, FeedTypeOK, Pending
<1>4. t \in Seq(Token) /\ Due(p, s, t)
  BY <1>1, <1>2, <1>3, DueNow, RestFacts
<1>5. Head(p) = t[1] /\ Tail(p) \in Seq(Token)
  BY <1>2, <1>3, <1>4, DueRead, HeadTailProperties
<1>6. UNCHANGED <<store, main, offered, script>> /\ blobs' \in Seq(Objects)
  BY DEF ReadHeader, mainVars, listVars, Inv, FeedTypeOK
<1>7. CASE store[o].lost
  <2>1. Head(p) = Gone(o)
    BY <1>1, <1>3, <1>5, <1>7, AnswerFacts DEF Inv
  <2>2. Head(p).kind # "line"
    BY <2>1 DEF Gone
  <2>3. GoTo(r, "close") /\ UNCHANGED <<asked, header, left, data>>
    BY <1>1, <2>2 DEF ReadHeader, Report
  <2> QED BY <1>1, <1>2, <1>6, <2>3, ReaderStops
<1>8. CASE ~store[o].lost
  <2>1. PICK body : body = store[o].body
    OBVIOUS
  <2>2. /\ body \in Seq(Token) /\ Len(body) \in Nat /\ Head(p) = Served(o)
        /\ Served(o) \in Token /\ Len(t) = Len(body) + 2
        /\ \A i \in 1..(Len(body) + 1) :
             t[i + 1] = IF i = Len(body) + 1 THEN LF ELSE body[i]
    BY <1>1, <1>3, <1>5, <1>8, <2>1, AnswerFacts, StoreFacts DEF Inv
  <2>3. PICK n \in Nat : n = Len(body)
    BY <2>2
  <2>4. PICK h \in Token : h = Served(o)
    BY <2>2
  <2>5. h.kind = "line" /\ h.size = n
    BY <2>1, <2>3, <2>4 DEF Served, Line
  <2>6. PICK pc : pc = IF n = 0 THEN "lf" ELSE "body"
    OBVIOUS
  <2>7. /\ header' = [header EXCEPT ![r] = h] /\ left' = [left EXCEPT ![r] = n]
        /\ data' = [data EXCEPT ![r] = <<>>] /\ reader' = [reader EXCEPT ![r] = pc]
    BY <1>1, <2>2, <2>4, <2>5, <2>6 DEF ReadHeader, GoTo
  <2>8. script' = [script EXCEPT ![r] = s] /\ asked' = [asked EXCEPT ![r] = o]
    <3>1. asked' = asked
      BY <1>1, <2>5, <2>2, <2>4 DEF ReadHeader
    <3> QED BY <1>1, <1>6, <3>1 DEF Inv, FeedTypeOK
  <2>9. PICK u : u = Rest(store, pc, o, n)
    OBVIOUS
  <2>10. u \in Seq(Token)
    BY <1>3, <2>1, <2>3, <2>6, <2>9, RestType DEF Inv
  <2>11. Len(u) = n + 1 /\ \A i \in 1..(n + 1) : u[i] = IF i = n + 1 THEN LF ELSE body[i]
    <3>1. CASE n = 0
      <4>1. u = <<LF>>
        BY <2>6, <2>9, <3>1, RestFacts
      <4>2. PICK x : x = LF
        OBVIOUS
      <4>3. Len(<<x>>) = 1 /\ <<x>>[1] = x
        OBVIOUS
      <4> QED BY <3>1, <4>1, <4>2, <4>3
    <3>2. CASE n # 0
      <4>1. Len(u) = n + 1 /\ \A i \in 1..(n + 1) :
              u[i] = IF i = n + 1 THEN LF ELSE body[Len(body) - n + i]
        BY <2>1, <2>6, <2>9, <3>2, RestFacts
      <4>2. \A i \in 1..(n + 1) : Len(body) - n + i = i
        BY <2>3
      <4> QED BY <4>1, <4>2
    <3> QED BY <3>1, <3>2
  <2>12. Len(u) + 1 = Len(t) /\ \A i \in 1..Len(u) : u[i] = t[i + 1]
    BY <2>2, <2>3, <2>11
  <2>13. Due(Tail(p), s, Rest(store, pc, o, n))
    BY <1>2, <1>3, <1>4, <2>9, <2>10, <2>12, DueRead
  <2>14. Heard(store, pc, o, h, n, <<>>)
    BY <2>1, <2>2, <2>3, <2>4, <2>6 DEF Heard, Served
  <2>15. /\ pc \in {"start", "take", "header", "body", "lf", "answered", "close", "done"}
         /\ <<>> \in Seq(Token) /\ Tail(p) \in Seq(Token) /\ o \in Objects \cup {NoObject}
    BY <1>3, <1>5, <2>6
  <2>16. /\ pc \in {"header", "body", "lf", "answered"} => o \in Objects
         /\ pc \notin {"close", "done"} => Due(Tail(p), s, Rest(store, pc, o, n))
    BY <1>3, <2>13
  <2>17. UNCHANGED <<store, main, offered>>
    BY <1>6
  <2>18. s \in Seq(Token) /\ pipe' = [pipe EXCEPT ![r] = Tail(p)] /\ blobs' \in Seq(Objects)
    BY <1>2, <1>3, <1>6
  <2> QED BY ONLY Inv, r \in Readers, h \in Token, n \in Nat, <2>7, <2>8, <2>14, <2>15, <2>16,
                  <2>17, <2>18, ReaderMoves
<1> QED BY <1>7, <1>8

(* A byte of the body is read: the next one.                               *)
LEMMA ReadBodyKeeps ==
  ASSUME Inv, NEW r \in Readers, ReadBody(r)
  PROVE  Inv'
<1>1. PICK o, p, s, n, d, h, body :
        /\ o = asked[r] /\ p = pipe[r] /\ s = script[r] /\ n = left[r] /\ d = data[r]
        /\ h = header[r] /\ body = store[o].body
  OBVIOUS
<1>2. reader[r] = "body" /\ p # <<>> /\ pipe' = [pipe EXCEPT ![r] = Tail(p)]
  BY <1>1 DEF ReadBody, ReadFrom
<1>3. /\ o \in Objects /\ p \in Seq(Token) /\ s \in Seq(Token) /\ n \in Nat
      /\ d \in Seq(Token) /\ h \in Token
  BY <1>1, <1>2, StoreFacts DEF Inv, FeedTypeOK, Pending
<1>4. body \in Seq(Token) /\ Len(body) \in Nat
  BY <1>1, <1>3, StoreFacts DEF Inv
<1>5. /\ n # 0 /\ n <= Len(body) /\ h = Line(o, store[o].type, Len(body))
      /\ IF Len(body) > Limit THEN d = <<>>
         ELSE Len(d) = Len(body) - n /\ \A i \in 1..Len(d) : d[i] = body[i]
  BY <1>1, <1>2 DEF Inv, Kept, Heard
<1>6. PICK t : t = Rest(store, "body", o, n)
  OBVIOUS
<1>7. /\ t \in Seq(Token) /\ Due(p, s, t) /\ Len(t) = n + 1
      /\ \A i \in 1..(n + 1) : t[i] = IF i = n + 1 THEN LF ELSE body[Len(body) - n + i]
  <2>1. t \in Seq(Token) /\ Due(p, s, t)
    BY <1>1, <1>2, <1>6, DueNow
  <2>2. /\ Len(t) = n + 1
        /\ \A i \in 1..(n + 1) : t[i] = IF i = n + 1 THEN LF ELSE body[Len(body) - n + i]
    <3>1. n \in Nat /\ body = store[o].body
      BY <1>1, <1>3
    <3> QED BY <1>6, <3>1, RestFacts
  <2> QED BY <2>1, <2>2
<1>8. Head(p) = t[1] /\ Head(p) \in Token /\ Tail(p) \in Seq(Token)
  BY <1>2, <1>3, <1>7, DueRead, HeadTailProperties
<1>9. Head(p) = body[Len(body) - n + 1]
  BY <1>3, <1>5, <1>7, <1>8
<1>10. PICK m \in Nat : m = n - 1
  BY <1>3, <1>5
<1>11. PICK pc : pc = IF m = 0 THEN "lf" ELSE "body"
  OBVIOUS
<1>12. PICK u : u = Rest(store, pc, o, m)
  OBVIOUS
<1>13. u \in Seq(Token)
  BY <1>1, <1>3, <1>5, <1>10, <1>11, <1>12, RestType DEF Inv
<1>14. /\ Len(u) = m + 1
       /\ \A i \in 1..(m + 1) : u[i] = IF i = m + 1 THEN LF ELSE body[Len(body) - m + i]
  <2>1. CASE m = 0
    <3>1. u = <<LF>>
      BY <1>11, <1>12, <2>1, RestFacts
    <3>2. PICK x : x = LF
      OBVIOUS
    <3>3. Len(<<x>>) = 1 /\ <<x>>[1] = x
      OBVIOUS
    <3> QED BY <2>1, <3>1, <3>2, <3>3
  <2>2. CASE m # 0
    <3>1. u = Rest(store, "body", o, m)
      BY <1>11, <1>12, <2>2
    <3> QED BY <1>1, <3>1, RestFacts
  <2> QED BY <2>1, <2>2
<1>15. Len(u) + 1 = Len(t) /\ \A i \in 1..Len(u) : u[i] = t[i + 1]
  <2>1. Len(u) + 1 = Len(t)
    BY <1>3, <1>7, <1>10, <1>14
  <2>2. ASSUME NEW i \in 1..Len(u)
        PROVE  u[i] = t[i + 1]
    <3>1. i \in 1..(m + 1) /\ i + 1 \in 1..(n + 1)
      BY <1>3, <1>10, <1>14, <2>2
    <3>2. (i = m + 1) <=> (i + 1 = n + 1)
      BY <1>3, <1>10, <3>1
    <3>3. Len(body) - m + i = Len(body) - n + (i + 1)
      BY <1>3, <1>4, <1>10, <3>1
    <3> QED BY <1>7, <1>14, <3>1, <3>2, <3>3
  <2> QED BY <2>1, <2>2
<1>16. Due(Tail(p), s, Rest(store, pc, o, m))
  <2>1. t \in Seq(Token) /\ Due(p, s, t)
    BY <1>7
  <2> QED BY <1>2, <1>3, <1>12, <1>13, <1>15, <2>1, DueRead
<1>17. PICK e : e = IF Len(body) > Limit THEN d ELSE Append(d, Head(p))
  OBVIOUS
<1>18. e \in Seq(Token)
  BY <1>3, <1>8, <1>17
<1>19. Heard(store, pc, o, h, m, e)
  <2>1. h = Line(o, store[o].type, Len(body)) /\ m <= Len(body) /\ (pc = "body" <=> m # 0)
    BY <1>3, <1>4, <1>5, <1>10, <1>11
  <2>2. CASE Len(body) > Limit
    BY <1>1, <1>5, <1>17, <2>1, <2>2 DEF Heard
  <2>3. CASE ~(Len(body) > Limit)
    <3>1. Len(d) = Len(body) - n /\ \A i \in 1..Len(d) : d[i] = body[i]
      BY <1>5, <2>3
    <3>2. e = Append(d, Head(p))
      BY <1>17, <2>3
    <3>3. Len(e) = Len(d) + 1 /\ \A i \in 1..Len(e) :
            e[i] = IF i = Len(d) + 1 THEN Head(p) ELSE d[i]
      BY <1>3, <1>8, <3>2
    <3>4. Len(e) = Len(body) - m
      BY <1>3, <1>4, <1>10, <3>1, <3>3
    <3>5. \A i \in 1..Len(e) : e[i] = body[i]
      <4> TAKE i \in 1..Len(e)
      <4>1. CASE i = Len(d) + 1
        <5>1. Len(body) - n + 1 = i
          BY <3>1, <4>1
        <5> QED BY <1>9, <3>3, <4>1, <5>1
      <4>2. CASE i # Len(d) + 1
        <5>1. i \in 1..Len(d)
          BY <1>3, <3>3, <4>2
        <5> QED BY <3>1, <3>3, <4>2, <5>1
      <4> QED BY <4>1, <4>2
    <3> QED BY <1>1, <2>1, <2>3, <3>4, <3>5 DEF Heard
  <2> QED BY <2>2, <2>3
<1>20. /\ reader' = [reader EXCEPT ![r] = pc] /\ left' = [left EXCEPT ![r] = m]
       /\ script' = [script EXCEPT ![r] = s] /\ asked' = [asked EXCEPT ![r] = o]
       /\ header' = [header EXCEPT ![r] = h]
  <2>1. left[r] = 1 <=> m = 0
    BY <1>1, <1>3, <1>10
  <2> QED BY <1>1, <1>10, <1>11, <2>1 DEF ReadBody, GoTo, Inv, FeedTypeOK
<1>21. data' = [data EXCEPT ![r] = e]
  <2>1. h.size = Len(body)
    BY <1>5 DEF Line
  <2>2. CASE Len(body) > Limit
    BY <1>1, <1>17, <2>1, <2>2 DEF ReadBody, Inv, FeedTypeOK
  <2>3. CASE ~(Len(body) > Limit)
    BY <1>1, <1>17, <2>1, <2>3 DEF ReadBody
  <2> QED BY <2>2, <2>3
<1>22. UNCHANGED <<store, main, offered>>
  BY DEF ReadBody, mainVars, listVars
<1>23. blobs' \in Seq(Objects)
  BY DEF ReadBody, Inv, FeedTypeOK
<1>24. /\ pc \in {"start", "take", "header", "body", "lf", "answered", "close", "done"}
       /\ o \in Objects \cup {NoObject} /\ s \in Seq(Token) /\ h \in Token
       /\ pipe' = [pipe EXCEPT ![r] = Tail(p)]
       /\ pc \in {"header", "body", "lf", "answered"} => o \in Objects
       /\ pc \notin {"close", "done"} => Due(Tail(p), s, Rest(store, pc, o, m))
  BY <1>2, <1>3, <1>11, <1>16
<1>25. Tail(p) \in Seq(Token)
  BY <1>8
<1> QED BY ONLY Inv, r \in Readers, m \in Nat, <1>18, <1>19, <1>20, <1>21, <1>22, <1>23, <1>24,
                <1>25, ReaderMoves

(* The line feed is read.                                                  *)
LEMMA SkipLFKeeps ==
  ASSUME Inv, NEW r \in Readers, SkipLF(r)
  PROVE  Inv'
<1>1. PICK o, p, s, n, d, h :
        /\ o = asked[r] /\ p = pipe[r] /\ s = script[r] /\ n = left[r] /\ d = data[r]
        /\ h = header[r]
  OBVIOUS
<1>2. reader[r] = "lf" /\ p # <<>> /\ pipe' = [pipe EXCEPT ![r] = Tail(p)]
  BY <1>1 DEF SkipLF, ReadFrom
<1>3. /\ o \in Objects /\ p \in Seq(Token) /\ s \in Seq(Token) /\ n \in Nat
      /\ d \in Seq(Token) /\ h \in Token
  BY <1>1, <1>2, StoreFacts DEF Inv, FeedTypeOK, Pending
<1>4. PICK t : t = Rest(store, "lf", o, n)
  OBVIOUS
<1>5. t \in Seq(Token) /\ Due(p, s, t)
  BY <1>1, <1>2, <1>4, DueNow
<1>6. Len(t) = 1
  <2>1. t = <<LF>>
    BY <1>3, <1>4, RestFacts
  <2>2. PICK x : x = LF
    OBVIOUS
  <2>3. Len(<<x>>) = 1
    OBVIOUS
  <2> QED BY <2>1, <2>2, <2>3
<1>7. Tail(p) \in Seq(Token) /\ Due(Tail(p), s, <<>>)
  <2>1. <<>> \in Seq(Token) /\ Len(<<>>) = 0
    OBVIOUS
  <2>2. Len(<<>>) + 1 = Len(t) /\ \A i \in 1..Len(<<>>) : <<>>[i] = t[i + 1]
    BY <1>6, <2>1
  <2> QED BY <1>2, <1>3, <1>5, <2>1, <2>2, DueRead, HeadTailProperties
<1>8. Rest(store, "answered", o, n) = <<>>
  BY <1>3, RestFacts
<1>9. Heard(store, "answered", o, h, n, d)
  BY <1>1, <1>2 DEF Inv, Kept, Heard
<1>10. /\ reader' = [reader EXCEPT ![r] = "answered"] /\ left' = [left EXCEPT ![r] = n]
       /\ script' = [script EXCEPT ![r] = s] /\ asked' = [asked EXCEPT ![r] = o]
       /\ header' = [header EXCEPT ![r] = h] /\ data' = [data EXCEPT ![r] = d]
  BY <1>1 DEF SkipLF, GoTo, Inv, FeedTypeOK
<1>11. UNCHANGED <<store, main, offered>>
  BY DEF SkipLF, mainVars, listVars
<1>12. blobs' \in Seq(Objects)
  BY DEF SkipLF, Inv, FeedTypeOK
<1>13. /\ o \in Objects \cup {NoObject}
       /\ pipe' = [pipe EXCEPT ![r] = Tail(p)]
       /\ Due(Tail(p), s, Rest(store, "answered", o, n))
  BY <1>2, <1>3, <1>7, <1>8
<1>14. Tail(p) \in Seq(Token)
  BY <1>7
<1> QED BY ONLY Inv, r \in Readers, <1>3, <1>9, <1>10, <1>11, <1>12, <1>13, <1>14, ReaderMoves

(* Every step of a reader.                                                 *)
LEMMA ReaderKeeps ==
  ASSUME Inv, NEW r \in Readers, ReaderStep(r) \/ ReaderStartFails(r)
  PROVE  Inv'
<1>1. blobs \in Seq(Objects)
  BY DEF Inv, FeedTypeOK
<1>2. CASE ReaderStartFails(r) \/ ReadFails(r)
  <2>1. PICK pc \in {"close", "done"} : GoTo(r, pc)
    BY <1>2 DEF ReaderStartFails, ReadFails, Report
  <2>2. UNCHANGED <<store, main, offered, script, pipe, blobs, asked, header, left, data>>
    BY <1>2 DEF ReaderStartFails, ReadFails, Report, childVars, mainVars, listVars
  <2> QED BY <1>1, <2>1, <2>2, ReaderStops
<1>3. CASE AskFails(r)
  <2>1. GoTo(r, "close") /\ blobs' \in Seq(Objects)
    BY <1>1, <1>3, HeadTailProperties DEF AskFails, Report
  <2>2. UNCHANGED <<store, main, offered, script, pipe, asked, header, left, data>>
    BY <1>3 DEF AskFails, Report, childVars, mainVars, listVars
  <2> QED BY <2>1, <2>2, ReaderStops
<1>4. CASE Drained(r) \/ ReaderReap(r)
  <2>1. PICK pc \in {"close", "done"} : GoTo(r, pc)
    BY <1>4 DEF Drained, ReaderReap
  <2>2. UNCHANGED <<store, main, offered, script, pipe, blobs, asked, header, left, data>>
    BY <1>4 DEF Drained, ReaderReap, childVars, mainVars, listVars
  <2> QED BY <1>1, <2>1, <2>2, ReaderStops
<1> QED BY <1>2, <1>3, <1>4, QuietKeeps, ReadHeaderKeeps, ReadBodyKeeps, SkipLFKeeps
     DEF ReaderStep

-----------------------------------------------------------------------------
(* The invariant.                                                          *)

(* Nothing is due at first.                                                *)
LEMMA InitInv ==
  ASSUME Init
  PROVE  Inv
<1>1. <<>> \in Seq(Token) /\ <<>> \in Seq(ListToken) /\ <<>> \in Seq(Objects) /\ LF \in Token
  BY DEF Token
<1>2. /\ pipe \in [Children -> Seq(Token)] /\ script \in [Children -> Seq(Token)]
      /\ \A c \in Children : pipe[c] = <<>> /\ script[c] = <<>>
  BY <1>1 DEF Init, ChildInit
<1>3. FeedTypeOK
  BY <1>1, <1>2, FeedAssumption DEF Init, FeedTypeOK, Pending
<1>4. ASSUME NEW r \in Readers
      PROVE  InSync(r) /\ Kept(r)
  <2>1. reader[r] = "start" /\ left[r] \in Nat
    BY DEF Init
  <2>2. Rest(store, reader[r], asked[r], left[r]) = <<>>
    BY <2>1, RestFacts
  <2>3. pipe[r] = <<>> /\ script[r] = <<>>
    BY <1>2, <1>3, StoreFacts
  <2>4. InSync(r)
    BY <1>1, <2>2, <2>3, DueEnds DEF InSync
  <2>5. Kept(r)
    BY <2>1 DEF Kept, Heard
  <2> QED BY <2>4, <2>5
<1> QED BY <1>3, <1>4 DEF Inv

(* Every step keeps readers and children in step.                          *)
LEMMA InvStep ==
  ASSUME Inv, [Next]_vars
  PROVE  Inv'
<1>1. CASE UNCHANGED vars
  <2>1. UNCHANGED <<store, readerVars, pipe, script, offered, main, blobs>>
    BY <1>1 DEF vars, childVars, listVars
  <2>2. FeedTypeOK'
    BY <2>1 DEF Inv, FeedTypeOK, readerVars, Pending
  <2> QED BY <2>1, <2>2, MainApart
<1> QED BY <1>1, MainKeeps, ReaderKeeps, ChildKeeps DEF Next, Done

(* A reader and its child are in step in every reachable state.            *)
THEOREM Invariance == Spec => []Inv
<1>1. Init => Inv
  BY InitInv
<1>2. Inv /\ [Next]_vars => Inv'
  BY InvStep
<1> QED BY <1>1, <1>2, PTL DEF Spec

(* In step, a reader that has read an answer has the one to its question.  *)
LEMMA InStep ==
  ASSUME Inv
  PROVE  AnswersWhatWasAsked
<1> SUFFICES ASSUME NEW r \in Readers, reader[r] = "answered"
             PROVE  /\ header[r] = Served(asked[r])
                    /\ data[r] = IF Served(asked[r]).size > Limit THEN <<>>
                                 ELSE store[asked[r]].body
  BY DEF AnswersWhatWasAsked
<1>1. PICK o, d, body : o = asked[r] /\ d = data[r] /\ body = store[o].body
  OBVIOUS
<1>2. o \in Objects /\ d \in Seq(Token)
  BY <1>1 DEF Inv, FeedTypeOK, Pending
<1>3. body \in Seq(Token) /\ Len(body) \in Nat
  BY <1>1, <1>2, StoreFacts DEF Inv
<1>4. /\ header[r] = Line(o, store[o].type, Len(body))
      /\ left[r] = 0
      /\ IF Len(body) > Limit THEN d = <<>>
         ELSE Len(d) = Len(body) - left[r] /\ \A i \in 1..Len(d) : d[i] = body[i]
  BY <1>1 DEF Inv, Kept, Heard
<1>5. Served(o).size = Len(body)
  BY <1>1 DEF Served, Line
<1>6. ~(Len(body) > Limit) => d = body
  BY <1>2, <1>3, <1>4, SeqEqual
<1> QED BY <1>1, <1>4, <1>5, <1>6 DEF Served

(* The answer a reader uses is the one to its question: header and bytes   *)
(* are those of the object asked for (catFile.read, main.go).              *)
THEOREM AnswersRight == Spec => []AnswersWhatWasAsked
<1>1. Inv => AnswersWhatWasAsked
  BY InStep
<1> QED BY <1>1, Invariance, PTL

-----------------------------------------------------------------------------
(* What becomes of the blobs.                                              *)
(*                                                                         *)
(* The lines in the pipe and those not yet printed name each object that   *)
(* the caller has still to hear of, once (Printed), so total is what it    *)
(* has heard of (Counted).  Such a blob is in a hand or settled            *)
(* (Accounted), as long as nothing went wrong.  And what went wrong is on  *)
(* record when the feed returns (Control).                                 *)

Names(l) == {l[i].object : i \in 1..Len(l)}

Distinct(l) == \A i, j \in 1..Len(l) : l[i].object = l[j].object => i = j

ListLine(st, o) == Line(o, st[o].listed.type, st[o].listed.size)

(* The lines are whole.                                                    *)
AsListed(st, l) == \A i \in 1..Len(l) : l[i] = ListLine(st, l[i].object)

Listed(st) == {o \in Objects : st[o].listed.type = "blob"}
Wanted(st) == {o \in Listed(st) : st[o].listed.size <= Limit}
ServedBlobs(st) == {o \in Wanted(st) : st[o].type = "blob"}
Large(st) == {o \in ServedBlobs(st) : Len(st[o].body) > Limit}

(* The objects of which no line has been read.                             *)
Unheard(pc, p, s) == IF pc = "start" THEN Objects ELSE Names(p) \cup Names(s)

Printed(st, p, s, whole) ==
  /\ Distinct(p) /\ Distinct(s) /\ Names(p) \cap Names(s) = {}
  /\ whole => AsListed(st, p) /\ AsListed(st, s)

Counted(st, u, n, whole) ==
  /\ n \in Nat /\ n <= Cardinality(Objects \ u)
  /\ whole => n = Cardinality(Listed(st) \ u)

Whole == child[Lister] # "died" /\ ~listErr

Listing ==
  /\ Printed(store, pipe[Lister], script[Lister], Whole)
  /\ Counted(store, Unheard(main, pipe[Lister], script[Lister]), total, Whole)

Leaving(rd) == {r \in Readers : rd[r] \in {"close", "done"}}

MainControl ==
  /\ store \in Stores
  /\ main \in {"start", "scan", "offer", "reap", "close", "wait", "returned"}
  /\ main = "offer" <=> offered # NoObject
  /\ listErr \in BOOLEAN /\ cancelled \in BOOLEAN /\ blobsClosed \in BOOLEAN
  /\ blobsClosed <=> main \in {"wait", "returned"}
  /\ main = "start" => child[Lister] = "none" /\ ~listErr /\ pipe[Lister] = <<>>
  /\ main \in {"reap", "close", "wait", "returned"} /\ ~listErr => AtEOF(Lister)
  /\ main \in {"close", "wait", "returned"} /\ ~listErr => child[Lister] # "died"
  /\ Len(blobs) <= BlobsCap
  /\ outcome \in {"running", "ok", "failed"}
  /\ outcome = "running" <=> main # "returned"
  /\ outcome = "ok" => errs = 0 /\ ~listErr /\ \A r \in Readers : reader[r] = "done"

ChildControl ==
  /\ child \in [Children -> {"none", "running", "exited", "died"}]
  /\ \A c \in Children : Len(pipe[c]) <= PipeCap
  /\ \A c \in Children : child[c] # "running" => script[c] = <<>>

ReaderControl ==
  /\ errs \in Nat /\ errs <= Cardinality(Leaving(reader))
  /\ \A r \in Readers : reader[r] \in {"close", "done"} /\ errs = 0 =>
       blobsClosed /\ blobs = <<>>
  /\ DOMAIN sent \subseteq Objects /\ skipped \subseteq Objects

Control == MainControl /\ ChildControl /\ ReaderControl

(* The blobs on their way to an answer.                                    *)
Queued(b) == {b[i] : i \in 1..Len(b)}

Asking(rd, as) ==
  {as[r] : r \in {q \in Readers : rd[q] \in {"header", "body", "lf", "answered"}}}

Hands(off, b, rd, as) == {o \in Objects : o = off \/ o \in Queued(b) \/ o \in Asking(rd, as)}

Settled(st, snt, skp, o) ==
  IF o \notin Wanted(st) \/ o \in Large(st) THEN o \in skp
  ELSE o \in ServedBlobs(st) => o \in DOMAIN snt

Balance(st, u, h, snt, skp) ==
  /\ h \subseteq Wanted(st)
  /\ \A o \in Listed(st) : o \in u \/ o \in h \/ Settled(st, snt, skp, o)
  /\ skp \subseteq (Listed(st) \ Wanted(st)) \cup Large(st)
  /\ DOMAIN snt \subseteq ServedBlobs(st) \ Large(st)
  /\ snt = [o \in DOMAIN snt |-> st[o].body]

Accounted ==
  Whole /\ errs = 0 =>
    Balance(store, Unheard(main, pipe[Lister], script[Lister]),
            Hands(offered, blobs, reader, asked), sent, skipped)

FeedInv == Inv /\ Listing /\ Control /\ Accounted

-----------------------------------------------------------------------------
(* The listing.                                                            *)

(* A line is taken off the front.                                          *)
LEMMA NamesTail ==
  ASSUME NEW l \in Seq(ListToken), l # <<>>, NEW st
  PROVE  LET x == Head(l) IN
         /\ x \in ListToken /\ Tail(l) \in Seq(ListToken)
         /\ Names(l) = {x.object} \cup Names(Tail(l))
         /\ Distinct(l) => Distinct(Tail(l)) /\ x.object \notin Names(Tail(l))
         /\ AsListed(st, l) =>
              /\ AsListed(st, Tail(l))
              /\ x = ListLine(st, x.object)
<1>1. PICK n \in Nat : n = Len(l) - 1 /\ n + 1 = Len(l)
  BY EmptySeq
<1>2. PICK x, t : x = Head(l) /\ t = Tail(l)
  OBVIOUS
<1>3. /\ x \in ListToken /\ x = l[1] /\ t \in Seq(ListToken) /\ Len(t) = n
      /\ \A i \in 1..n : t[i] = l[i + 1]
  BY <1>1, <1>2, HeadTailProperties
<1>4. /\ \A i \in 1..n : i + 1 \in 1..Len(l) /\ i + 1 # 1
      /\ \A j \in 1..Len(l) : j = 1 \/ (j - 1 \in 1..n /\ (j - 1) + 1 = j)
      /\ 1 \in 1..Len(l)
      /\ \A i, j \in 1..n : i + 1 = j + 1 => i = j
  BY <1>1
<1>5. Names(l) = {x.object} \cup Names(t)
  <2>1. \A e \in Names(l) : e \in {x.object} \cup Names(t)
    <3> SUFFICES ASSUME NEW j \in 1..Len(l)
                 PROVE  l[j].object \in {x.object} \cup Names(t)
      BY DEF Names
    <3>1. CASE j = 1
      BY <1>3, <3>1
    <3>2. CASE j # 1
      <4>1. j - 1 \in 1..n /\ t[j - 1] = l[j]
        BY <1>3, <1>4, <3>2
      <4> QED BY <1>3, <4>1 DEF Names
    <3> QED BY <3>1, <3>2
  <2>2. x.object \in Names(l)
    BY <1>3, <1>4 DEF Names
  <2>3. \A e \in Names(t) : e \in Names(l)
    BY <1>3, <1>4 DEF Names
  <2> QED BY <2>1, <2>2, <2>3
<1>6. Distinct(l) => Distinct(t) /\ x.object \notin Names(t)
  <2> SUFFICES ASSUME Distinct(l)
               PROVE  Distinct(t) /\ x.object \notin Names(t)
    OBVIOUS
  <2>1. ASSUME NEW i \in 1..n, NEW j \in 1..n, t[i].object = t[j].object
        PROVE  i = j
    <3>1. l[i + 1].object = l[j + 1].object
      BY <1>3, <2>1
    <3> QED BY <1>4, <3>1 DEF Distinct
  <2>2. ASSUME NEW i \in 1..n, x.object = t[i].object
        PROVE  FALSE
    <3>1. l[1].object = l[i + 1].object
      BY <1>3, <2>2
    <3> QED BY <1>4, <3>1 DEF Distinct
  <2> QED BY <1>3, <2>1, <2>2 DEF Distinct, Names
<1>7. AsListed(st, l) =>
        /\ AsListed(st, t)
        /\ x = ListLine(st, x.object)
  BY <1>3, <1>4 DEF AsListed
<1> QED BY <1>2, <1>3, <1>5, <1>6, <1>7

(* A line is put at the end.                                               *)
LEMMA NamesAppend ==
  ASSUME NEW l \in Seq(ListToken), NEW x \in ListToken, NEW st
  PROVE  /\ Append(l, x) \in Seq(ListToken)
         /\ Names(Append(l, x)) = Names(l) \cup {x.object}
         /\ Distinct(l) /\ x.object \notin Names(l) => Distinct(Append(l, x))
         /\ AsListed(st, l) /\ x = ListLine(st, x.object) => AsListed(st, Append(l, x))
<1>1. PICK n \in Nat : n = Len(l)
  OBVIOUS
<1>2. PICK a : a = Append(l, x)
  OBVIOUS
<1>3. /\ a \in Seq(ListToken) /\ Len(a) = n + 1 /\ a[n + 1] = x
      /\ \A i \in 1..n : a[i] = l[i]
  BY <1>1, <1>2
<1>4. /\ \A j \in 1..(n + 1) : j = n + 1 \/ j \in 1..n
      /\ \A i \in 1..n : i \in 1..(n + 1) /\ i # n + 1
      /\ n + 1 \in 1..(n + 1)
  BY <1>1
<1>5. Names(a) = Names(l) \cup {x.object}
  <2>1. \A e \in Names(a) : e \in Names(l) \cup {x.object}
    BY <1>1, <1>3, <1>4 DEF Names
  <2>2. \A e \in Names(l) : e \in Names(a)
    BY <1>1, <1>3, <1>4 DEF Names
  <2>3. x.object \in Names(a)
    BY <1>1, <1>3, <1>4 DEF Names
  <2> QED BY <2>1, <2>2, <2>3
<1>6. Distinct(l) /\ x.object \notin Names(l) => Distinct(a)
  BY <1>1, <1>3, <1>4 DEF Distinct, Names
<1>7. AsListed(st, l) /\ x = ListLine(st, x.object) => AsListed(st, a)
  BY <1>1, <1>3, <1>4 DEF AsListed
<1> QED BY <1>2, <1>3, <1>5, <1>6, <1>7

(* Nothing is named by no lines, and only objects are by some.             *)
LEMMA NamesOf ==
  /\ Names(<<>>) = {} /\ Distinct(<<>>) /\ \A st : AsListed(st, <<>>)
  /\ \A l \in Seq(ListToken) : Names(l) \subseteq Objects
<1>1. Len(<<>>) = 0 /\ 1..0 = {}
  OBVIOUS
<1>2. ASSUME NEW l \in Seq(ListToken), NEW i \in 1..Len(l)
      PROVE  l[i].object \in Objects
  <2>1. l[i] \in ListToken
    BY <1>2
  <2> QED BY <2>1 DEF ListToken
<1> QED BY <1>1, <1>2 DEF Names, Distinct, AsListed

(* A line of the listing is printed.                                       *)
LEMMA PrintedMoves ==
  ASSUME NEW st, NEW p \in Seq(ListToken), NEW s \in Seq(ListToken), NEW w \in BOOLEAN,
         Printed(st, p, s, w), s # <<>>
  PROVE  /\ Printed(st, Append(p, Head(s)), Tail(s), w)
         /\ Names(Append(p, Head(s))) \cup Names(Tail(s)) = Names(p) \cup Names(s)
<1>1. PICK x, t : x = Head(s) /\ t = Tail(s)
  OBVIOUS
<1>2. /\ x \in ListToken /\ t \in Seq(ListToken) /\ Names(s) = {x.object} \cup Names(t)
      /\ Distinct(s) => Distinct(t) /\ x.object \notin Names(t)
      /\ AsListed(st, s) =>
           /\ AsListed(st, t)
           /\ x = ListLine(st, x.object)
  BY <1>1, NamesTail
<1>3. /\ Names(Append(p, x)) = Names(p) \cup {x.object}
      /\ Distinct(p) /\ x.object \notin Names(p) => Distinct(Append(p, x))
      /\ AsListed(st, p) /\ x = ListLine(st, x.object) => AsListed(st, Append(p, x))
  BY <1>2, NamesAppend
<1> QED BY <1>1, <1>2, <1>3 DEF Printed

(* A line of it is read.                                                   *)
LEMMA PrintedRead ==
  ASSUME NEW st, NEW p \in Seq(ListToken), NEW s \in Seq(ListToken), NEW w \in BOOLEAN,
         Printed(st, p, s, w), p # <<>>
  PROVE  LET o == Head(p).object IN
         /\ Printed(st, Tail(p), s, w)
         /\ Names(Tail(p)) \cup Names(s) = (Names(p) \cup Names(s)) \ {o}
         /\ o \in Names(p) \cup Names(s)
         /\ w => Head(p) = ListLine(st, o)
<1>1. PICK x, t, o : x = Head(p) /\ t = Tail(p) /\ o = x.object
  OBVIOUS
<1>2. /\ Names(p) = {o} \cup Names(t)
      /\ Distinct(p) => Distinct(t) /\ o \notin Names(t)
      /\ AsListed(st, p) =>
           AsListed(st, t) /\ x = ListLine(st, o)
  BY <1>1, NamesTail
<1> QED BY <1>1, <1>2 DEF Printed

(* The count goes up with a line that is taken.                            *)
LEMMA CountedRead ==
  ASSUME NEW st, NEW u \in SUBSET Objects, NEW n, NEW w \in BOOLEAN, Counted(st, u, n, w),
         NEW o \in u
  PROVE  /\ (w => o \in Listed(st)) => Counted(st, u \ {o}, n + 1, w)
         /\ (w => o \notin Listed(st)) => Counted(st, u \ {o}, n, w)
<1>1. /\ IsFiniteSet(Objects \ u) /\ IsFiniteSet(Listed(st) \ u)
      /\ o \in Objects /\ o \notin Objects \ u /\ o \notin Listed(st) \ u
  <2>1. Listed(st) \ u \subseteq Objects /\ Objects \ u \subseteq Objects
    BY DEF Listed
  <2>2. IsFiniteSet(Objects)
    BY FeedAssumption
  <2> QED BY <2>1, <2>2, FS_Subset
<1>2. Objects \ (u \ {o}) = (Objects \ u) \cup {o}
  BY <1>1
<1>3. /\ Cardinality((Objects \ u) \cup {o}) = Cardinality(Objects \ u) + 1
      /\ Cardinality((Listed(st) \ u) \cup {o}) = Cardinality(Listed(st) \ u) + 1
  BY <1>1, FS_AddElement
<1>4. n \in Nat /\ n <= Cardinality(Objects \ u) /\ (w => n = Cardinality(Listed(st) \ u))
  BY DEF Counted
<1>5. Cardinality(Objects \ u) \in Nat /\ Cardinality(Listed(st) \ u) \in Nat
  BY <1>1, FS_CardinalityType
<1>6. o \in Listed(st) => Listed(st) \ (u \ {o}) = (Listed(st) \ u) \cup {o}
  OBVIOUS
<1>7. o \notin Listed(st) => Listed(st) \ (u \ {o}) = Listed(st) \ u
  OBVIOUS
<1> QED BY <1>2, <1>3, <1>4, <1>5, <1>6, <1>7 DEF Counted

(* With part of the listing lost it is still no more than there are.       *)
LEMMA CountedLess ==
  ASSUME NEW st, NEW u \in SUBSET Objects, NEW n, NEW w, Counted(st, u, n, w),
         NEW v \in SUBSET u
  PROVE  Counted(st, v, n, FALSE)
<1>1. IsFiniteSet(Objects \ v) /\ IsFiniteSet(Objects \ u)
  <2>1. Objects \ v \subseteq Objects /\ Objects \ u \subseteq Objects
    OBVIOUS
  <2> QED BY <2>1, FS_Subset, FeedAssumption
<1>2. Cardinality(Objects \ u) <= Cardinality(Objects \ v)
  <2>1. Objects \ u \subseteq Objects \ v
    OBVIOUS
  <2> QED BY <1>1, <2>1, FS_Subset
<1>3. Cardinality(Objects \ u) \in Nat /\ Cardinality(Objects \ v) \in Nat
  BY <1>1, FS_CardinalityType
<1> QED BY <1>2, <1>3 DEF Counted

(* A full list names every object.                                         *)
LEMMA FullList ==
  ASSUME NEW st \in StoreType, NEW order \in SetToSeqs(Objects)
  PROVE  LET l == [i \in DOMAIN order |->
                     LET o == st[order[i]].listed IN Line(order[i], o.type, o.size)] IN
         /\ l \in Seq(ListToken) /\ Names(l) = Objects /\ Distinct(l) /\ AsListed(st, l)
<1>1. PICK n \in Nat : n = Cardinality(Objects)
  BY FeedAssumption, FS_CardinalityType
<1>2. order \in [1..n -> Objects] /\ \A i, j \in 1..n : order[i] = order[j] => i = j
  BY <1>1 DEF SetToSeqs
<1>3. \A o \in Objects : \E i \in 1..n : order[i] = o
  <2>1. order \in Injection(1..n, Objects)
    BY <1>2 DEF Injection, IsInjective
  <2>2. Cardinality(1..n) = n
    BY FS_Interval
  <2>3. order \in Surjection(1..n, Objects)
    BY <1>1, <2>1, <2>2, FeedAssumption, FS_Injection
  <2> QED BY <2>3 DEF Surjection
<1>4. PICK l : l = [i \in 1..n |-> ListLine(st, order[i])]
  OBVIOUS
<1>5. \A o \in Objects : ListLine(st, o) \in ListToken /\ ListLine(st, o).object = o
  BY DEF StoreType, ListLine, Line, ListToken
<1>6. l \in Seq(ListToken) /\ Len(l) = n /\ \A i \in 1..n : l[i].object = order[i]
  BY <1>2, <1>4, <1>5
<1>7. Names(l) = Objects /\ Distinct(l) /\ AsListed(st, l)
  <2>1. Names(l) = Objects
    BY <1>2, <1>3, <1>6 DEF Names
  <2>2. Distinct(l)
    BY <1>2, <1>6 DEF Distinct
  <2>3. AsListed(st, l)
    BY <1>4, <1>6 DEF AsListed
  <2> QED BY <2>1, <2>2, <2>3
<1>8. l = [i \in DOMAIN order |->
             LET o == st[order[i]].listed IN Line(order[i], o.type, o.size)]
  BY <1>2, <1>4 DEF ListLine
<1> QED BY <1>6, <1>7, <1>8

(* The step of a reader, or of its child, leaves the listing alone.        *)
LEMMA ListingApart ==
  ASSUME Listing, UNCHANGED <<store, main, listErr, total>>,
         pipe'[Lister] = pipe[Lister], script'[Lister] = script[Lister],
         child'[Lister] = child[Lister]
  PROVE  Listing'
BY DEF Listing, Whole

(* The listing after a step.                                               *)
LEMMA ListingIs ==
  ASSUME store' = store, NEW p, NEW s, NEW pc, NEW n, NEW w \in BOOLEAN,
         pipe'[Lister] = p, script'[Lister] = s, main' = pc, total' = n, w \/ ~Whole',
         Printed(store, p, s, w), Counted(store, Unheard(pc, p, s), n, w)
  PROVE  Listing'
<1>1. Printed(store, p, s, w)' = Printed(store', p, s, w)
  OBVIOUS
<1>2. Printed(store', p, s, Whole')
  BY DEF Printed
<1>3. Counted(store', Unheard(pc, p, s), n, Whole')
  BY DEF Counted
<1> QED BY <1>2, <1>3 DEF Listing

(* The lines, and the objects they name.                                   *)
LEMMA ListingFacts ==
  ASSUME Inv, Listing
  PROVE  LET p == pipe[Lister]
             s == script[Lister] IN
         /\ p \in Seq(ListToken) /\ s \in Seq(ListToken)
         /\ Names(p) \subseteq Objects /\ Names(s) \subseteq Objects
         /\ \A pc : Unheard(pc, p, s) \subseteq Objects
         /\ Printed(store, p, s, Whole) /\ Counted(store, Unheard(main, p, s), total, Whole)
         /\ Whole \in BOOLEAN
<1>1. pipe[Lister] \in Seq(ListToken) /\ script[Lister] \in Seq(ListToken)
  BY DEF Inv, FeedTypeOK
<1> QED BY <1>1, NamesOf DEF Listing, Unheard, Whole

(* It starts, or does not.                                                 *)
LEMMA ListingStarts ==
  ASSUME Inv, Listing, Control, ListStart \/ ListStartFails
  PROVE  Listing'
<1>1. PICK n : n = total
  OBVIOUS
<1>2. /\ main = "start" /\ store' = store /\ total' = n
      /\ pipe[Lister] = <<>> /\ script[Lister] = <<>> /\ Whole
      /\ pipe'[Lister] = <<>>
  BY <1>1, StoreFacts DEF ListStart, ListStartFails, Control, MainControl, ChildControl, Whole,
                          Start, Inv, childVars
<1>3. Counted(store, Objects, n, TRUE)
  BY <1>1, <1>2 DEF Listing, Unheard, Counted
<1>4. CASE ListStart
  <2>1. PICK order \in SetToSeqs(Objects) :
          Start(Lister, [i \in DOMAIN order |->
                           LET l == store[order[i]].listed IN Line(order[i], l.type, l.size)])
    BY <1>4 DEF ListStart
  <2>2. PICK s : /\ s = [i \in DOMAIN order |->
                           LET l == store[order[i]].listed IN Line(order[i], l.type, l.size)]
                 /\ Names(s) = Objects /\ Distinct(s) /\ AsListed(store, s)
    <3>1. store \in StoreType
      BY DEF Inv, FeedTypeOK
    <3> QED BY <3>1, FullList
  <2>3. script'[Lister] = s
    BY <2>1, <2>2, StoreFacts DEF Start, Inv, FeedTypeOK
  <2>4. Printed(store, <<>>, s, TRUE)
    BY <2>2, NamesOf DEF Printed
  <2>5. Unheard("scan", <<>>, s) = Objects
    BY <2>2, NamesOf DEF Unheard
  <2>6. main' = "scan"
    BY <1>4 DEF ListStart
  <2> QED BY <1>2, <1>3, <2>3, <2>4, <2>5, <2>6, ListingIs
<1>5. CASE ListStartFails
  <2>1. main' = "close" /\ ~Whole' /\ script'[Lister] = <<>>
    BY <1>2, <1>5 DEF ListStartFails, Whole, childVars
  <2>2. Unheard("close", <<>>, <<>>) = {}
    BY NamesOf DEF Unheard
  <2>3. Counted(store, {}, n, FALSE)
    <3>1. Objects \in SUBSET Objects /\ {} \in SUBSET Objects
      OBVIOUS
    <3> QED BY <1>3, <3>1, CountedLess
  <2>4. Printed(store, <<>>, <<>>, FALSE)
    BY NamesOf DEF Printed
  <2> QED BY <1>2, <2>1, <2>2, <2>3, <2>4, ListingIs
<1> QED BY <1>4, <1>5

(* A line is scanned.                                                      *)
LEMMA ListingScanned ==
  ASSUME Inv, Listing, Scan
  PROVE  Listing'
<1>1. PICK p, s, n, w, u, x, o :
        /\ p = pipe[Lister] /\ s = script[Lister] /\ n = total /\ w = Whole
        /\ u = Unheard(main, p, s) /\ x = Head(p) /\ o = x.object
  OBVIOUS
<1>2. /\ p # <<>> /\ main = "scan" /\ main' \in {"scan", "offer"} /\ store' = store
      /\ total' = IF x.type # "blob" THEN n ELSE n + 1
      /\ pipe'[Lister] = Tail(p) /\ script'[Lister] = s /\ Whole' = w
  BY <1>1, StoreFacts DEF Scan, ReadFrom, Whole, Inv, FeedTypeOK
<1>3. /\ p \in Seq(ListToken) /\ s \in Seq(ListToken) /\ w \in BOOLEAN /\ u \subseteq Objects
      /\ Printed(store, p, s, w) /\ Counted(store, u, n, w)
  BY <1>1, ListingFacts
<1>4. /\ Printed(store, Tail(p), s, w)
      /\ Names(Tail(p)) \cup Names(s) = (Names(p) \cup Names(s)) \ {o}
      /\ o \in Names(p) \cup Names(s)
      /\ w => x = ListLine(store, o)
  <2>1. LET h == Head(p).object IN
        /\ Printed(store, Tail(p), s, w)
        /\ Names(Tail(p)) \cup Names(s) = (Names(p) \cup Names(s)) \ {h}
        /\ h \in Names(p) \cup Names(s)
        /\ w => Head(p) = ListLine(store, h)
    <3>1. /\ p \in Seq(ListToken) /\ s \in Seq(ListToken) /\ w \in BOOLEAN
          /\ Printed(store, p, s, w) /\ p # <<>>
      BY <1>2, <1>3
    <3> QED BY <3>1, PrintedRead
  <2> QED BY <1>1, <2>1
<1>5. PICK v : v = Unheard(main', Tail(p), s)
  OBVIOUS
<1>6. v = u \ {o} /\ o \in u
  BY <1>1, <1>2, <1>4, <1>5 DEF Unheard
<1>7. w => (o \in Listed(store) <=> x.type = "blob")
  BY <1>3, <1>4, <1>6 DEF ListLine, Line, Listed
<1>8. Counted(store, v, total', w)
  <2>1. /\ (w => o \in Listed(store)) => Counted(store, u \ {o}, n + 1, w)
        /\ (w => o \notin Listed(store)) => Counted(store, u \ {o}, n, w)
    BY <1>3, <1>6, CountedRead
  <2> QED BY <1>2, <1>3, <1>6, <1>7, <2>1
<1>9. w \/ ~Whole'
  BY <1>2, <1>3
<1>10. PICK pc, t, m : pc = main' /\ t = Tail(p) /\ m = total'
  OBVIOUS
<1>11. Printed(store, t, s, w) /\ Counted(store, Unheard(pc, t, s), m, w)
  BY <1>4, <1>5, <1>8, <1>10
<1> QED BY <1>2, <1>3, <1>9, <1>10, <1>11, ListingIs

(* The lister prints, exits or dies.                                       *)
LEMMA ListingPrinted ==
  ASSUME Inv, Listing, Control, ChildStep(Lister) \/ ChildDies(Lister)
  PROVE  Listing'
<1>1. PICK p, s, n, w, u, pc :
        /\ p = pipe[Lister] /\ s = script[Lister] /\ n = total /\ w = Whole
        /\ u = Unheard(main, p, s) /\ pc = main
  OBVIOUS
<1>2. UNCHANGED <<store, main, listErr, total>>
  BY DEF ChildStep, ChildDies, listVars
<1>3. /\ p \in Seq(ListToken) /\ s \in Seq(ListToken) /\ w \in BOOLEAN /\ u \subseteq Objects
      /\ Printed(store, p, s, w) /\ Counted(store, u, n, w) /\ Names(p) \subseteq Objects
  BY <1>1, ListingFacts
<1>4. Lister \in Children /\ pipe \in [Children -> Seq(Token)]
      /\ script \in [Children -> Seq(Token)]
  BY StoreFacts DEF Inv, FeedTypeOK
<1>5. child[Lister] = "running" /\ child' \in [Children -> {"none", "running", "exited", "died"}]
  BY <1>4 DEF ChildStep, ChildDies, Prints, Exit, Die, Control, ChildControl
<1>6. CASE Prints(Lister)
  <2>1. /\ s # <<>> /\ pipe'[Lister] = Append(p, Head(s)) /\ script'[Lister] = Tail(s)
        /\ Whole' = w
    BY <1>1, <1>2, <1>4, <1>6 DEF Prints, Whole
  <2>2. /\ Printed(store, Append(p, Head(s)), Tail(s), w)
        /\ Unheard(pc, Append(p, Head(s)), Tail(s)) = u
    <3>1. /\ Printed(store, Append(p, Head(s)), Tail(s), w)
          /\ Names(Append(p, Head(s))) \cup Names(Tail(s)) = Names(p) \cup Names(s)
      BY <1>3, <2>1, PrintedMoves
    <3> QED BY <1>1, <3>1 DEF Unheard
  <2> QED BY <1>1, <1>2, <1>3, <2>1, <2>2, ListingIs
<1>7. CASE Exit(Lister)
  <2>1. pipe'[Lister] = p /\ script'[Lister] = s /\ (Whole' => w)
    BY <1>1, <1>2, <1>5, <1>7 DEF Exit, Whole
  <2>2. Counted(store, Unheard(pc, p, s), n, w) /\ main' = pc /\ total' = n /\ store' = store
    BY <1>1, <1>2, <1>3
  <2>3. w \/ ~Whole'
    BY <1>3, <2>1
  <2> QED BY ONLY <1>3, <2>1, <2>2, <2>3, ListingIs
<1>8. CASE ChildDies(Lister)
  <2>1. PICK part \in Cuts(Lister) : Die(Lister, part)
    BY <1>8 DEF ChildDies
  <2>2. /\ pipe'[Lister] = p \o part /\ script'[Lister] = <<>> /\ ~Whole'
        /\ part # <<>> => s # <<>>
    BY <1>1, <1>4, <2>1 DEF Die, Whole, Control, ChildControl
  <2>3. ASSUME NEW q, Printed(store, q, <<>>, FALSE), Names(q) \subseteq Names(p) \cup Names(s),
               pipe'[Lister] = q
        PROVE  Listing'
    <3>1. Unheard(pc, q, <<>>) \in SUBSET u
      BY <1>1, <1>3, <2>3, NamesOf DEF Unheard
    <3>2. Counted(store, Unheard(pc, q, <<>>), n, FALSE)
      BY <1>3, <3>1, CountedLess
    <3> QED BY <1>1, <1>2, <2>2, <2>3, <3>2, ListingIs
  <2>4. CASE part = <<>>
    <3>1. p \o part = p
      BY <1>3, <2>4, ConcatEmptySeq
    <3>2. Printed(store, p, <<>>, FALSE)
      BY <1>3, NamesOf DEF Printed
    <3> QED BY <2>2, <2>3, <3>1, <3>2
  <2>5. CASE part # <<>>
    <3>1. PICK h : h = Head(s)
      OBVIOUS
    <3>2. h \in ListToken /\ h.object \in Names(s)
      BY <1>3, <2>2, <2>5, <3>1, NamesTail
    <3>3. PICK k \in 0..h.size : part = <<Line(h.object, h.type, k)>>
      BY <1>1, <2>1, <2>5, <3>1 DEF Cuts
    <3>4. PICK x : x = Line(h.object, h.type, k)
      OBVIOUS
    <3>5. x \in ListToken /\ x.object = h.object
      BY <3>2, <3>3, <3>4 DEF Line, ListToken
    <3>6. p \o part = Append(p, x)
      BY <1>3, <3>3, <3>4, <3>5
    <3>7. Names(Append(p, x)) = Names(p) \cup {x.object}
          /\ (Distinct(p) /\ x.object \notin Names(p) => Distinct(Append(p, x)))
      BY <1>3, <3>5, NamesAppend
    <3>8. Printed(store, Append(p, x), <<>>, FALSE)
      BY <1>3, <3>2, <3>5, <3>7, NamesOf DEF Printed
    <3> QED BY <2>2, <2>3, <3>2, <3>5, <3>6, <3>7, <3>8
  <2> QED BY <2>4, <2>5
<1> QED BY <1>6, <1>7, <1>8 DEF ChildStep

(* Every step keeps account of the listing.                                *)
LEMMA ListingStep ==
  ASSUME Inv, Listing, Control, Next
  PROVE  Listing'
<1>1. PICK p, s, n, w, pc :
        /\ p = pipe[Lister] /\ s = script[Lister] /\ n = total /\ w = Whole /\ pc = main
  OBVIOUS
<1>2. /\ p \in Seq(ListToken) /\ s \in Seq(ListToken) /\ w \in BOOLEAN
      /\ Unheard(pc, p, s) \subseteq Objects /\ Names(p) \subseteq Objects
      /\ Printed(store, p, s, w) /\ Counted(store, Unheard(pc, p, s), n, w)
  BY <1>1, ListingFacts
<1>3. CASE StopListing /\ main # "start"
  <2>1. /\ pipe'[Lister] = p /\ script'[Lister] = <<>> /\ main' = "reap" /\ ~Whole'
        /\ store' = store /\ total' = n
    BY <1>1, <1>3, StoreFacts DEF StopListing, Kill, Whole, Inv, FeedTypeOK
  <2>2. Unheard("reap", p, <<>>) \in SUBSET Unheard(pc, p, s)
    BY <1>1, <1>2, <1>3, NamesOf DEF Unheard
  <2>3. Counted(store, Unheard("reap", p, <<>>), n, FALSE)
    BY <1>2, <2>2, CountedLess
  <2>4. Printed(store, p, <<>>, FALSE)
    BY <1>2, NamesOf DEF Printed
  <2> QED BY <1>2, <2>1, <2>3, <2>4, ListingIs
<1>4. CASE Offer \/ ScanEnd \/ ListReap \/ CloseBlobs \/ FeedReturn
  <2>1. /\ pipe'[Lister] = p /\ script'[Lister] = s /\ main' # "start" /\ main # "start"
        /\ store' = store /\ total' = n /\ (Whole' => w)
    <3>1. Whole' => Whole
      BY <1>4 DEF Offer, ScanEnd, ListReap, CloseBlobs, FeedReturn, childVars, Whole
    <3>2. /\ UNCHANGED <<childVars, store, total>> /\ main' # "start" /\ main # "start"
      BY <1>4 DEF Offer, ScanEnd, ListReap, CloseBlobs, FeedReturn
    <3> QED BY <1>1, <1>2, <3>1, <3>2 DEF childVars
  <2>2. Unheard(main', p, s) = Unheard(pc, p, s)
    BY <1>1, <2>1 DEF Unheard
  <2>3. PICK pd : pd = main'
    OBVIOUS
  <2>4. Counted(store, Unheard(pd, p, s), n, w)
    BY <1>2, <2>2, <2>3
  <2>5. w \/ ~Whole'
    BY <1>2, <2>1
  <2> QED BY ONLY <1>2, <2>1, <2>3, <2>4, <2>5, ListingIs
<1>5. CASE \/ \E r \in Readers : ReaderStep(r) \/ ReaderStartFails(r)
           \/ \E c \in Readers : ChildStep(c) \/ ChildDies(c)
           \/ Done
  <2>1. UNCHANGED <<store, main, listErr, total>>
    BY <1>5 DEF ReaderStep, ReaderStart, ReaderStartFails, Ask, AskFails, ReadHeader, ReadBody,
                SkipLF, ReadFails, UseAnswer, Drained, ReaderReap, mainVars, listVars, ChildStep,
                ChildDies, Done, vars
  <2>2. \A c \in Readers : c # Lister /\ c \in Children
    BY StoreFacts DEF Inv
  <2>3. /\ pipe'[Lister] = pipe[Lister] /\ script'[Lister] = script[Lister]
        /\ child'[Lister] = child[Lister]
    <3>1. CASE \E r \in Readers : ReaderStep(r) \/ ReaderStartFails(r)
      BY <2>2, <3>1, StoreFacts
        DEF ReaderStep, ReaderStart, ReaderStartFails, Ask, AskFails, ReadHeader, ReadBody,
            SkipLF, ReadFails, UseAnswer, Drained, ReaderReap, Start, ReadFrom, childVars,
            Inv, FeedTypeOK, Control, ChildControl
    <3>2. CASE \E c \in Readers : ChildStep(c) \/ ChildDies(c)
      BY <2>2, <3>2, StoreFacts
        DEF ChildStep, ChildDies, Prints, Exit, Die, Inv, FeedTypeOK, Control, ChildControl
    <3>3. CASE Done
      BY <3>3 DEF Done, vars, childVars
    <3> QED BY <1>5, <3>1, <3>2, <3>3
  <2> QED BY <2>1, <2>3, ListingApart
<1>6. \A c \in Children : c \in Readers \/ c = Lister
  BY FeedAssumption
<1>7. (ScanFails \/ OfferCancelled) => StopListing /\ main # "start"
  BY DEF ScanFails, OfferCancelled
<1> QED BY <1>3, <1>4, <1>5, <1>6, <1>7, ListingStarts, ListingScanned, ListingPrinted
     DEF Next, MainStep

-----------------------------------------------------------------------------
(* Control.                                                                *)

(* A step of a reader, or of its child, leaves the caller alone.           *)
LEMMA ReaderFrame ==
  ASSUME Inv, Control, NEW r \in Readers,
         ReaderStep(r) \/ ReaderStartFails(r) \/ ChildStep(r) \/ ChildDies(r)
  PROVE  /\ UNCHANGED <<store, mainVars>>
         /\ pipe'[Lister] = pipe[Lister] /\ script'[Lister] = script[Lister]
         /\ child'[Lister] = child[Lister]
<1>1. r # Lister /\ r \in Children
  BY StoreFacts DEF Inv
<1>2. CASE ReaderStep(r) \/ ReaderStartFails(r)
  BY <1>1, <1>2, StoreFacts
    DEF ReaderStep, ReaderStart, ReaderStartFails, Ask, AskFails, ReadHeader, ReadBody, SkipLF,
        ReadFails, UseAnswer, Drained, ReaderReap, Start, ReadFrom, childVars, mainVars,
        Inv, FeedTypeOK, Control, ChildControl
<1>3. CASE ChildStep(r) \/ ChildDies(r)
  BY <1>1, <1>3, StoreFacts
    DEF ChildStep, ChildDies, Prints, Exit, Die, mainVars, listVars, Inv, FeedTypeOK, Control,
        ChildControl
<1> QED BY <1>2, <1>3

(* Whose step it is.                                                       *)
LEMMA Steps ==
  ASSUME Next
  PROVE  \/ MainStep \/ ListStartFails \/ ScanFails
         \/ \E r \in Readers : ReaderStep(r) \/ ReaderStartFails(r) \/ ChildStep(r) \/ ChildDies(r)
         \/ ChildStep(Lister) \/ ChildDies(Lister)
         \/ Done
BY FeedAssumption DEF Next

(* No pipe is overfull, and a child that has ended has no more to say.     *)
LEMMA ChildControlStep ==
  ASSUME Inv, Control, Next
  PROVE  ChildControl'
<1> USE DEF ChildControl
<1>1. /\ child \in [Children -> {"none", "running", "exited", "died"}]
      /\ pipe \in [Children -> Seq(Token)] /\ script \in [Children -> Seq(Token)]
      /\ Lister \in Children /\ Readers \subseteq Children /\ PipeCap \in Nat
      /\ \A c \in Children : Len(pipe[c]) <= PipeCap /\ Len(pipe[c]) \in Nat
      /\ \A c \in Children : child[c] # "running" => script[c] = <<>>
  BY StoreFacts, ChildAssumption DEF Inv, FeedTypeOK, Control
<1>2. ASSUME NEW c \in Children, pipe[c] # <<>>
      PROVE  Len(Tail(pipe[c])) <= PipeCap
  BY <1>1, <1>2, HeadTailProperties, EmptySeq
<1>3. CASE UNCHANGED childVars
  BY <1>1, <1>3 DEF childVars
<1>4. CASE \E c \in Children : Prints(c) \/ Exit(c)
  <2>1. PICK c \in Children : Prints(c) \/ Exit(c)
    BY <1>4
  <2>2. CASE Prints(c)
    <3>1. /\ child' = child /\ child[c] = "running"
          /\ pipe' = [pipe EXCEPT ![c] = Append(pipe[c], Head(script[c]))]
          /\ script' = [script EXCEPT ![c] = Tail(script[c])]
          /\ Len(pipe[c]) < PipeCap
      BY <2>2 DEF Prints
    <3>2. Len(Append(pipe[c], Head(script[c]))) <= PipeCap
      BY <1>1, <3>1
    <3> QED BY <1>1, <3>1, <3>2
  <2>3. CASE Exit(c)
    BY <1>1, <2>3 DEF Exit
  <2> QED BY <2>1, <2>2, <2>3
<1>5. CASE \E c \in Children : ChildDies(c)
  <2>1. PICK c \in Children : \E part \in Cuts(c) : Die(c, part)
    BY <1>5 DEF ChildDies
  <2> PICK part \in Cuts(c) : Die(c, part)
    BY <2>1
  <2>2. /\ child' = [child EXCEPT ![c] = "died"]
        /\ script' = [script EXCEPT ![c] = <<>>]
        /\ pipe' = [pipe EXCEPT ![c] = pipe[c] \o part]
        /\ part # <<>> => script[c] # <<>> /\ Len(pipe[c]) < PipeCap
    BY DEF Die
  <2>3. Len(pipe[c] \o part) <= PipeCap
    <3>1. CASE part = <<>>
      BY <1>1, <3>1, ConcatEmptySeq
    <3>2. CASE part # <<>>
      <4>1. PICK x : part = <<x>>
        BY <3>2 DEF Cuts
      <4> QED BY <1>1, <2>2, <3>2, <4>1
    <3> QED BY <3>1, <3>2
  <2> QED BY <1>1, <2>2, <2>3
<1>6. CASE \E c \in Children : /\ pipe[c] # <<>> /\ ReadFrom(c)
                               /\ UNCHANGED <<child, script>>
  <2>1. PICK c \in Children : /\ pipe[c] # <<>> /\ pipe' = [pipe EXCEPT ![c] = Tail(pipe[c])]
                              /\ UNCHANGED <<child, script>>
    BY <1>6 DEF ReadFrom
  <2> QED BY <1>1, <1>2, <2>1
<1>7. CASE ListStart \/ \E r \in Readers : ReaderStart(r)
  BY <1>1, <1>7 DEF ListStart, ReaderStart, Start
<1>8. CASE StopListing
  BY <1>1, <1>8 DEF StopListing, Kill
<1>9. ASSUME NEW r \in Readers, Ask(r)
      PROVE  ChildControl'
  <2>1. PICK s : script' = [script EXCEPT ![r] = s]
    BY <1>9 DEF Ask
  <2>2. UNCHANGED <<child, pipe>> /\ child[r] = "running"
    BY <1>9 DEF Ask
  <2> QED BY <1>1, <2>1, <2>2
<1>10. CASE MainStep \/ ListStartFails \/ ScanFails \/ Done
  <2>1. \/ UNCHANGED childVars \/ ListStart \/ StopListing
        \/ pipe[Lister] # <<>> /\ ReadFrom(Lister) /\ UNCHANGED <<child, script>>
    BY <1>10 DEF MainStep, ListStartFails, ScanFails, Scan, Offer, OfferCancelled, ScanEnd,
                 ListReap, CloseBlobs, FeedReturn, Done, vars
  <2> QED BY <1>1, <1>3, <1>6, <1>7, <1>8, <2>1
<1>11. ASSUME NEW r \in Readers, ReaderStep(r) \/ ReaderStartFails(r)
       PROVE  ChildControl'
  <2>1. \/ UNCHANGED childVars \/ ReaderStart(r) \/ Ask(r)
        \/ pipe[r] # <<>> /\ ReadFrom(r) /\ UNCHANGED <<child, script>>
    BY <1>11 DEF ReaderStep, ReaderStartFails, AskFails, ReadHeader, ReadBody, SkipLF, ReadFails,
                 UseAnswer, Drained, ReaderReap
  <2> QED BY <1>1, <1>3, <1>6, <1>7, <1>9, <2>1
<1>12. CASE \E c \in Children : ChildStep(c) \/ ChildDies(c)
  BY <1>4, <1>5, <1>12 DEF ChildStep
<1> QED BY <1>10, <1>11, <1>12 DEF Next

(* Nobody adds to a count it is not part of: a reader reports once.        *)
LEMMA ReaderControlStep ==
  ASSUME Inv, Control, Next
  PROVE  ReaderControl'
<1> USE DEF ReaderControl
<1>1. /\ errs \in Nat /\ errs <= Cardinality(Leaving(reader))
      /\ \A r \in Readers : reader[r] \in {"close", "done"} /\ errs = 0 =>
           blobsClosed /\ blobs = <<>>
      /\ DOMAIN sent \subseteq Objects /\ skipped \subseteq Objects
      /\ blobsClosed <=> main \in {"wait", "returned"}
      /\ reader \in [Readers -> {"start", "take", "header", "body", "lf", "answered", "close",
                                 "done"}]
      /\ \A r \in Readers : Pending(r) => asked[r] \in Objects
  BY DEF Control, MainControl, Inv, FeedTypeOK
<1>2. CASE UNCHANGED <<reader, errs, blobsClosed, blobs, resultVars>>
  BY <1>1, <1>2 DEF resultVars, Leaving
<1>3. CASE MainStep \/ ListStartFails \/ ScanFails
  <2>1. UNCHANGED <<reader, errs, sent>>
    BY <1>3 DEF MainStep, ListStart, Scan, Offer, OfferCancelled, ScanEnd, ListReap, CloseBlobs,
                FeedReturn, ListStartFails, ScanFails, StopListing, readerVars, failVars,
                resultVars
  <2>2. skipped' \subseteq Objects
    <3>1. CASE Scan
      <4>1. pipe[Lister] \in Seq(ListToken) /\ pipe[Lister] # <<>>
        BY <3>1 DEF Scan, Inv, FeedTypeOK
      <4>2. Head(pipe[Lister]).object \in Objects
        <5>1. Head(pipe[Lister]) \in ListToken
          BY <4>1, HeadTailProperties
        <5> QED BY <5>1 DEF ListToken
      <4>3. skipped' = skipped \/ skipped' = skipped \cup {Head(pipe[Lister]).object}
        BY <3>1 DEF Scan
      <4> QED BY <1>1, <4>2, <4>3
    <3>2. CASE ~Scan
      BY <1>1, <1>3, <3>2
        DEF MainStep, ListStart, Offer, OfferCancelled, ScanEnd, ListReap, CloseBlobs,
            FeedReturn, ListStartFails, ScanFails, StopListing, resultVars
    <3> QED BY <3>1, <3>2
  <2>3. \/ UNCHANGED <<blobs, blobsClosed>>
        \/ blobs' = blobs /\ blobsClosed'
        \/ main = "offer" /\ blobsClosed' = blobsClosed
    BY <1>3 DEF MainStep, ListStart, Scan, Offer, OfferCancelled, ScanEnd, ListReap, CloseBlobs,
                FeedReturn, ListStartFails, ScanFails, StopListing
  <2> QED BY <1>1, <2>1, <2>2, <2>3
<1>4. ASSUME NEW r \in Readers, ReaderStep(r) \/ ReaderStartFails(r)
      PROVE  ReaderControl'
  <2>1. PICK pc : reader' = [reader EXCEPT ![r] = pc]
    BY <1>4 DEF ReaderStep, ReaderStart, ReaderStartFails, Ask, AskFails, ReadHeader, ReadBody,
                SkipLF, ReadFails, UseAnswer, Drained, ReaderReap, GoTo, Report
  <2>2. /\ blobsClosed' = blobsClosed
        /\ \/ errs' = errs /\ (reader[r] \in {"close", "done"} => pc \in {"close", "done"})
              /\ (pc \in {"close", "done"} /\ reader[r] \notin {"close", "done"} =>
                    blobs = <<>> /\ blobsClosed)
           \/ /\ errs' = errs + 1 /\ pc \in {"close", "done"}
              /\ reader[r] \notin {"close", "done"}
    BY <1>1, <1>4, <2>1 DEF ReaderStep, ReaderStart, ReaderStartFails, Ask, AskFails, ReadHeader,
       ReadBody, SkipLF, ReadFails, UseAnswer, Drained, ReaderReap, GoTo, Report, mainVars,
       failVars
  <2>3. DOMAIN sent' \subseteq Objects /\ skipped' \subseteq Objects
    <3>1. CASE UseAnswer(r)
      <4>1. asked[r] \in Objects
        BY <1>1, <3>1 DEF UseAnswer, Pending
      <4> QED BY <1>1, <3>1, <4>1 DEF UseAnswer, resultVars
    <3>2. CASE ~UseAnswer(r)
      BY <1>1, <1>4, <3>2
        DEF ReaderStep, ReaderStart, ReaderStartFails, Ask, AskFails, ReadHeader, ReadBody,
            SkipLF, ReadFails, Drained, ReaderReap, resultVars
    <3> QED BY <3>1, <3>2
  <2>4. \/ blobs' = blobs
        \/ blobs # <<>>
    BY <1>4 DEF ReaderStep, ReaderStart, ReaderStartFails, Ask, AskFails, ReadHeader, ReadBody,
       SkipLF, ReadFails, UseAnswer, Drained, ReaderReap
  <2>5. /\ errs' \in Nat /\ errs' <= Cardinality(Leaving(reader'))
    <3>1. IsFiniteSet(Leaving(reader)) /\ IsFiniteSet(Leaving(reader'))
      <4>1. Leaving(reader) \subseteq Readers /\ Leaving(reader') \subseteq Readers
        BY DEF Leaving
      <4> QED BY <4>1, FS_Subset, FeedAssumption
    <3>2. Cardinality(Leaving(reader)) \in Nat /\ Cardinality(Leaving(reader')) \in Nat
      BY <3>1, FS_CardinalityType
    <3>3. CASE errs' = errs /\ (reader[r] \in {"close", "done"} => pc \in {"close", "done"})
      <4>1. Leaving(reader) \subseteq Leaving(reader')
        BY <1>1, <2>1, <3>3 DEF Leaving
      <4>2. Cardinality(Leaving(reader)) <= Cardinality(Leaving(reader'))
        BY <3>1, <4>1, FS_Subset
      <4> QED BY <1>1, <3>2, <3>3, <4>2
    <3>4. CASE /\ errs' = errs + 1 /\ pc \in {"close", "done"}
               /\ reader[r] \notin {"close", "done"}
      <4>1. Leaving(reader') = Leaving(reader) \cup {r} /\ r \notin Leaving(reader)
        BY <1>1, <2>1, <3>4 DEF Leaving
      <4>2. Cardinality(Leaving(reader')) = Cardinality(Leaving(reader)) + 1
        BY <3>1, <4>1, FS_AddElement
      <4> QED BY <1>1, <3>2, <3>4, <4>2
    <3> QED BY <2>2, <3>3, <3>4
  <2>6. \A q \in Readers : reader'[q] \in {"close", "done"} /\ errs' = 0 =>
          blobsClosed' /\ blobs' = <<>>
    <3> SUFFICES ASSUME NEW q \in Readers, reader'[q] \in {"close", "done"}, errs' = 0
                 PROVE  blobsClosed' /\ blobs' = <<>>
      OBVIOUS
    <3>1. /\ errs = 0
          /\ reader[r] \in {"close", "done"} => pc \in {"close", "done"}
          /\ pc \in {"close", "done"} /\ reader[r] \notin {"close", "done"} =>
               blobs = <<>> /\ blobsClosed
      BY <1>1, <2>2
    <3>2. q # r => reader[q] = reader'[q]
      BY <1>1, <2>1
    <3>3. q = r => reader'[q] = pc
      BY <1>1, <2>1
    <3>4. blobsClosed /\ blobs = <<>>
      BY <1>1, <3>1, <3>2, <3>3
    <3> QED BY <2>2, <2>4, <3>4
  <2> QED BY <2>3, <2>5, <2>6
<1>5. ASSUME NEW c \in Children, ChildStep(c) \/ ChildDies(c)
      PROVE  ReaderControl'
  BY <1>2, <1>5 DEF ChildStep, ChildDies, readerVars, failVars
<1>6. CASE Done
  BY <1>2, <1>6 DEF Done, vars, readerVars, failVars
<1> QED BY <1>3, <1>4, <1>5, <1>6 DEF Next

(* The caller goes on only from a child that has ended, and well unless    *)
(* the error is on record.                                                 *)
LEMMA MainControlStep ==
  ASSUME Inv, Control, Next
  PROVE  MainControl'
<1> USE DEF MainControl
<1>1. MainControl
  BY DEF Control
<1>2. /\ child \in [Children -> {"none", "running", "exited", "died"}]
      /\ Lister \in Children /\ Lister \notin Readers
      /\ pipe \in [Children -> Seq(Token)] /\ BlobsCap \in Nat /\ NoObject \notin Objects
      /\ blobs \in Seq(Objects) /\ offered \in Objects \cup {NoObject}
  BY StoreFacts, FeedAssumption DEF Control, ChildControl, Inv, FeedTypeOK
<1>3. CASE ListStart
  BY <1>1, <1>2, <1>3 DEF ListStart, Start, readerVars, failVars
<1>4. CASE Scan
  <2>1. pipe[Lister] \in Seq(ListToken) /\ pipe[Lister] # <<>>
    BY <1>4 DEF Scan, Inv, FeedTypeOK
  <2>2. PICK x : x = Head(pipe[Lister])
    OBVIOUS
  <2>3. x.object \in Objects
    <3>1. x \in ListToken
      BY <2>1, <2>2, HeadTailProperties
    <3> QED BY <3>1 DEF ListToken
  <2>4. /\ main = "scan" /\ UNCHANGED <<store, child, listErr, cancelled, blobs, blobsClosed,
                                       outcome, errs, reader>>
        /\ \/ UNCHANGED <<main, offered>>
           \/ main' = "offer" /\ offered' = x.object
    BY <1>4, <2>2 DEF Scan, readerVars, failVars
  <2> QED BY <1>1, <1>2, <2>3, <2>4
<1>5. CASE Offer
  <2>1. Len(Append(blobs, offered)) <= BlobsCap
    BY <1>1, <1>2, <1>5 DEF Offer
  <2>2. /\ main = "offer" /\ main' = "scan" /\ offered' = NoObject
        /\ blobs' = Append(blobs, offered)
        /\ UNCHANGED <<store, listErr, cancelled, blobsClosed, outcome, errs, reader>>
    BY <1>5 DEF Offer, readerVars, failVars
  <2> QED BY <1>1, <2>1, <2>2
<1>6. CASE StopListing /\ main \in {"scan", "offer"}
  <2>1. /\ main' = "reap" /\ offered' = NoObject /\ listErr'
        /\ UNCHANGED <<store, cancelled, blobs, blobsClosed, outcome, errs, reader>>
    BY <1>6 DEF StopListing, readerVars, failVars
  <2>2. listErr' = TRUE
    BY <1>6 DEF StopListing
  <2> QED BY <1>1, <1>6, <2>1, <2>2
<1>7. CASE ScanEnd \/ ListReap \/ CloseBlobs \/ ListStartFails
  <2>1. UNCHANGED <<store, child, pipe, offered, cancelled, blobs, outcome, errs, reader>>
    BY <1>7 DEF ScanEnd, ListReap, CloseBlobs, ListStartFails, childVars, readerVars, failVars
  <2>2. AtEOF(Lister)' <=> AtEOF(Lister)
    BY <2>1 DEF AtEOF, Ended
  <2>3. CASE ScanEnd
    BY <1>1, <2>1, <2>2, <2>3 DEF ScanEnd
  <2>4. CASE ListReap
    <3>1. listErr' \in BOOLEAN
      BY <1>1, <2>4 DEF ListReap
    <3> QED BY <1>1, <2>1, <2>2, <2>4, <3>1 DEF ListReap
  <2>5. CASE CloseBlobs
    BY <1>1, <2>1, <2>2, <2>5 DEF CloseBlobs
  <2>6. CASE ListStartFails
    BY <1>1, <2>1, <2>2, <2>6 DEF ListStartFails
  <2> QED BY <1>7, <2>3, <2>4, <2>5, <2>6
<1>8. CASE FeedReturn
  BY <1>1, <1>2, <1>8 DEF FeedReturn, childVars, readerVars, failVars, AtEOF, Ended, Control,
                          ReaderControl
<1>9. ASSUME NEW r \in Readers,
             ReaderStep(r) \/ ReaderStartFails(r) \/ ChildStep(r) \/ ChildDies(r)
      PROVE  MainControl'
  <2>1. /\ UNCHANGED <<store, mainVars>>
        /\ pipe'[Lister] = pipe[Lister] /\ child'[Lister] = child[Lister]
    BY <1>9, ReaderFrame
  <2>2. AtEOF(Lister)' <=> AtEOF(Lister)
    BY <2>1 DEF AtEOF, Ended
  <2>3. cancelled' \in BOOLEAN /\ Len(blobs') <= BlobsCap
    <3>1. cancelled' \in BOOLEAN
      BY <1>1, <1>9 DEF ReaderStep, ReaderStart, ReaderStartFails, Ask, AskFails, ReadHeader,
         ReadBody, SkipLF, ReadFails, UseAnswer, Drained, ReaderReap, Report, ChildStep,
         ChildDies, failVars
    <3>2. blobs' = blobs \/ (blobs # <<>> /\ blobs' = Tail(blobs))
      BY <1>9 DEF ReaderStep, ReaderStart, ReaderStartFails, Ask, AskFails, ReadHeader,
         ReadBody, SkipLF, ReadFails, UseAnswer, Drained, ReaderReap, Report, ChildStep,
         ChildDies
    <3>3. blobs # <<>> => Len(Tail(blobs)) <= BlobsCap
      BY <1>1, <1>2, HeadTailProperties, EmptySeq
    <3> QED BY <1>1, <3>1, <3>2, <3>3
  <2>4. outcome = "ok" => errs' = errs /\ reader' = reader
    <3> SUFFICES ASSUME outcome = "ok"
                 PROVE  errs' = errs /\ reader' = reader
      OBVIOUS
    <3>1. reader[r] = "done"
      BY <1>1
    <3> QED BY <1>9, <3>1 DEF ReaderStep, ReaderStart, ReaderStartFails, Ask, AskFails, ReadHeader,
         ReadBody, SkipLF, ReadFails, UseAnswer, Drained, ReaderReap, ChildStep, ChildDies,
         readerVars, failVars
  <2> QED BY <1>1, <2>1, <2>2, <2>3, <2>4 DEF mainVars, listVars
<1>10. CASE ChildStep(Lister) \/ ChildDies(Lister)
  <2>1. /\ UNCHANGED <<store, listVars, blobs, blobsClosed, readerVars, failVars>>
        /\ child[Lister] = "running"
    BY <1>10 DEF ChildStep, ChildDies, Prints, Exit, Die
  <2>2. ~AtEOF(Lister)
    BY <2>1 DEF AtEOF, Ended
  <2> QED BY <1>1, <2>1, <2>2 DEF listVars, readerVars, failVars
<1>11. CASE Done
  BY <1>1, <1>11 DEF Done, vars, childVars, listVars, readerVars, failVars, AtEOF, Ended
<1> QED BY <1>3, <1>4, <1>5, <1>6, <1>7, <1>8, <1>9, <1>10, <1>11, Steps
     DEF MainStep, ScanFails, OfferCancelled

(* The control part of the invariant.                                      *)
LEMMA ControlStep ==
  ASSUME Inv, Control, Next
  PROVE  Control'
BY MainControlStep, ChildControlStep, ReaderControlStep DEF Control

-----------------------------------------------------------------------------
(* The account.                                                            *)

(* A blob joins the queue, or leaves it.                                   *)
LEMMA QueueMoves ==
  ASSUME NEW b \in Seq(Objects)
  PROVE  /\ Queued(b) \subseteq Objects
         /\ \A o \in Objects : Queued(Append(b, o)) = Queued(b) \cup {o}
         /\ b # <<>> => Head(b) \in Objects /\ Queued(b) = {Head(b)} \cup Queued(Tail(b))
<1>1. PICK n \in Nat : n = Len(b)
  OBVIOUS
<1>2. ASSUME NEW o \in Objects
      PROVE  Queued(Append(b, o)) = Queued(b) \cup {o}
  <2>1. PICK a : a = Append(b, o)
    OBVIOUS
  <2>2. /\ Len(a) = n + 1 /\ a[n + 1] = o /\ \A i \in 1..n : a[i] = b[i]
        /\ \A i \in 1..(n + 1) : i = n + 1 \/ i \in 1..n
        /\ \A i \in 1..n : i \in 1..(n + 1)
        /\ n + 1 \in 1..(n + 1)
    BY <1>1, <2>1
  <2>3. Queued(a) = Queued(b) \cup {o}
    BY <1>1, <2>2 DEF Queued
  <2> QED BY <2>1, <2>3
<1>3. ASSUME b # <<>>
      PROVE  Head(b) \in Objects /\ Queued(b) = {Head(b)} \cup Queued(Tail(b))
  <2>1. n - 1 \in Nat
    BY <1>1, <1>3, EmptySeq
  <2> PICK t, m : t = Tail(b) /\ m = n - 1
    OBVIOUS
  <2>2. /\ Head(b) \in Objects /\ Head(b) = b[1] /\ Len(t) = m /\ n = m + 1
        /\ \A i \in 1..m : t[i] = b[i + 1]
    BY <1>1, <1>3, <2>1, HeadTailProperties
  <2>3. /\ \A i \in 1..n : i = 1 \/ (i - 1 \in 1..m /\ (i - 1) + 1 = i)
        /\ \A i \in 1..m : i + 1 \in 1..n
        /\ 1 \in 1..n
    BY <2>2
  <2>4. \A e \in Queued(b) : e = Head(b) \/ e \in Queued(t)
    <3> SUFFICES ASSUME NEW i \in 1..n
                 PROVE  b[i] = Head(b) \/ b[i] \in Queued(t)
      BY <1>1 DEF Queued
    <3>1. i # 1 => t[i - 1] = b[i] /\ i - 1 \in 1..m
      BY <2>2, <2>3
    <3> QED BY <2>2, <3>1 DEF Queued
  <2>5. \A e \in Queued(t) : e \in Queued(b)
    BY <1>1, <2>2, <2>3 DEF Queued
  <2>6. Head(b) \in Queued(b)
    BY <1>1, <2>2, <2>3 DEF Queued
  <2> QED BY <2>2, <2>4, <2>5, <2>6
<1>4. Queued(b) \subseteq Objects
  BY DEF Queued
<1> QED BY <1>2, <1>3, <1>4

(* What is wrong stays wrong.                                              *)
LEMMA WellBefore ==
  ASSUME Inv, Control, Next, Whole', errs' = 0
  PROVE  Whole /\ errs = 0
<1>1. errs \in Nat /\ child \in [Children -> {"none", "running", "exited", "died"}]
      /\ Lister \in Children
  BY StoreFacts DEF Control, ReaderControl, ChildControl, Inv
<1>2. CASE MainStep \/ ListStartFails \/ ScanFails
  <2>1. errs' = errs
    BY <1>2 DEF MainStep, ListStart, Scan, Offer, OfferCancelled, ScanEnd, ListReap, CloseBlobs,
                FeedReturn, ListStartFails, ScanFails, StopListing, failVars
  <2>2. Whole
    <3>1. CASE ListStart
      BY <3>1 DEF ListStart, Control, MainControl, Whole
    <3>2. CASE StopListing
      BY <3>2 DEF StopListing, Whole
    <3>3. CASE Scan \/ Offer \/ ScanEnd \/ CloseBlobs \/ FeedReturn
      BY <3>3 DEF Scan, Offer, ScanEnd, CloseBlobs, FeedReturn, Whole, childVars
    <3>4. CASE ListReap
      <4>1. listErr' <=> listErr \/ child[Lister] = "died"
        BY <3>4 DEF ListReap
      <4> QED BY <4>1 DEF Whole
    <3>5. CASE ListStartFails
      BY <3>5 DEF ListStartFails, Whole
    <3> QED BY <1>2, <3>1, <3>2, <3>3, <3>4, <3>5 DEF MainStep, ScanFails, OfferCancelled
  <2> QED BY <2>1, <2>2
<1>3. ASSUME NEW r \in Readers,
             ReaderStep(r) \/ ReaderStartFails(r) \/ ChildStep(r) \/ ChildDies(r)
      PROVE  Whole /\ errs = 0
  <2>1. errs' = errs \/ errs' = errs + 1
    BY <1>3 DEF ReaderStep, ReaderStart, ReaderStartFails, Ask, AskFails, ReadHeader,
       ReadBody, SkipLF, ReadFails, UseAnswer, Drained, ReaderReap, Report, ChildStep,
       ChildDies, failVars
  <2>2. child'[Lister] = child[Lister] /\ listErr' = listErr
    BY <1>3, ReaderFrame DEF mainVars, listVars
  <2> QED BY <1>1, <2>1, <2>2 DEF Whole
<1>4. CASE ChildStep(Lister) \/ ChildDies(Lister)
  BY <1>4 DEF ChildStep, ChildDies, Prints, Exit, Die, Whole, listVars, failVars
<1>5. CASE Done
  BY <1>5 DEF Done, vars, childVars, listVars, failVars, Whole
<1> QED BY <1>2, <1>3, <1>4, <1>5, Steps

(* Blobs change hands.                                                     *)
LEMMA BalanceMoves ==
  ASSUME NEW st, NEW u, NEW h, NEW snt, NEW skp, Balance(st, u, h, snt, skp),
         NEW v, NEW g, g \subseteq Wanted(st),
         \A o \in Listed(st) : o \in u \/ o \in h => o \in v \/ o \in g
  PROVE  Balance(st, v, g, snt, skp)
BY DEF Balance

(* A blob is passed over.                                                  *)
LEMMA BalanceSkips ==
  ASSUME NEW st, NEW u, NEW h, NEW snt, NEW skp, Balance(st, u, h, snt, skp),
         NEW v, NEW g, NEW o \in (Listed(st) \ Wanted(st)) \cup Large(st), g \subseteq Wanted(st),
         \A x \in Listed(st) : x \in u \/ x \in h => x \in v \/ x \in g \/ x = o
  PROVE  Balance(st, v, g, snt, skp \cup {o})
<1>1. Large(st) \subseteq ServedBlobs(st) /\ ServedBlobs(st) \subseteq Wanted(st)
      /\ Wanted(st) \subseteq Listed(st)
  BY DEF Large, ServedBlobs, Wanted
<1> QED BY <1>1 DEF Balance, Settled

(* A blob turns out to be of no use.                                       *)
LEMMA BalanceDrops ==
  ASSUME NEW st, NEW u, NEW h, NEW snt, NEW skp, Balance(st, u, h, snt, skp),
         NEW v, NEW g, NEW o \in Wanted(st) \ ServedBlobs(st), g \subseteq Wanted(st),
         \A x \in Listed(st) : x \in u \/ x \in h => x \in v \/ x \in g \/ x = o
  PROVE  Balance(st, v, g, snt, skp)
<1>1. Large(st) \subseteq ServedBlobs(st)
  BY DEF Large
<1> QED BY <1>1 DEF Balance, Settled

(* What the queue and the readers hold does not change: the account stands *)
(* unless a line is taken.                                                 *)
LEMMA AccountStands ==
  ASSUME Inv, Control, Accounted, Next, UNCHANGED <<store, sent, skipped>>,
         Unheard(main, pipe[Lister], script[Lister])' = Unheard(main, pipe[Lister], script[Lister]),
         Hands(offered, blobs, reader, asked)' = Hands(offered, blobs, reader, asked)
  PROVE  Accounted'
<1> SUFFICES ASSUME Whole', errs' = 0
             PROVE  Balance(store, Unheard(main, pipe[Lister], script[Lister]),
                            Hands(offered, blobs, reader, asked), sent, skipped)'
  BY DEF Accounted
<1>1. Whole /\ errs = 0
  BY WellBefore
<1> QED BY <1>1 DEF Accounted

(* The blobs in hand, when the caller moves and when a reader does.        *)
LEMMA HandsMove ==
  ASSUME Inv
  PROVE  /\ NoObject \notin Objects
         /\ Queued(blobs) \subseteq Objects
         /\ \A r \in Readers : \A pc, o :
              LET rd == [reader EXCEPT ![r] = pc]
                  as == [asked EXCEPT ![r] = o]
                  rest == {asked[q] : q \in {x \in Readers \ {r} : Pending(x)}}
                  on == pc \in {"header", "body", "lf", "answered"} IN
              /\ Asking(rd, as) = rest \cup (IF on THEN {o} ELSE {})
              /\ Asking(rd, asked) = rest \cup (IF on THEN {asked[r]} ELSE {})
              /\ Asking(reader, asked) = rest \cup (IF Pending(r) THEN {asked[r]} ELSE {})
<1>1. reader \in [Readers -> {"start", "take", "header", "body", "lf", "answered", "close",
                              "done"}]
      /\ asked \in [Readers -> Objects \cup {NoObject}] /\ blobs \in Seq(Objects)
  BY DEF Inv, FeedTypeOK
<1>2. ASSUME NEW r \in Readers, NEW pc, NEW o
      PROVE  LET rd == [reader EXCEPT ![r] = pc]
                 as == [asked EXCEPT ![r] = o]
                 rest == {asked[q] : q \in {x \in Readers \ {r} : Pending(x)}}
                 on == pc \in {"header", "body", "lf", "answered"} IN
             /\ Asking(rd, as) = rest \cup (IF on THEN {o} ELSE {})
             /\ Asking(rd, asked) = rest \cup (IF on THEN {asked[r]} ELSE {})
             /\ Asking(reader, asked) = rest \cup (IF Pending(r) THEN {asked[r]} ELSE {})
  <2>1. PICK rd, as : rd = [reader EXCEPT ![r] = pc] /\ as = [asked EXCEPT ![r] = o]
    OBVIOUS
  <2>2. /\ rd[r] = pc /\ as[r] = o
        /\ \A q \in Readers : q # r => rd[q] = reader[q] /\ as[q] = asked[q]
    BY <1>1, <2>1
  <2>3. PICK rest : rest = {asked[q] : q \in {x \in Readers \ {r} : Pending(x)}}
    OBVIOUS
  <2>4. Asking(rd, as) = rest \cup (IF pc \in {"header", "body", "lf", "answered"} THEN {o} ELSE {})
    BY <2>2, <2>3 DEF Asking, Pending
  <2>5. Asking(rd, asked)
          = rest \cup (IF pc \in {"header", "body", "lf", "answered"} THEN {asked[r]} ELSE {})
    BY <2>2, <2>3 DEF Asking, Pending
  <2>6. Asking(reader, asked) = rest \cup (IF Pending(r) THEN {asked[r]} ELSE {})
    BY <2>3 DEF Asking, Pending
  <2> QED BY <2>1, <2>3, <2>4, <2>5, <2>6
<1> QED BY <1>1, <1>2, QueueMoves, FeedAssumption

(* A line is scanned: its blob is offered, passed over or not read.        *)
LEMMA AccountScanned ==
  ASSUME Inv, Listing, Control, Accounted, Next, Scan
  PROVE  Accounted'
<1> SUFFICES ASSUME Whole', errs' = 0
             PROVE  Balance(store, Unheard(main, pipe[Lister], script[Lister]),
                            Hands(offered, blobs, reader, asked), sent, skipped)'
  BY DEF Accounted
<1>1. PICK p, s, u, x, o, h, st, snt, skp :
        /\ p = pipe[Lister] /\ s = script[Lister] /\ u = Unheard(main, p, s) /\ x = Head(p)
        /\ o = x.object /\ h = Hands(offered, blobs, reader, asked) /\ st = store
        /\ snt = sent /\ skp = skipped
  OBVIOUS
<1>2. /\ p # <<>> /\ main = "scan" /\ main' \in {"scan", "offer"} /\ store' = store
      /\ pipe'[Lister] = Tail(p) /\ script'[Lister] = s
      /\ UNCHANGED <<blobs, reader, asked, sent>>
  BY <1>1, StoreFacts DEF Scan, ReadFrom, Inv, FeedTypeOK, readerVars
<1>3. /\ \/ x.type # "blob" /\ UNCHANGED <<offered, skipped>>
         \/ x.type = "blob" /\ x.size > Limit /\ skipped' = skp \cup {o} /\ offered' = offered
         \/ x.type = "blob" /\ ~(x.size > Limit) /\ offered' = o /\ skipped' = skipped
  BY <1>1 DEF Scan
<1>4. Whole /\ errs = 0 /\ Balance(st, u, h, snt, skp)
  BY <1>1, WellBefore DEF Accounted
<1>5. /\ p \in Seq(ListToken) /\ s \in Seq(ListToken) /\ TRUE \in BOOLEAN
      /\ Printed(store, p, s, TRUE)
      /\ Names(p) \subseteq Objects /\ Names(s) \subseteq Objects
  BY <1>1, <1>4, ListingFacts DEF Printed
<1>6. /\ Names(Tail(p)) \cup Names(s) = (Names(p) \cup Names(s)) \ {o}
      /\ o \in Names(p) \cup Names(s)
      /\ x = ListLine(st, o)
  <2>1. LET e == Head(p).object IN
        /\ Names(Tail(p)) \cup Names(s) = (Names(p) \cup Names(s)) \ {e}
        /\ e \in Names(p) \cup Names(s)
        /\ Head(p) = ListLine(store, e)
    BY <1>2, <1>5, PrintedRead
  <2> QED BY <1>1, <2>1
<1>7. o \in Objects /\ x.type = st[o].listed.type /\ x.size = st[o].listed.size
      /\ x.size \in Nat /\ Limit \in Nat
  BY <1>1, <1>5, <1>6, StoreFacts, FeedAssumption DEF ListLine, Line, Inv
<1>8. PICK v : v = Unheard(main', Tail(p), s)
  OBVIOUS
<1>9. v = u \ {o} /\ Unheard(main, pipe[Lister], script[Lister])' = v
  BY <1>1, <1>2, <1>6, <1>8 DEF Unheard
<1>10. h \subseteq Wanted(st)
  BY <1>4 DEF Balance
<1>11. offered = NoObject /\ NoObject \notin Objects
  BY <1>2, FeedAssumption DEF Control, MainControl
<1>12. CASE x.type # "blob" /\ UNCHANGED <<offered, skipped>>
  <2>1. o \notin Listed(st) /\ Hands(offered, blobs, reader, asked)' = h
    BY <1>1, <1>2, <1>7, <1>12 DEF Listed
  <2>2. \A e \in Listed(st) : e \in u \/ e \in h => e \in v \/ e \in h
    BY <1>9, <2>1
  <2>3. Balance(st, v, h, snt, skp)
    BY <1>4, <1>10, <2>2, BalanceMoves
  <2> QED BY <1>1, <1>2, <1>9, <1>12, <2>1, <2>3
<1>13. CASE x.type = "blob" /\ x.size > Limit /\ skipped' = skp \cup {o} /\ offered' = offered
  <2>1. o \in (Listed(st) \ Wanted(st)) \cup Large(st)
    <3>1. o \in Listed(st) /\ ~(st[o].listed.size <= Limit)
      <4>1. o \in Listed(st)
        BY <1>7, <1>13 DEF Listed
      <4>2. x.size > Limit
        BY <1>13
      <4>3. ~(x.size <= Limit)
        BY <1>7, <4>2
      <4> QED BY <1>7, <4>1, <4>3
    <3> QED BY <3>1 DEF Wanted
  <2>2. \A e \in Listed(st) : e \in u \/ e \in h => e \in v \/ e \in h \/ e = o
    BY <1>9
  <2>3. Balance(st, v, h, snt, skp \cup {o})
    BY <1>4, <1>10, <2>1, <2>2, BalanceSkips
  <2>4. Hands(offered, blobs, reader, asked)' = h
    BY <1>1, <1>2, <1>13
  <2> QED BY <1>1, <1>2, <1>9, <1>13, <2>3, <2>4
<1>14. CASE x.type = "blob" /\ ~(x.size > Limit) /\ offered' = o /\ skipped' = skipped
  <2>1. PICK g : g = Hands(offered, blobs, reader, asked)'
    OBVIOUS
  <2>2. g = h \cup {o}
    BY <1>1, <1>2, <1>7, <1>11, <1>14, <2>1 DEF Hands
  <2>3. o \in Wanted(st)
    <3>1. o \in Listed(st) /\ st[o].listed.size <= Limit
      <4>1. o \in Listed(st)
        BY <1>7, <1>14 DEF Listed
      <4>2. ~(x.size > Limit)
        BY <1>14
      <4>3. x.size <= Limit
        BY <1>7, <4>2
      <4> QED BY <1>7, <4>1, <4>3
    <3> QED BY <3>1 DEF Wanted
  <2>4. \A e \in Listed(st) : e \in u \/ e \in h => e \in v \/ e \in g
    BY <1>9, <2>2
  <2>5. g \subseteq Wanted(st)
    BY <1>10, <2>2, <2>3
  <2>6. Balance(st, v, g, snt, skp)
    BY <1>4, <2>4, <2>5, BalanceMoves
  <2> QED BY <1>1, <1>2, <1>9, <1>14, <2>1, <2>6
<1> QED BY <1>3, <1>12, <1>13, <1>14

(* The other steps of the caller.                                          *)
LEMMA AccountMain ==
  ASSUME Inv, Listing, Control, Accounted, Next,
         \/ ListStart \/ ListStartFails \/ StopListing \/ Offer
         \/ ScanEnd \/ ListReap \/ CloseBlobs \/ FeedReturn
  PROVE  Accounted'
<1>1. CASE ListStartFails \/ StopListing
  BY <1>1 DEF ListStartFails, StopListing, Accounted, Whole
<1>2. CASE ListStart
  <2>1. PICK order \in SetToSeqs(Objects) :
          Start(Lister, [i \in DOMAIN order |->
                           LET l == store[order[i]].listed IN Line(order[i], l.type, l.size)])
    BY <1>2 DEF ListStart
  <2>2. PICK s : /\ s = [i \in DOMAIN order |->
                           LET l == store[order[i]].listed IN Line(order[i], l.type, l.size)]
                 /\ Names(s) = Objects
    <3>1. store \in StoreType
      BY DEF Inv, FeedTypeOK
    <3> QED BY <3>1, FullList
  <2>3. script'[Lister] = s /\ pipe'[Lister] = pipe[Lister] /\ pipe[Lister] = <<>>
    BY <1>2, <2>1, <2>2, StoreFacts
      DEF ListStart, Start, Inv, FeedTypeOK, Control, MainControl
  <2>4. /\ main = "start" /\ main' = "scan"
        /\ UNCHANGED <<store, sent, skipped, offered, blobs, reader, asked>>
    BY <1>2 DEF ListStart, resultVars, readerVars
  <2>5. Unheard(main, pipe[Lister], script[Lister])' = Objects
    BY <2>2, <2>3, <2>4, NamesOf DEF Unheard
  <2>6. Unheard(main, pipe[Lister], script[Lister]) = Objects
    BY <2>4 DEF Unheard
  <2> QED BY <2>4, <2>5, <2>6, AccountStands
<1>3. CASE Offer
  <2>1. /\ main = "offer" /\ main' = "scan" /\ offered' = NoObject
        /\ blobs' = Append(blobs, offered)
        /\ UNCHANGED <<store, sent, skipped, reader, asked, pipe, script>>
    BY <1>3 DEF Offer, childVars, resultVars, readerVars
  <2>2. offered \in Objects /\ NoObject \notin Objects /\ blobs \in Seq(Objects)
    BY <2>1, FeedAssumption DEF Inv, FeedTypeOK
  <2>3. Queued(blobs') = Queued(blobs) \cup {offered}
    BY <2>1, <2>2, QueueMoves
  <2>4. Hands(offered, blobs, reader, asked)' = Hands(offered, blobs, reader, asked)
    <3>1. Hands(offered', blobs', reader, asked) = Hands(offered, blobs, reader, asked)
      BY <2>1, <2>2, <2>3 DEF Hands
    <3> QED BY <2>1, <3>1
  <2>5. Unheard(main, pipe[Lister], script[Lister])'
          = Unheard(main, pipe[Lister], script[Lister])
    BY <2>1 DEF Unheard
  <2> QED BY <2>1, <2>4, <2>5, AccountStands
<1>4. CASE ScanEnd \/ ListReap \/ CloseBlobs \/ FeedReturn
  <2>1. /\ main # "start" /\ main' # "start"
        /\ UNCHANGED <<store, sent, skipped, offered, blobs, reader, asked, pipe, script>>
    BY <1>4 DEF ScanEnd, ListReap, CloseBlobs, FeedReturn, childVars, resultVars, readerVars
  <2>2. Unheard(main, pipe[Lister], script[Lister])'
          = Unheard(main, pipe[Lister], script[Lister])
    BY <2>1 DEF Unheard
  <2> QED BY <2>1, <2>2, AccountStands
<1> QED BY <1>1, <1>2, <1>3, <1>4

(* A reader uses an answer: it sends the object, passes it over or has no  *)
(* use for it.                                                             *)
LEMMA AccountUsed ==
  ASSUME Inv, Listing, Control, Accounted, Next, NEW r \in Readers, UseAnswer(r)
  PROVE  Accounted'
<1> SUFFICES ASSUME Whole', errs' = 0
             PROVE  Balance(store, Unheard(main, pipe[Lister], script[Lister]),
                            Hands(offered, blobs, reader, asked), sent, skipped)'
  BY DEF Accounted
<1>1. PICK u, o, h, st, snt, skp, g :
        /\ u = Unheard(main, pipe[Lister], script[Lister]) /\ o = asked[r]
        /\ h = Hands(offered, blobs, reader, asked) /\ st = store
        /\ snt = sent /\ skp = skipped /\ g = Hands(offered, blobs, reader, asked)'
  OBVIOUS
<1>2. /\ reader[r] = "answered" /\ reader' = [reader EXCEPT ![r] = "take"]
      /\ asked' = [asked EXCEPT ![r] = NoObject]
      /\ UNCHANGED <<store, main, offered, blobs, pipe, script>>
  BY DEF UseAnswer, GoTo, childVars, mainVars, listVars
<1>3. Unheard(main, pipe[Lister], script[Lister])' = u
  BY <1>1, <1>2
<1>4. Whole /\ errs = 0 /\ Balance(st, u, h, snt, skp)
  BY <1>1, WellBefore DEF Accounted
<1>5. o \in Objects
  BY <1>1, <1>2 DEF Inv, FeedTypeOK, Pending
<1>6. PICK rest : Asking(reader, asked) = rest \cup {o} /\ Asking(reader', asked') = rest
  <2>1. PICK rest : rest = {asked[q] : q \in {x \in Readers \ {r} : Pending(x)}}
    OBVIOUS
  <2>2. Asking(reader, asked) = rest \cup {o}
    BY <1>1, <1>2, <2>1, HandsMove DEF Pending
  <2>3. Asking(reader', asked') = rest
    <3>1. LET rd == [reader EXCEPT ![r] = "take"]
              as == [asked EXCEPT ![r] = NoObject]
              on == "take" \in {"header", "body", "lf", "answered"} IN
          Asking(rd, as) = rest \cup (IF on THEN {NoObject} ELSE {})
      BY <2>1, HandsMove
    <3>2. "take" \notin {"header", "body", "lf", "answered"}
      OBVIOUS
    <3> QED BY <1>2, <3>1, <3>2
  <2> QED BY <2>2, <2>3
<1>7. /\ g \subseteq h /\ o \in h
      /\ \A e \in h : e \in g \/ e = o
  <2>1. g = Hands(offered, blobs, reader', asked')
    BY <1>1, <1>2
  <2> QED BY <1>1, <1>5, <1>6, <2>1 DEF Hands
<1>8. h \subseteq Wanted(st) /\ g \subseteq Wanted(st) /\ o \in Wanted(st)
  <2>1. h \subseteq Wanted(st)
    BY <1>4 DEF Balance
  <2> QED BY <1>7, <2>1
<1>9. \A e \in Listed(st) : e \in u \/ e \in h => e \in u \/ e \in g \/ e = o
  BY <1>7
<1>10. PICK body : body = st[o].body
  OBVIOUS
<1>11. /\ header[r].type = st[o].type /\ header[r].size = Len(body)
       /\ data[r] = IF Len(body) > Limit THEN <<>> ELSE body
  <2>1. /\ header[r] = Served(o)
        /\ data[r] = IF Served(o).size > Limit THEN <<>> ELSE store[o].body
    BY <1>1, <1>2, InStep DEF AnswersWhatWasAsked
  <2>2. Served(o).type = st[o].type /\ Served(o).size = Len(body)
    BY <1>1, <1>10 DEF Served, Line
  <2> QED BY <1>1, <1>10, <2>1, <2>2
<1>12. /\ o \in ServedBlobs(st) <=> st[o].type = "blob"
       /\ o \in Large(st) <=> st[o].type = "blob" /\ Len(body) > Limit
  BY <1>8, <1>10 DEF ServedBlobs, Large
<1>13. CASE header[r].type # "blob"
  <2>1. sent' = snt /\ skipped' = skp
    BY <1>1, <1>13 DEF UseAnswer, resultVars
  <2>2. o \in Wanted(st) \ ServedBlobs(st)
    BY <1>8, <1>11, <1>12, <1>13
  <2>3. Balance(st, u, g, snt, skp)
    BY <1>4, <1>8, <1>9, <2>2, BalanceDrops
  <2> QED BY <1>1, <1>2, <1>3, <2>1, <2>3
<1>14. CASE header[r].type = "blob" /\ header[r].size > Limit
  <2>1. sent' = snt /\ skipped' = skp \cup {o}
    BY <1>1, <1>14 DEF UseAnswer
  <2>2. o \in (Listed(st) \ Wanted(st)) \cup Large(st)
    BY <1>11, <1>12, <1>14
  <2>3. Balance(st, u, g, snt, skp \cup {o})
    BY <1>4, <1>8, <1>9, <2>2, BalanceSkips
  <2> QED BY <1>1, <1>2, <1>3, <2>1, <2>3
<1>15. CASE header[r].type = "blob" /\ ~(header[r].size > Limit)
  <2>1. /\ sent' = [x \in DOMAIN snt \cup {o} |-> IF x = o THEN data[r] ELSE snt[x]]
        /\ skipped' = skp
    BY <1>1, <1>15 DEF UseAnswer
  <2>2. o \in ServedBlobs(st) \ Large(st) /\ data[r] = st[o].body
    BY <1>10, <1>11, <1>12, <1>15
  <2>3. PICK f : f = sent'
    OBVIOUS
  <2>4. DOMAIN f = DOMAIN snt \cup {o}
    BY <2>1, <2>3
  <2>5. f = [x \in DOMAIN f |-> st[x].body]
    <3>1. \A x \in DOMAIN snt : snt[x] = st[x].body
      BY <1>4 DEF Balance
    <3> QED BY <2>1, <2>2, <2>3, <2>4, <3>1
  <2>6. ServedBlobs(st) \subseteq Wanted(st)
    BY DEF ServedBlobs
  <2>7. Balance(st, u, g, f, skp)
    <3>1. \A e \in Listed(st) : e \in u \/ e \in g \/ Settled(st, f, skp, e)
      BY <1>4, <1>9, <2>2, <2>4, <2>6 DEF Balance, Settled
    <3>2. /\ skp \subseteq (Listed(st) \ Wanted(st)) \cup Large(st)
          /\ DOMAIN f \subseteq ServedBlobs(st) \ Large(st)
      BY <1>4, <2>2, <2>4 DEF Balance
    <3> QED BY <1>8, <2>5, <3>1, <3>2 DEF Balance
  <2> QED BY <1>1, <1>2, <1>3, <2>1, <2>3, <2>7
<1> QED BY <1>13, <1>14, <1>15

(* The other steps of a reader.                                            *)
LEMMA AccountReader ==
  ASSUME Inv, Listing, Control, Accounted, Next, NEW r \in Readers,
         ReaderStep(r) \/ ReaderStartFails(r)
  PROVE  Accounted'
<1> SUFFICES ASSUME errs' = 0, ~UseAnswer(r)
             PROVE  Accounted'
  BY AccountUsed DEF Accounted
<1>1. UNCHANGED <<store, main, offered>> /\ pipe'[Lister] = pipe[Lister]
      /\ script'[Lister] = script[Lister]
  BY ReaderFrame DEF mainVars, listVars
<1>2. errs' = errs /\ errs \in Nat
  <2>1. errs \in Nat
    BY DEF Control, ReaderControl
  <2>2. errs' = errs \/ errs' = errs + 1
    BY DEF ReaderStep, ReaderStart, ReaderStartFails, Ask, AskFails, ReadHeader, ReadBody,
       SkipLF, ReadFails, UseAnswer, Drained, ReaderReap, Report, failVars
  <2> QED BY <2>1, <2>2
<1>3. UNCHANGED <<sent, skipped>>
  BY DEF ReaderStep, ReaderStart, ReaderStartFails, Ask, AskFails, ReadHeader, ReadBody,
     SkipLF, ReadFails, Drained, ReaderReap, resultVars
<1>4. CASE Ask(r)
  <2>1. PICK o : o = Head(blobs)
    OBVIOUS
  <2>2. /\ reader[r] = "take" /\ blobs # <<>> /\ blobs' = Tail(blobs)
        /\ reader' = [reader EXCEPT ![r] = "header"] /\ asked' = [asked EXCEPT ![r] = o]
    BY <1>4, <2>1 DEF Ask, GoTo
  <2>3. o \in Objects /\ Queued(blobs) = {o} \cup Queued(blobs')
    BY <2>1, <2>2, QueueMoves DEF Inv, FeedTypeOK
  <2>4. Asking(reader', asked') = Asking(reader, asked) \cup {o}
    <3>1. PICK rest : rest = {asked[q] : q \in {x \in Readers \ {r} : Pending(x)}}
      OBVIOUS
    <3>2. LET rd == [reader EXCEPT ![r] = "header"]
              as == [asked EXCEPT ![r] = o]
              on == "header" \in {"header", "body", "lf", "answered"} IN
          Asking(rd, as) = rest \cup (IF on THEN {o} ELSE {})
      BY <3>1, HandsMove
    <3>3. Asking(reader, asked) = rest
      BY <2>2, <3>1, HandsMove DEF Pending
    <3>4. "header" \in {"header", "body", "lf", "answered"}
      OBVIOUS
    <3> QED BY <2>2, <3>2, <3>3, <3>4
  <2>5. Hands(offered, blobs, reader, asked)' = Hands(offered, blobs, reader, asked)
    <3>1. Hands(offered, blobs', reader', asked') = Hands(offered, blobs, reader, asked)
      BY <2>3, <2>4 DEF Hands
    <3> QED BY <1>1, <3>1
  <2> QED BY <1>1, <1>3, <2>5, AccountStands
<1>5. CASE ~Ask(r)
  <2>1. /\ ~Report(r, "close") /\ ~Report(r, "done")
        /\ ~ReaderStartFails(r) /\ ~AskFails(r) /\ ~ReadFails(r)
    BY <1>2 DEF ReaderStartFails, AskFails, ReadFails, Report
  <2>2. UNCHANGED <<blobs, asked>>
    BY <1>5, <2>1 DEF ReaderStep, ReaderStart, ReadHeader, ReadBody, SkipLF, Drained, ReaderReap
  <2>3. PICK pc : /\ reader' = [reader EXCEPT ![r] = pc]
                  /\ Pending(r) <=> pc \in {"header", "body", "lf", "answered"}
    <3>1. CASE ReadHeader(r) \/ ReadBody(r) \/ SkipLF(r)
      <4>1. \E pc \in {"lf", "body", "answered"} : GoTo(r, pc)
        BY <2>1, <3>1 DEF ReadHeader, ReadBody, SkipLF
      <4>2. Pending(r)
        BY <3>1 DEF ReadHeader, ReadBody, SkipLF, Pending
      <4> QED BY <4>1, <4>2 DEF GoTo
    <3>2. CASE ReaderStart(r) \/ Drained(r) \/ ReaderReap(r)
      <4>1. \E pc \in {"take", "close", "done"} : GoTo(r, pc)
        BY <3>2 DEF ReaderStart, Drained, ReaderReap
      <4>2. ~Pending(r)
        BY <3>2 DEF ReaderStart, Drained, ReaderReap, Pending
      <4> QED BY <4>1, <4>2 DEF GoTo
    <3> QED BY <1>5, <2>1, <3>1, <3>2 DEF ReaderStep
  <2>4. Asking(reader', asked) = Asking(reader, asked)
    BY <2>3, HandsMove
  <2>5. Hands(offered, blobs, reader, asked)' = Hands(offered, blobs, reader, asked)
    <3>1. Hands(offered, blobs, reader', asked) = Hands(offered, blobs, reader, asked)
      BY <2>4 DEF Hands
    <3> QED BY <1>1, <2>2, <3>1
  <2> QED BY <1>1, <1>3, <2>5, AccountStands
<1> QED BY <1>4, <1>5

(* Every step keeps the account.                                           *)
LEMMA AccountedStep ==
  ASSUME Inv, Listing, Control, Accounted, Next
  PROVE  Accounted'
<1>1. ASSUME NEW r \in Readers, ChildStep(r) \/ ChildDies(r)
      PROVE  Accounted'
  <2>1. /\ UNCHANGED <<store, main, offered>> /\ pipe'[Lister] = pipe[Lister]
        /\ script'[Lister] = script[Lister]
    BY <1>1, ReaderFrame DEF mainVars, listVars
  <2>2. UNCHANGED <<blobs, reader, asked, sent, skipped>>
    BY <1>1 DEF ChildStep, ChildDies, readerVars, resultVars
  <2> QED BY <2>1, <2>2, AccountStands
<1>2. CASE ChildStep(Lister)
  <2>1. UNCHANGED <<store, main, offered, blobs, reader, asked, sent, skipped>>
    BY <1>2 DEF ChildStep, listVars, readerVars, resultVars
  <2>2. PICK p, s : p = pipe[Lister] /\ s = script[Lister]
    OBVIOUS
  <2>3. /\ p \in Seq(ListToken) /\ s \in Seq(ListToken) /\ Printed(store, p, s, Whole)
        /\ Whole \in BOOLEAN
    BY <2>2, ListingFacts
  <2>4. /\ Lister \in Children /\ pipe \in [Children -> Seq(Token)]
        /\ script \in [Children -> Seq(Token)]
    BY StoreFacts DEF Inv, FeedTypeOK
  <2>5. CASE Prints(Lister)
    <3>1. /\ s # <<>> /\ pipe'[Lister] = Append(p, Head(s)) /\ script'[Lister] = Tail(s)
      BY <2>2, <2>4, <2>5 DEF Prints
    <3>2. Names(Append(p, Head(s))) \cup Names(Tail(s)) = Names(p) \cup Names(s)
      BY <2>3, <3>1, PrintedMoves
    <3>3. Unheard(main, pipe[Lister], script[Lister])'
            = Unheard(main, pipe[Lister], script[Lister])
      BY <2>1, <2>2, <3>1, <3>2 DEF Unheard
    <3> QED BY <2>1, <3>3, AccountStands
  <2>6. CASE Exit(Lister)
    BY <2>1, <2>6, AccountStands DEF Exit
  <2> QED BY <1>2, <2>5, <2>6 DEF ChildStep
<1>3. CASE ChildDies(Lister)
  <2>1. child'[Lister] = "died"
    BY <1>3, StoreFacts DEF ChildDies, Die, Control, ChildControl, Inv
  <2> QED BY <2>1 DEF Accounted, Whole
<1>4. CASE Done
  BY <1>4, AccountStands DEF Done, vars, childVars, listVars, readerVars, resultVars
<1> QED BY <1>1, <1>2, <1>3, <1>4, Steps, AccountScanned, AccountMain, AccountReader
     DEF MainStep, ScanFails, OfferCancelled

-----------------------------------------------------------------------------
(* The invariant of the feed.                                              *)

(* At first nothing is listed and every object is still to be heard of.    *)
LEMMA InitFeedInv ==
  ASSUME Init
  PROVE  FeedInv
<1>1. Inv
  BY InitInv
<1>2. /\ main = "start" /\ total = 0 /\ blobs = <<>> /\ sent = [o \in {} |-> <<>>]
      /\ skipped = {} /\ errs = 0 /\ offered = NoObject /\ listErr = FALSE
      /\ pipe[Lister] = <<>> /\ script[Lister] = <<>> /\ child[Lister] = "none"
      /\ store \in Stores /\ blobsClosed = FALSE /\ cancelled = FALSE /\ outcome = "running"
      /\ \A r \in Readers : reader[r] = "start"
  BY <1>1, StoreFacts DEF Init, ChildInit, Inv
<1>3. Unheard(main, pipe[Lister], script[Lister]) = Objects
  BY <1>2 DEF Unheard
<1>4. Cardinality(Objects \ Objects) = 0 /\ Cardinality(Listed(store) \ Objects) = 0
  <2>1. Objects \ Objects = {} /\ Listed(store) \ Objects = {}
    BY DEF Listed
  <2> QED BY <2>1, FS_EmptySet
<1>5. Listing
  <2>1. Printed(store, pipe[Lister], script[Lister], Whole)
    BY <1>2, NamesOf DEF Printed
  <2>2. Counted(store, Objects, total, Whole)
    BY <1>2, <1>4 DEF Counted
  <2> QED BY <1>3, <2>1, <2>2 DEF Listing
<1>6. Control
  <2>1. IsFiniteSet(Leaving(reader))
    <3>1. Leaving(reader) \subseteq Readers
      BY DEF Leaving
    <3> QED BY <3>1, FS_Subset, FeedAssumption
  <2>2. Cardinality(Leaving(reader)) \in Nat
    BY <2>1, FS_CardinalityType
  <2>3. ReaderControl
    <3>1. DOMAIN sent = {}
      BY <1>2
    <3> QED BY <1>2, <2>2, <3>1 DEF ReaderControl
  <2>4. MainControl
    <3>1. Len(blobs) <= BlobsCap
      BY <1>2, FeedAssumption
    <3> QED BY <1>2, <3>1 DEF MainControl
  <2>5. ChildControl
    BY ChildAssumption DEF Init, ChildInit, ChildControl
  <2> QED BY <2>3, <2>4, <2>5 DEF Control
<1>7. Accounted
  <2>1. Hands(offered, blobs, reader, asked) = {}
    <3>1. Queued(blobs) = {}
      BY <1>2 DEF Queued
    <3>2. Asking(reader, asked) = {}
      BY <1>2 DEF Asking
    <3> QED BY <1>2, <3>1, <3>2, FeedAssumption DEF Hands
  <2>2. Listed(store) \subseteq Objects
    BY DEF Listed
  <2>3. sent = [o \in DOMAIN sent |-> store[o].body] /\ DOMAIN sent = {}
    BY <1>2
  <2> QED BY <1>2, <1>3, <2>1, <2>2, <2>3 DEF Accounted, Balance
<1> QED BY <1>1, <1>5, <1>6, <1>7 DEF FeedInv

(* The invariant of the feed holds in every reachable state.               *)
THEOREM FeedInvariance == Spec => []FeedInv
<1>1. Init => FeedInv
  BY InitFeedInv
<1>2. Inv /\ [Next]_vars => Inv'
  BY InvStep
<1>3. FeedInv /\ [Next]_vars => FeedInv'
  <2> SUFFICES ASSUME FeedInv, [Next]_vars
               PROVE  FeedInv'
    OBVIOUS
  <2>1. CASE Next
    BY <1>2, <2>1, ListingStep, ControlStep, AccountedStep DEF FeedInv
  <2>2. CASE UNCHANGED vars
    <3>1. UNCHANGED <<store, childVars, listVars, blobs, blobsClosed, readerVars, failVars,
                      resultVars>>
      BY <2>2 DEF vars
    <3>2. UNCHANGED <<child, script, pipe, main, offered, listErr, total, outcome, reader, asked,
                      errs, cancelled, sent, skipped>>
      BY <3>1 DEF childVars, listVars, readerVars, failVars, resultVars
    <3>3. Listing'
      BY <3>1, <3>2 DEF FeedInv, Listing, Whole
    <3>4. Control'
      BY <3>1, <3>2 DEF FeedInv, Control, MainControl, ChildControl, ReaderControl, AtEOF, Ended
    <3>5. Accounted'
      BY <3>1, <3>2 DEF FeedInv, Accounted, Whole
    <3> QED BY <1>2, <2>2, <3>3, <3>4, <3>5 DEF FeedInv
  <2> QED BY <2>1, <2>2
<1> QED BY <1>1, <1>3, PTL DEF Spec

(* Type correctness, for any objects and any number of readers.            *)
THEOREM TypeCorrect == Spec => []TypeOK
<1>1. FeedInv => TypeOK
  <2> SUFFICES ASSUME FeedInv
               PROVE  TypeOK
    OBVIOUS
  <2>1. total \in 0..Cardinality(Objects)
    <3>1. PICK u : total \in Nat /\ total <= Cardinality(Objects \ u)
      BY DEF FeedInv, Listing, Counted
    <3>2. IsFiniteSet(Objects) /\ Objects \ u \subseteq Objects
      BY FeedAssumption
    <3>3. Cardinality(Objects \ u) <= Cardinality(Objects)
      BY <3>2, FS_Subset
    <3>4. Cardinality(Objects \ u) \in Nat /\ Cardinality(Objects) \in Nat
      BY <3>2, FS_Subset, FS_CardinalityType
    <3> QED BY <3>1, <3>3, <3>4
  <2>2. errs \in 0..Cardinality(Readers)
    <3>1. errs \in Nat /\ errs <= Cardinality(Leaving(reader))
      BY DEF FeedInv, Control, ReaderControl
    <3>2. IsFiniteSet(Readers) /\ Leaving(reader) \subseteq Readers
      BY FeedAssumption DEF Leaving
    <3>3. Cardinality(Leaving(reader)) <= Cardinality(Readers)
      BY <3>2, FS_Subset
    <3>4. Cardinality(Leaving(reader)) \in Nat /\ Cardinality(Readers) \in Nat
      BY <3>2, FS_Subset, FS_CardinalityType
    <3> QED BY <3>1, <3>3, <3>4
  <2>3. ChildTypeOK(Token)
    BY DEF FeedInv, Inv, FeedTypeOK, Control, ChildControl, ChildTypeOK
  <2> QED BY <2>1, <2>2, <2>3 DEF FeedInv, Inv, FeedTypeOK, Control, MainControl, ReaderControl,
                                  TypeOK
<1> QED BY <1>1, FeedInvariance, PTL

(* A feed that succeeds has counted every blob of the listing and has sent *)
(* or passed over each as it should, whatever the children did             *)
(* (feedBlobsCatFile and listBlobs, main.go).                              *)
THEOREM CompleteFeed == Spec => []FeedIsComplete
<1>1. FeedInv => FeedIsComplete
  <2> SUFFICES ASSUME FeedInv, outcome = "ok"
               PROVE  LET listed == {o \in Objects : store[o].listed.type = "blob"}
                          read == {o \in listed : store[o].listed.size <= Limit}
                          served == {o \in read : store[o].type = "blob"}
                          large == {o \in served : Served(o).size > Limit} IN
                      /\ total = Cardinality(listed)
                      /\ skipped = (listed \ read) \cup large
                      /\ sent = [o \in served \ large |-> store[o].body]
    BY DEF FeedIsComplete
  <2>1. /\ main = "returned" /\ errs = 0 /\ ~listErr /\ \A r \in Readers : reader[r] = "done"
        /\ child[Lister] # "died" /\ AtEOF(Lister) /\ offered = NoObject
    BY DEF FeedInv, Control, MainControl
  <2>2. pipe[Lister] = <<>> /\ script[Lister] = <<>> /\ Whole
    BY <2>1, StoreFacts DEF AtEOF, Ended, Whole, FeedInv, Inv, Control, ChildControl
  <2>3. blobs = <<>>
    <3>1. PICK r : r \in Readers
      BY FeedAssumption
    <3> QED BY <2>1, <3>1 DEF FeedInv, Control, ReaderControl
  <2>4. Unheard(main, pipe[Lister], script[Lister]) = {}
    BY <2>1, <2>2, NamesOf DEF Unheard
  <2>5. Hands(offered, blobs, reader, asked) = {}
    <3>1. Queued(blobs) = {}
      BY <2>3 DEF Queued
    <3>2. Asking(reader, asked) = {}
      BY <2>1 DEF Asking
    <3> QED BY <2>1, <3>1, <3>2, FeedAssumption DEF Hands
  <2>6. Balance(store, {}, {}, sent, skipped)
    BY <2>1, <2>2, <2>4, <2>5 DEF FeedInv, Accounted
  <2>7. total = Cardinality(Listed(store))
    <3>1. total = Cardinality(Listed(store) \ {})
      BY <2>2, <2>4 DEF FeedInv, Listing, Counted
    <3>2. Listed(store) \ {} = Listed(store)
      OBVIOUS
    <3> QED BY <3>1, <3>2
  <2>8. /\ Large(store) \subseteq ServedBlobs(store) /\ ServedBlobs(store) \subseteq Wanted(store)
        /\ Wanted(store) \subseteq Listed(store)
    BY DEF Large, ServedBlobs, Wanted
  <2>9. skipped = (Listed(store) \ Wanted(store)) \cup Large(store)
    BY <2>6, <2>8 DEF Balance, Settled
  <2>10. DOMAIN sent = ServedBlobs(store) \ Large(store)
    BY <2>6, <2>8 DEF Balance, Settled
  <2>11. sent = [o \in ServedBlobs(store) \ Large(store) |-> store[o].body]
    BY <2>6, <2>10 DEF Balance
  <2>12. \A o : Served(o).size = Len(store[o].body)
    BY DEF Served, Line
  <2>13. Large(store) = {o \in ServedBlobs(store) : Served(o).size > Limit}
    BY <2>12 DEF Large
  <2> QED BY <2>7, <2>9, <2>11, <2>13 DEF Listed, Wanted, ServedBlobs
<1> QED BY <1>1, FeedInvariance, PTL
=============================================================================
