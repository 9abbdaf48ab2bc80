-------------------------- MODULE LegalTreesProofs --------------------------
(***************************************************************************)
(* Proofs about the collection of legal blobs, for any history and any     *)
(* trees in it, any number of workers, none included, and any size of the  *)
(* batches; and about the reading of one tree (module TreeReader), for any *)
(* tree, cut anywhere, and a buffer of any size.                           *)
(*                                                                         *)
(* What is to be found is a least fixpoint, stated as what every closed    *)
(* set has.  That nothing else is found needs the work to stay within      *)
(* every closed set (Within); that all of it is found needs the set of     *)
(* claims to be closed at the end, which it is up to the work that is      *)
(* still waiting (Owed), while nobody dropped any (Flow).                  *)
(*                                                                         *)
(* Of the reading of a tree the invariant says where it is (InPlace): what *)
(* the buffer has left, and then what is still to come, are the bytes of   *)
(* the tree from the field that is due up to the cut.                      *)
(***************************************************************************)
EXTENDS LegalTrees, TreeReader, SequenceTheorems, WellFoundedInduction, TLAPS

-----------------------------------------------------------------------------
(* What sending to and receiving from a channel, pushing to and popping    *)
(* from a stack do to the elements in it.                                  *)

(* Membership in a sequence.                                                *)
In(b, s) == \E i \in DOMAIN s : s[i] = b

(* Sending adds one element to a sequence.                                  *)
LEMMA InAppend ==
  ASSUME NEW S, NEW s \in Seq(S), NEW x \in S, NEW b
  PROVE  In(b, Append(s, x)) <=> In(b, s) \/ b = x
<1>1. DOMAIN Append(s, x) = 1..(Len(s) + 1) /\ DOMAIN s = 1..Len(s)
  OBVIOUS
<1>2. \A i \in 1..Len(s) : Append(s, x)[i] = s[i]
  OBVIOUS
<1>3. Append(s, x)[Len(s) + 1] = x
  OBVIOUS
<1>4. Len(s) \in Nat
  OBVIOUS
<1>5. \A i \in 1..(Len(s) + 1) : i \in 1..Len(s) \/ i = Len(s) + 1
  BY <1>4
<1> QED BY <1>1, <1>2, <1>3, <1>4, <1>5 DEF In

(* Receiving removes the head of a sequence and keeps the rest.             *)
LEMMA InTail ==
  ASSUME NEW S, NEW s \in Seq(S), s # <<>>, NEW b
  PROVE  In(b, s) <=> b = Head(s) \/ In(b, Tail(s))
<1>1. Len(s) \in Nat \ {0} /\ DOMAIN s = 1..Len(s) /\ Head(s) = s[1]
  OBVIOUS
<1>2. DOMAIN Tail(s) = 1..(Len(s) - 1)
  OBVIOUS
<1>3. \A j \in 1..(Len(s) - 1) : Tail(s)[j] = s[j + 1]
  OBVIOUS
<1>4. ASSUME In(b, s) PROVE b = Head(s) \/ In(b, Tail(s))
  <2>1. PICK i \in 1..Len(s) : s[i] = b
    BY <1>1, <1>4 DEF In
  <2>2. CASE i = 1
    BY <2>1, <2>2, <1>1
  <2>3. CASE i # 1
    <3>1. i - 1 \in 1..(Len(s) - 1) /\ (i - 1) + 1 = i
      BY <2>1, <2>3, <1>1
    <3>2. Tail(s)[i - 1] = b
      BY <3>1, <1>3, <2>1
    <3> QED BY <3>1, <3>2, <1>2 DEF In
  <2> QED BY <2>2, <2>3
<1>5. ASSUME b = Head(s) PROVE In(b, s)
  BY <1>1, <1>5 DEF In
<1>6. ASSUME In(b, Tail(s)) PROVE In(b, s)
  <2>1. PICK j \in 1..(Len(s) - 1) : Tail(s)[j] = b
    BY <1>2, <1>6 DEF In
  <2>2. j + 1 \in 1..Len(s) /\ s[j + 1] = b
    BY <2>1, <1>1, <1>3
  <2> QED BY <2>2, <1>1 DEF In
<1> QED BY <1>4, <1>5, <1>6

(* Nothing is in an empty sequence.                                         *)
LEMMA InEmpty == \A b : ~In(b, <<>>)
BY DEF In

(* What is in a sequence of one.                                           *)
LEMMA InOne == \A x, b : In(b, <<x>>) <=> b = x
<1>1. \A x : DOMAIN <<x>> = {1} /\ <<x>>[1] = x
  OBVIOUS
<1> QED BY <1>1 DEF In

(* The head of a sequence is of the sequence's type, and so is the rest.     *)
LEMMA HeadTailType ==
  ASSUME NEW S, NEW s \in Seq(S), s # <<>>
  PROVE  Head(s) \in S /\ Tail(s) \in Seq(S) /\ In(Head(s), s)
BY InTail

-----------------------------------------------------------------------------
(* What is at the end of a stack, and what is below it.                    *)
LEMMA InFront ==
  ASSUME NEW S, NEW s \in Seq(S), s # <<>>, NEW b
  PROVE  /\ Last(s) \in S /\ Front(s) \in Seq(S)
         /\ In(b, s) <=> b = Last(s) \/ In(b, Front(s))
<1>1. Len(s) \in Nat \ {0} /\ DOMAIN s = 1..Len(s)
  OBVIOUS
<1>2. /\ Front(s) \in Seq(S) /\ DOMAIN Front(s) = 1..(Len(s) - 1)
      /\ \A i \in 1..(Len(s) - 1) : Front(s)[i] = s[i]
  BY <1>1 DEF Front
<1>3. Last(s) = s[Len(s)] /\ s[Len(s)] \in S
  BY <1>1 DEF Last
<1>4. \A i \in 1..Len(s) : i = Len(s) \/ i \in 1..(Len(s) - 1)
  <2>1. \A n \in Nat \ {0} : \A i \in 1..n : i = n \/ i \in 1..(n - 1)
    OBVIOUS
  <2> QED BY <1>1, <2>1
<1>5. Len(s) \in 1..Len(s) /\ \A i \in 1..(Len(s) - 1) : i \in 1..Len(s)
  BY <1>1
<1> QED BY <1>1, <1>2, <1>3, <1>4, <1>5 DEF In

(* What is in two sequences one after the other.                           *)
LEMMA InConcat ==
  ASSUME NEW S, NEW s \in Seq(S), NEW t \in Seq(S), NEW b
  PROVE  s \o t \in Seq(S) /\ (In(b, s \o t) <=> In(b, s) \/ In(b, t))
<1>1. /\ Len(s) \in Nat /\ Len(t) \in Nat
      /\ DOMAIN s = 1..Len(s) /\ DOMAIN t = 1..Len(t)
      /\ s \o t \in Seq(S) /\ DOMAIN (s \o t) = 1..(Len(s) + Len(t))
  OBVIOUS
<1>2. \A i \in 1..Len(s) : (s \o t)[i] = s[i]
  OBVIOUS
<1>3. ASSUME NEW i \in 1..Len(t) PROVE (s \o t)[Len(s) + i] = t[i]
  <2>1. Len(s) + i \in 1..(Len(s) + Len(t)) /\ ~(Len(s) + i <= Len(s))
        /\ (Len(s) + i) - Len(s) = i
    BY <1>1
  <2> QED BY <2>1, ConcatProperties
<1>4. ASSUME In(b, s \o t) PROVE In(b, s) \/ In(b, t)
  <2>1. PICK i \in 1..(Len(s) + Len(t)) : (s \o t)[i] = b
    BY <1>1, <1>4 DEF In
  <2>2. CASE i \in 1..Len(s)
    BY <1>1, <1>2, <2>1, <2>2 DEF In
  <2>3. CASE i \notin 1..Len(s)
    <3>1. i - Len(s) \in 1..Len(t) /\ Len(s) + (i - Len(s)) = i
      BY <1>1, <2>3
    <3>2. t[i - Len(s)] = b
      BY <1>3, <2>1, <3>1
    <3> QED BY <1>1, <3>1, <3>2 DEF In
  <2> QED BY <2>2, <2>3
<1>5. ASSUME In(b, s) PROVE In(b, s \o t)
  <2>1. \A i \in 1..Len(s) : i \in 1..(Len(s) + Len(t))
    BY <1>1
  <2> QED BY <1>1, <1>2, <1>5, <2>1 DEF In
<1>6. ASSUME In(b, t) PROVE In(b, s \o t)
  <2>1. \A i \in 1..Len(t) : Len(s) + i \in 1..(Len(s) + Len(t))
    BY <1>1
  <2> QED BY <1>1, <1>3, <1>6, <2>1 DEF In
<1> QED BY <1>1, <1>4, <1>5, <1>6

(* The elements of a sequence as a set.                                    *)
LEMMA InToSet == \A b, s : b \in ToSet(s) <=> In(b, s)
BY DEF ToSet, In

-----------------------------------------------------------------------------
(* A channel of batches: b is in one of them.                              *)
InSome(b, batches) == \E i \in DOMAIN batches : In(b, batches[i])

(* Sending a batch adds its elements.                                      *)
LEMMA SomeAppend ==
  ASSUME NEW S, NEW s \in Seq(Seq(S)), NEW x \in Seq(S), NEW b
  PROVE  InSome(b, Append(s, x)) <=> InSome(b, s) \/ In(b, x)
<1>1. \A y : In(y, Append(s, x)) <=> In(y, s) \/ y = x
  BY InAppend
<1>2. \A q : InSome(b, q) <=> \E i \in DOMAIN q : In(b, q[i])
  BY DEF InSome
<1>3. \A q : InSome(b, q) <=> \E y : In(y, q) /\ In(b, y)
  BY <1>2 DEF In
<1> QED BY <1>1, <1>3

(* Receiving one takes its elements out.                                   *)
LEMMA SomeTail ==
  ASSUME NEW S, NEW s \in Seq(Seq(S)), s # <<>>, NEW b
  PROVE  InSome(b, s) <=> In(b, Head(s)) \/ InSome(b, Tail(s))
<1>1. \A y : In(y, s) <=> y = Head(s) \/ In(y, Tail(s))
  BY InTail
<1>2. \A q : InSome(b, q) <=> \E i \in DOMAIN q : In(b, q[i])
  BY DEF InSome
<1>3. \A q : InSome(b, q) <=> \E y : In(y, q) /\ In(b, y)
  BY <1>2 DEF In
<1> QED BY <1>1, <1>3

(* Nothing is in a channel without batches.                                *)
LEMMA SomeEmpty == \A b : ~InSome(b, <<>>)
BY DEF InSome

(* What is left of a sequence after its first element.                     *)
LEMMA TailLen ==
  ASSUME NEW S, NEW s \in Seq(S), s # <<>>
  PROVE  Len(s) \in Nat \ {0} /\ (Tail(s) = <<>> <=> Len(s) = 1)
<1>1. Len(s) \in Nat \ {0} /\ Len(Tail(s)) = Len(s) - 1 /\ Tail(s) \in Seq(S)
  OBVIOUS
<1>2. Tail(s) = <<>> <=> Len(Tail(s)) = 0
  BY <1>1, EmptySeq
<1> QED BY <1>1, <1>2

-----------------------------------------------------------------------------
(* The invariant.                                                          *)

(* Where goroutines are, and what that says of the channel and of errors.  *)
Flow ==
  /\ main \in {"walk", "descend"} => Len(batch) < batchSize
  /\ crew = {} => batch = <<>> /\ tasks = <<>>
  /\ main = "last" => stack = <<>>
  /\ visitErr => main \in {"close", "wait", "returned"}
  /\ main \in {"close", "wait", "returned"} /\ ~visitErr => stack = <<>> /\ batch = <<>>
  /\ tasksClosed <=> main \in {"wait", "returned"}
  /\ cancelled /\ main # "returned" => firstErr
  /\ \A w \in crew : worker[w] = "done" => firstErr \/ (tasks = <<>> /\ tasksClosed)
  /\ \A w \in Workers \ crew : worker[w] = "done"
  /\ worker[Caller] # "done" /\ (worker[Caller] # "idle" => main = "descend")
  /\ main = "returned" => \A w \in crew : worker[w] = "done"
  /\ outcome # "running" <=> main = "returned"
  /\ outcome = "ok" => ~visitErr /\ ~firstErr

(* Some goroutine has the job x to do.                                     *)
Held(x) == \E w \in Descenders : In(x, todo[w])

(* The tree t waits to be descended into, as part of a legal directory if  *)
(* h; the file b waits to be collected; the tree is being read.            *)
Waiting(t, h) ==
  \/ ~h /\ (In(t, batch) \/ InSome(t, tasks))
  \/ Held(Job("dir", t, h))

Sighted(b) == Held(Job("file", b, TRUE))

Reading(t, h) ==
  \E w \in Descenders : worker[w] = "read" /\ Head(todo[w]) = Job("dir", t, h)

(* Everything in a tree has been seen to or waits.                         *)
Expanded(t, h) ==
  /\ \A u \in Trees, i \in BOOLEAN :
       In(Job("dir", u, i), Children(<<t, h>>)) => <<u, i>> \in claimed \/ Waiting(u, i)
  /\ \A b \in Blobs :
       In(Job("file", b, TRUE), Children(<<t, h>>)) => b \in legal \/ Sighted(b)

(* Who reads a tree has claimed it.                                        *)
ReadingIsClaimed ==
  \A t \in Trees, h \in BOOLEAN : Reading(t, h) => <<t, h>> \in claimed

(* Nothing is walked, waits or is found that is not to be.                 *)
Within ==
  /\ \A c \in Commits : c \in seen \/ In(c, stack) => c \in Reachable
  /\ \A t \in Trees, h \in BOOLEAN :
       <<t, h>> \in claimed \/ Waiting(t, h) => <<t, h>> \in ReachableKeys
  /\ \A b \in Blobs : b \in legal \/ Sighted(b) => b \in LegalBlobs

(* What has been walked and claimed is closed, but for what waits.         *)
Owed ==
  /\ \A c \in Commits : In(c, repo.roots) => c \in seen \/ In(c, stack)
  /\ \A c \in seen, p \in Commits : In(p, ParentsOf(c)) => p \in seen \/ In(p, stack)
  /\ \A c \in seen : <<repo.tree[c], FALSE>> \in claimed \/ Waiting(repo.tree[c], FALSE)
  /\ \A t \in Trees, h \in BOOLEAN :
       <<t, h>> \in claimed => Reading(t, h) \/ Expanded(t, h)

NoError == ~visitErr /\ ~firstErr

Inv == TypeOK /\ Flow /\ ReadingIsClaimed /\ Within /\ (NoError => Owed)

-----------------------------------------------------------------------------
(* Types.                                                                  *)

(* The repository is what it is assumed to be.                             *)
LEMMA RepoFacts ==
  ASSUME repo \in Repos
  PROVE  /\ repo.roots \in Seq(Commits)
         /\ repo.tree \in [Commits -> Trees]
         /\ \A c \in Commits : ParentsOf(c) \in Seq(Commits)
         /\ \A t \in Trees : repo.entries[t] \in Seq(EntryType)
<1>1. repo \in RepoType
  BY LegalAssumption
<1>2. <<>> \in Seq(Commits)
  OBVIOUS
<1> QED BY <1>1, <1>2 DEF RepoType, ParentsOf

(* The work in a tree is made of its entries.                              *)
LEMMA ChildrenType ==
  ASSUME repo \in Repos, NEW t \in Trees, NEW h \in BOOLEAN
  PROVE  Children(<<t, h>>) \in Seq(EntryType)
<1> DEFINE es == repo.entries[t]
<1>1. es \in Seq(EntryType) /\ DOMAIN es = 1..Len(es) /\ Len(es) \in Nat
  BY RepoFacts
<1>2. Children(<<t, h>>) = [i \in 1..Len(es) |-> Job(es[i].kind, es[i].object, h \/ es[i].legal)]
  BY <1>1 DEF Children
<1>3. ASSUME NEW i \in 1..Len(es)
      PROVE  Job(es[i].kind, es[i].object, h \/ es[i].legal) \in EntryType
  <2>1. es[i] \in EntryType
    BY <1>1
  <2>2. (h \/ es[i].legal) \in BOOLEAN
    OBVIOUS
  <2> QED BY <2>1, <2>2 DEF EntryType, Job
<1> HIDE DEF es
<1>4. [i \in 1..Len(es) |-> Job(es[i].kind, es[i].object, h \/ es[i].legal)] \in Seq(EntryType)
  BY <1>1, <1>3
<1> QED BY <1>2, <1>4

(* A batch as work.                                                        *)
AsJobs(ts) == [i \in DOMAIN ts |-> Job("dir", ts[i], FALSE)]

LEMMA JobsType ==
  ASSUME NEW ts \in Seq(Trees)
  PROVE  /\ AsJobs(ts) \in Seq(EntryType)
         /\ ts # <<>> => AsJobs(ts) # <<>>
         /\ \A t \in Trees, h \in BOOLEAN : In(Job("dir", t, h), AsJobs(ts)) => In(t, ts) /\ ~h
         /\ \A t : In(t, ts) => In(Job("dir", t, FALSE), AsJobs(ts))
         /\ \A b, h : ~In(Job("file", b, h), AsJobs(ts))
<1>1. DOMAIN ts = 1..Len(ts) /\ Len(ts) \in Nat /\ \A i \in 1..Len(ts) : ts[i] \in Trees
  OBVIOUS
<1>2. \A t \in Trees : Job("dir", t, FALSE) \in EntryType
  BY DEF Job, EntryType
<1>3. AsJobs(ts) = [i \in 1..Len(ts) |-> Job("dir", ts[i], FALSE)]
  BY <1>1 DEF AsJobs
<1>4. AsJobs(ts) \in Seq(EntryType)
  <2>1. \A i \in 1..Len(ts) : Job("dir", ts[i], FALSE) \in EntryType
    BY <1>1, <1>2
  <2>2. \A n \in Nat : \A f \in [1..n -> EntryType] : f \in Seq(EntryType)
    OBVIOUS
  <2>3. AsJobs(ts) \in [1..Len(ts) -> EntryType]
    BY <1>3, <2>1
  <2> QED BY <1>1, <2>2, <2>3
<1>5. DOMAIN AsJobs(ts) = 1..Len(ts)
  BY <1>3
<1>6. ts # <<>> => AsJobs(ts) # <<>>
  BY <1>1, <1>5, EmptySeq
<1>7. \A i \in 1..Len(ts) : AsJobs(ts)[i] = Job("dir", ts[i], FALSE)
  BY <1>3
<1>8. \A b, t, h, i : Job("dir", t, i) # Job("file", b, h)
  <2>1. \A b, t, h, i : Job("dir", t, i).kind = "dir" /\ Job("file", b, h).kind = "file"
    BY DEF Job
  <2> QED BY <2>1
<1>9. \A t \in Trees, h \in BOOLEAN : In(Job("dir", t, h), AsJobs(ts)) => In(t, ts) /\ ~h
  <2> TAKE t \in Trees, h \in BOOLEAN
  <2> HAVE In(Job("dir", t, h), AsJobs(ts))
  <2>1. PICK i \in 1..Len(ts) : Job("dir", ts[i], FALSE) = Job("dir", t, h)
    BY <1>5, <1>7 DEF In
  <2>2. ts[i] = t /\ ~h
    BY <2>1 DEF Job
  <2> QED BY <2>2, <1>1 DEF In
<1>10. \A t : In(t, ts) => In(Job("dir", t, FALSE), AsJobs(ts))
  BY <1>1, <1>5, <1>7 DEF In
<1>11. \A b, h : ~In(Job("file", b, h), AsJobs(ts))
  BY <1>5, <1>7, <1>8 DEF In
<1> QED BY <1>4, <1>6, <1>9, <1>10, <1>11

(* What a pending tree or file is known to be.                             *)
LEMMA JobKinds ==
  /\ \A j \in EntryType :
       /\ j.legal \in BOOLEAN /\ j = Job(j.kind, j.object, j.legal)
       /\ j.kind = "dir" => j.object \in Trees
       /\ j.kind = "file" => j.object \in Blobs
  /\ \A t \in Trees, h \in BOOLEAN : Job("dir", t, h) \in EntryType
  /\ \A b \in Blobs, h \in BOOLEAN : Job("file", b, h) \in EntryType
  /\ \A k, o, l : Job(k, o, l).kind = k /\ Job(k, o, l).object = o /\ Job(k, o, l).legal = l
BY DEF Job, EntryType

(* The two halves of the type invariant.                                   *)
WalkTypeOK ==
  /\ repo \in Repos /\ crew \in Crews /\ batchSize \in BatchSizes
  /\ main \in {"walk", "descend", "enqueue", "last", "close", "wait", "returned"}
  /\ stack \in Seq(Commits)
  /\ seen \subseteq Commits
  /\ batch \in Seq(Trees)
  /\ main \in {"enqueue", "last"} => batch # <<>>
  /\ visitErr \in BOOLEAN
  /\ tasks \in Seq(Seq(Trees))
  /\ \A i \in DOMAIN tasks : tasks[i] # <<>>
  /\ tasksClosed \in BOOLEAN
  /\ outcome \in {"running", "ok", "failed"}

WorkTypeOK ==
  /\ worker \in [Descenders -> {"idle", "work", "read", "done"}]
  /\ todo \in [Descenders -> Seq(EntryType)]
  /\ \A w \in Descenders : worker[w] \in {"work", "read"} <=> todo[w] # <<>>
  /\ \A w \in Descenders : worker[w] = "read" => Head(todo[w]).kind = "dir"
  /\ claimed \subseteq Keys
  /\ legal \subseteq Blobs
  /\ firstErr \in BOOLEAN
  /\ cancelled \in BOOLEAN

(* They are its halves.                                                    *)
LEMMA TypeHalves == TypeOK <=> WalkTypeOK /\ WorkTypeOK
BY DEF TypeOK, WalkTypeOK, WorkTypeOK

workVars == <<worker, todo, claimed, legal, firstErr, cancelled>>
walkVars == <<repo, crew, batchSize, main, stack, seen, batch, visitErr, tasks, tasksClosed, outcome>>

(* The crew are workers; who descends is one of them or the caller.        *)
LEMMA CrewFacts ==
  ASSUME WalkTypeOK
  PROVE  crew \subseteq Descenders /\ crew \subseteq Workers /\ Caller \in Descenders
         /\ Caller \notin Workers
BY LegalAssumption DEF WalkTypeOK, Descenders

(* What the walk holds stays well-typed.                                   *)
LEMMA WalkType ==
  ASSUME TypeOK, [Next]_vars
  PROVE  WalkTypeOK'
<1> USE DEF WalkTypeOK, fixedVars, mainVars
<1>a. WalkTypeOK
  BY TypeHalves
<1>1. CASE VisitCommit
  <2> DEFINE c == Last(stack)
  <2>1. /\ c \in Commits /\ Front(stack) \in Seq(Commits)
        /\ main = "walk" /\ UNCHANGED <<fixedVars, visitErr, outcome, tasks, tasksClosed>>
    BY <1>1, <1>a, InFront DEF VisitCommit
  <2>2. CASE c \in seen
    BY <1>1, <1>a, <2>1, <2>2 DEF VisitCommit
  <2>3. CASE c \notin seen
    <3>1. /\ stack' = Front(stack) \o ParentsOf(c) /\ seen' = seen \cup {c}
          /\ PassOn(repo.tree[c])
      BY <1>1, <2>3 DEF VisitCommit
    <3>2. stack' \in Seq(Commits) /\ seen' \subseteq Commits /\ repo.tree[c] \in Trees
      BY <3>1, <2>1, <1>a, InConcat, RepoFacts
    <3>3. CASE UNCHANGED batch /\ main' = "descend"
      BY <2>1, <3>2, <3>3, <1>a
    <3>4. CASE batch' = Append(batch, repo.tree[c]) /\ main' \in {"enqueue", "walk"}
      <4>1. Append(batch, repo.tree[c]) \in Seq(Trees) /\ Append(batch, repo.tree[c]) # <<>>
        BY <3>2, <1>a
      <4> QED BY <2>1, <3>2, <3>4, <4>1, <1>a
    <3> QED BY <3>1, <3>3, <3>4 DEF PassOn
  <2> QED BY <2>2, <2>3
<1>2. CASE Enqueue
  <2>1. /\ batch # <<>> /\ batch' = <<>> /\ main' \in {"close", "walk"}
        /\ tasks' = Append(tasks, batch)
        /\ UNCHANGED <<fixedVars, stack, seen, visitErr, outcome, tasksClosed>>
    BY <1>2, <1>a DEF Enqueue
  <2>2. tasks' \in Seq(Seq(Trees)) /\ \A y : In(y, tasks') <=> In(y, tasks) \/ y = batch
    BY <2>1, <1>a, InAppend
  <2>3. \A i \in DOMAIN tasks' : tasks'[i] # <<>>
    BY <2>1, <2>2, <1>a DEF In
  <2> QED BY <2>1, <2>2, <2>3, <1>a
<1>3. ASSUME NEW w \in crew, WorkerTake(w) PROVE WalkTypeOK'
  <2>1. tasks # <<>> /\ tasks' = Tail(tasks) /\ UNCHANGED <<fixedVars, mainVars, tasksClosed>>
    BY <1>3 DEF WorkerTake
  <2>2. /\ tasks' \in Seq(Seq(Trees))
        /\ \A y : In(y, tasks) <=> y = Head(tasks) \/ In(y, tasks')
    BY <2>1, <1>a, InTail, HeadTailType
  <2>3. \A i \in DOMAIN tasks' : tasks'[i] # <<>>
    BY <2>1, <2>2, <1>a DEF In
  <2> QED BY <2>1, <2>2, <2>3, <1>a
<1>4. CASE Descended \/ DescendFails \/ CommitFails \/ WalkEnd \/ CloseTasks \/ Return
  BY <1>4, <1>a DEF Descended, DescendFails, CommitFails, WalkEnd, CloseTasks, Return
<1>5. CASE EnqueueCancelled
  <2>1. firstErr \in BOOLEAN
    BY DEF TypeOK
  <2> QED BY <1>5, <1>a, <2>1 DEF EnqueueCancelled
<1>6. CASE UNCHANGED walkVars
  BY <1>6, <1>a DEF walkVars
<1> QED
  BY <1>1, <1>2, <1>3, <1>4, <1>5, <1>6
     DEF Next, MainStep, WorkerStep, DescendStep, WorkerExit, ReadFails, VisitFile, Claim,
         ReadTree, Done, walkVars, vars

(* What the goroutines hold stays well-typed.                              *)
LEMMA WorkType ==
  ASSUME TypeOK, [Next]_vars
  PROVE  WorkTypeOK'
<1> USE DEF WorkTypeOK
<1>a. WorkTypeOK /\ WalkTypeOK /\ crew \subseteq Descenders /\ Caller \in Descenders
  BY TypeHalves, CrewFacts
<1>b. \A w \in Descenders : todo[w] # <<>> =>
        /\ Head(todo[w]) \in EntryType /\ Tail(todo[w]) \in Seq(EntryType)
        /\ Tail(todo[w]) = <<>> <=> Len(todo[w]) = 1
  BY <1>a, HeadTailType, TailLen
<1>1. CASE VisitCommit
  <2> DEFINE c == Last(stack)
             t == repo.tree[c]
  <2>1. UNCHANGED <<claimed, legal, firstErr, cancelled>>
    BY <1>1 DEF VisitCommit
  <2>2. CASE UNCHANGED <<worker, todo>>
    BY <2>1, <2>2, <1>a
  <2>3. CASE /\ todo' = [todo EXCEPT ![Caller] = <<Job("dir", t, FALSE)>>]
             /\ worker' = [worker EXCEPT ![Caller] = "work"]
    <3>1. stack # <<>>
      BY <1>1 DEF VisitCommit
    <3>2. t \in Trees
      BY <3>1, <1>a, InFront, RepoFacts DEF WalkTypeOK
    <3>3. <<Job("dir", t, FALSE)>> \in Seq(EntryType) /\ <<Job("dir", t, FALSE)>> # <<>>
      <4>1. \A x \in EntryType : <<x>> \in Seq(EntryType) /\ <<x>> # <<>>
        OBVIOUS
      <4> QED BY <3>2, <4>1, JobKinds
    <3> QED BY <2>1, <2>3, <3>3, <1>a
  <2> QED BY <1>1, <2>2, <2>3 DEF VisitCommit, PassOn
<1>2. ASSUME NEW w \in crew, WorkerTake(w) PROVE WorkTypeOK'
  <2>1. /\ tasks # <<>> /\ worker' = [worker EXCEPT ![w] = "work"]
        /\ todo' = [todo EXCEPT ![w] = AsJobs(Head(tasks))]
        /\ UNCHANGED <<claimed, legal, firstErr, cancelled>>
    BY <1>2 DEF WorkerTake, AsJobs
  <2>2. Head(tasks) \in Seq(Trees) /\ Head(tasks) # <<>>
    BY <2>1, <1>a, HeadTailType DEF WalkTypeOK, In
  <2>3. AsJobs(Head(tasks)) \in Seq(EntryType) /\ AsJobs(Head(tasks)) # <<>>
    BY <2>2, JobsType
  <2> QED BY <2>1, <2>3, <1>a
<1>3. ASSUME NEW w \in Descenders, ReadTree(w) PROVE WorkTypeOK'
  <2> DEFINE j == Head(todo[w])
             rest == Children(<<j.object, j.legal>>) \o Tail(todo[w])
  <2>1. /\ worker[w] = "read" /\ todo' = [todo EXCEPT ![w] = rest]
        /\ worker' = [worker EXCEPT ![w] = IF rest = <<>> THEN "idle" ELSE "work"]
        /\ UNCHANGED <<claimed, legal, firstErr, cancelled>>
    BY <1>3 DEF ReadTree
  <2>2. j \in EntryType /\ Tail(todo[w]) \in Seq(EntryType) /\ j.kind = "dir"
    BY <2>1, <1>a, <1>b
  <2>3. Children(<<j.object, j.legal>>) \in Seq(EntryType)
    BY <2>2, <1>a, JobKinds, ChildrenType DEF WalkTypeOK
  <2>4. rest \in Seq(EntryType)
    BY <2>2, <2>3, InConcat
  <2> HIDE DEF rest
  <2> QED BY <2>1, <2>4, <1>a
<1>4. ASSUME NEW w \in Descenders, VisitFile(w) \/ Claim(w) PROVE WorkTypeOK'
  <2> DEFINE j == Head(todo[w])
  <2>1. worker[w] = "work" /\ UNCHANGED <<firstErr, cancelled>> /\ todo[w] # <<>>
    BY <1>4, <1>a DEF VisitFile, Claim
  <2>2. j \in EntryType
    BY <2>1, <1>b
  <2>3. legal' \subseteq Blobs /\ claimed' \subseteq Keys
    BY <1>4, <2>2, <1>a, JobKinds DEF VisitFile, Collected, Claim, Keys
  <2>4. CASE Advance(w)
    <3>1. /\ todo' = [todo EXCEPT ![w] = Tail(todo[w])]
          /\ worker' = [worker EXCEPT ![w] = IF Len(todo[w]) = 1 THEN "idle" ELSE "work"]
      BY <2>4 DEF Advance
    <3> QED BY <2>1, <2>3, <3>1, <1>a, <1>b
  <2>5. CASE worker' = [worker EXCEPT ![w] = "read"] /\ UNCHANGED todo /\ j.kind = "dir"
    BY <2>1, <2>3, <2>5, <1>a
  <2> QED BY <1>4, <2>4, <2>5 DEF VisitFile, Claim
<1>5. ASSUME NEW w \in crew, WorkerExit(w) PROVE WorkTypeOK'
  BY <1>5, <1>a DEF WorkerExit
<1>6. ASSUME NEW w \in crew, ReadFails(w) PROVE WorkTypeOK'
  BY <1>6, <1>a DEF ReadFails
<1>7. CASE DescendFails
  BY <1>7, <1>a DEF DescendFails
<1>8. CASE Return
  BY <1>8, <1>a DEF Return
<1>9. CASE UNCHANGED workVars
  BY <1>9, <1>a DEF workVars
<1> QED
  BY <1>1, <1>2, <1>3, <1>4, <1>5, <1>6, <1>7, <1>8, <1>9
     DEF Next, MainStep, WorkerStep, DescendStep, Descended, CommitFails, WalkEnd, Enqueue,
         EnqueueCancelled, CloseTasks, Done, workVars, vars

-----------------------------------------------------------------------------
(* Control.                                                                *)

(* The channel closes, and the goroutines end, in the order of Flow.       *)
LEMMA FlowStep ==
  ASSUME TypeOK, Flow, [Next]_vars
  PROVE  Flow'
<1> USE DEF Flow, fixedVars, mainVars
<1>a. /\ crew \subseteq Descenders /\ crew \subseteq Workers /\ Caller \notin crew
      /\ Workers \subseteq Descenders /\ Caller \in Descenders /\ Caller \notin Workers
      /\ worker \in [Descenders -> {"idle", "work", "read", "done"}]
  BY TypeHalves, CrewFacts DEF WorkTypeOK, Descenders
<1>b. /\ batchSize \in Nat \ {0} /\ Len(batch) \in Nat /\ Len(<<>>) = 0
      /\ visitErr \in BOOLEAN /\ firstErr \in BOOLEAN
      /\ main \in {"enqueue", "last"} => batch # <<>>
  BY LegalAssumption DEF TypeOK
<1>1. CASE VisitCommit
  <2>1. main = "walk" /\ UNCHANGED <<fixedVars, visitErr, outcome, tasks, tasksClosed, firstErr, cancelled>>
    BY <1>1 DEF VisitCommit
  <2>2. CASE UNCHANGED <<batch, main, worker>>
    BY <2>1, <2>2
  <2>3. CASE crew = {} /\ worker' = [worker EXCEPT ![Caller] = "work"] /\ main' = "descend" /\ UNCHANGED batch
    BY <2>1, <2>3, <1>a
  <2>4. ASSUME crew # {}, NEW t \in Trees, batch' = Append(batch, t), UNCHANGED worker,
               main' = IF Len(batch) + 1 = batchSize THEN "enqueue" ELSE "walk"
        PROVE  Flow'
    <3>1. Len(batch') = Len(batch) + 1
      BY <2>4 DEF TypeOK
    <3>2. main' = "walk" => Len(batch') < batchSize
      BY <2>1, <2>4, <3>1, <1>b
    <3> QED BY <2>1, <2>4, <3>2, <1>a
  <2>5. stack # <<>> => repo.tree[Last(stack)] \in Trees
    <3>1. stack # <<>> => Last(stack) \in Commits
      BY InFront DEF TypeOK
    <3> QED BY <3>1, RepoFacts DEF TypeOK
  <2> QED BY <1>1, <2>2, <2>3, <2>4, <2>5 DEF VisitCommit, PassOn
<1>2. CASE Enqueue
  <2>1. crew # {}
    BY <1>2, <1>b DEF Enqueue
  <2>2. \A w \in crew : worker[w] = "done" => firstErr
    BY <1>2 DEF Enqueue
  <2> QED BY <1>2, <2>1, <2>2, <1>b DEF Enqueue
<1>3. CASE EnqueueCancelled
  BY <1>3, <1>b DEF EnqueueCancelled
<1>4. CASE CommitFails
  BY <1>4, <1>b DEF CommitFails
<1>5. CASE DescendFails
  BY <1>5, <1>a, <1>b DEF DescendFails
<1>6. CASE Descended
  <2>1. Len(batch) < batchSize
    BY <1>6 DEF Descended
  <2> QED BY <1>6, <2>1 DEF Descended
<1>7. CASE WalkEnd
  BY <1>7, <1>b DEF WalkEnd
<1>8. CASE CloseTasks
  BY <1>8 DEF CloseTasks
<1>9. CASE Return
  BY <1>9, <1>b DEF Return
<1>10. ASSUME NEW w \in crew, WorkerTake(w) PROVE Flow'
  BY <1>10, <1>a DEF WorkerTake
<1>11. ASSUME NEW w \in crew, WorkerExit(w) PROVE Flow'
  BY <1>11, <1>a DEF WorkerExit
<1>12. ASSUME NEW w \in crew, ReadFails(w) PROVE Flow'
  BY <1>12, <1>a DEF ReadFails
<1>13. ASSUME NEW w \in Descenders, DescendStep(w) PROVE Flow'
  <2>1. /\ worker[w] \in {"work", "read"}
        /\ \E to \in {"idle", "work", "read"} : worker' = [worker EXCEPT ![w] = to]
        /\ UNCHANGED <<fixedVars, mainVars, tasks, tasksClosed, firstErr, cancelled>>
    BY <1>13 DEF DescendStep, VisitFile, Claim, ReadTree, Advance
  <2> QED BY <2>1, <1>a
<1>14. CASE UNCHANGED vars
  BY <1>14 DEF vars
<1> QED
  BY <1>1, <1>2, <1>3, <1>4, <1>5, <1>6, <1>7, <1>8, <1>9, <1>10, <1>11, <1>12, <1>13, <1>14
     DEF Next, MainStep, WorkerStep, Done

-----------------------------------------------------------------------------
(* What a step does to the work.                                           *)

(* A tree or a file that may appear: of a commit on the stack, or in a     *)
(* tree that is claimed.                                                   *)
Fresh(t, h) ==
  \/ ~h /\ \E c \in Commits : In(c, stack) /\ t = repo.tree[c]
  \/ \E u \in Trees, i \in BOOLEAN :
       <<u, i>> \in claimed /\ In(Job("dir", t, h), Children(<<u, i>>))

FreshFile(b) ==
  \E u \in Trees, i \in BOOLEAN :
    <<u, i>> \in claimed /\ In(Job("file", b, TRUE), Children(<<u, i>>))

(* Nothing appears from elsewhere.                                         *)
Back ==
  /\ repo' = repo
  /\ \A t \in Trees, h \in BOOLEAN :
       /\ <<t, h>> \in claimed' => <<t, h>> \in claimed \/ Waiting(t, h)
       /\ Waiting(t, h)' => Waiting(t, h) \/ Fresh(t, h)
       /\ Reading(t, h)' => <<t, h>> \in claimed'
  /\ \A b \in Blobs :
       /\ b \in legal' => b \in legal \/ Sighted(b)
       /\ Sighted(b)' => Sighted(b) \/ FreshFile(b)

(* Nothing gets lost.                                                      *)
Forth ==
  /\ claimed \subseteq claimed' /\ legal \subseteq legal'
  /\ \A t \in Trees, h \in BOOLEAN :
       /\ Waiting(t, h) => Waiting(t, h)' \/ <<t, h>> \in claimed'
       /\ <<t, h>> \in claimed' => <<t, h>> \in claimed \/ Reading(t, h)'
       /\ Reading(t, h) => Reading(t, h)' \/ \A x \in EntryType : In(x, Children(<<t, h>>)) => Held(x)'
  /\ \A b \in Blobs : Sighted(b) => Sighted(b)' \/ b \in legal'

(* A goroutine's list of jobs is replaced.                                 *)
LEMMA NewList ==
  ASSUME WorkTypeOK, NEW w \in Descenders, NEW s, todo' = [todo EXCEPT ![w] = s], NEW x
  PROVE  /\ Held(x)' => In(x, s) \/ Held(x)
         /\ In(x, s) => Held(x)'
         /\ Held(x) => In(x, todo[w]) \/ Held(x)'
<1>1. \A v \in Descenders : todo'[v] = IF v = w THEN s ELSE todo[v]
  BY DEF WorkTypeOK
<1> QED BY <1>1 DEF Held

(* Commits: a new tree waits.                                              *)
LEMMA VisitMoves ==
  ASSUME TypeOK, Flow, ReadingIsClaimed, VisitCommit
  PROVE  Back /\ Forth
<1>a. WalkTypeOK /\ WorkTypeOK /\ Caller \in Descenders
  BY TypeHalves, CrewFacts
<1> DEFINE t == repo.tree[Last(stack)]
           new == Job("dir", t, FALSE)
<1>1. main = "walk" /\ stack # <<>> /\ UNCHANGED <<repo, tasks, claimed, legal>>
  BY DEF VisitCommit, fixedVars
<1>2. Last(stack) \in Commits /\ In(Last(stack), stack) /\ t \in Trees
  BY <1>1, <1>a, InFront, RepoFacts DEF WalkTypeOK
<1>3. Fresh(t, FALSE)
  BY <1>2 DEF Fresh
<1>4. CASE UNCHANGED <<batch, worker, todo>>
  BY <1>1, <1>4 DEF Back, Forth, Held, Waiting, Sighted, Reading, ReadingIsClaimed
<1>5. CASE batch' = Append(batch, t) /\ UNCHANGED <<worker, todo>>
  <2>1. \A u : In(u, batch') <=> In(u, batch) \/ u = t
    BY <1>2, <1>5, <1>a, InAppend DEF WalkTypeOK
  <2> HIDE DEF t
  <2>2. \A u \in Trees, h \in BOOLEAN : Waiting(u, h)' <=> Waiting(u, h) \/ (u = t /\ ~h)
    BY <1>1, <1>5, <2>1 DEF Waiting, Held
  <2>3. \A u \in Trees, h \in BOOLEAN : u = t /\ ~h => Fresh(u, h)
    BY <1>3 DEF Fresh
  <2> QED BY <1>1, <1>5, <2>2, <2>3 DEF Back, Forth, Held, Sighted, Reading, ReadingIsClaimed
<1>6. CASE /\ todo' = [todo EXCEPT ![Caller] = <<new>>]
           /\ worker' = [worker EXCEPT ![Caller] = "work"]
           /\ UNCHANGED batch
  <2>1. todo[Caller] = <<>> /\ worker[Caller] = "idle"
    BY <1>1, <1>a DEF Flow, WorkTypeOK
  <2>2. \A x : In(x, <<new>>) <=> x = new
    BY InOne
  <2> HIDE DEF new
  <2>3. \A x : Held(x)' <=> Held(x) \/ x = new
    BY <1>6, <1>a, <2>1, <2>2, NewList, InEmpty
  <2> USE DEF new
  <2> HIDE DEF t
  <2>4. \A u \in Trees, h \in BOOLEAN : Job("dir", u, h) = new => u = t /\ ~h
    BY DEF Job
  <2>5. \A b : Job("file", b, TRUE) # new
    BY DEF Job
  <2>6. \A u \in Trees, h \in BOOLEAN :
          Waiting(u, h)' => Waiting(u, h) \/ (u = t /\ ~h)
    BY <1>1, <1>6, <2>3, <2>4 DEF Waiting
  <2>7. \A u \in Trees, h \in BOOLEAN : Waiting(u, h) => Waiting(u, h)'
    BY <1>1, <1>6, <2>3 DEF Waiting
  <2>8. \A u \in Trees, h \in BOOLEAN : u = t /\ ~h => Fresh(u, h)
    BY <1>3 DEF Fresh
  <2>9. \A b : Sighted(b)' <=> Sighted(b)
    BY <2>3, <2>5 DEF Sighted
  <2>10. \A u, h : Reading(u, h)' <=> Reading(u, h)
    BY <1>6, <1>a, <2>1 DEF Reading, WorkTypeOK
  <2> QED BY <1>1, <2>6, <2>7, <2>8, <2>9, <2>10 DEF Back, Forth, ReadingIsClaimed
<1> QED BY <1>4, <1>5, <1>6 DEF VisitCommit, PassOn

(* The batch goes into the channel.                                        *)
LEMMA EnqueueMoves ==
  ASSUME TypeOK, ReadingIsClaimed, Enqueue
  PROVE  Back /\ Forth
<1>1. tasks' = Append(tasks, batch) /\ batch' = <<>> /\ UNCHANGED <<repo, claimed, legal, worker, todo>>
  BY DEF Enqueue, fixedVars
<1>2. \A t : InSome(t, tasks') <=> InSome(t, tasks) \/ In(t, batch)
  BY <1>1, SomeAppend DEF TypeOK
<1>3. \A t, h : Waiting(t, h)' <=> Waiting(t, h)
  BY <1>1, <1>2, InEmpty DEF Waiting, Held
<1> QED BY <1>1, <1>3 DEF Back, Forth, Held, Sighted, Reading, ReadingIsClaimed

(* A worker takes a batch out of it.                                       *)
LEMMA TakeMoves ==
  ASSUME TypeOK, ReadingIsClaimed, NEW w \in crew, WorkerTake(w)
  PROVE  Back /\ Forth
<1>a. WalkTypeOK /\ WorkTypeOK /\ w \in Descenders
  BY TypeHalves, CrewFacts
<1> DEFINE ts == Head(tasks)
<1>1. /\ worker[w] = "idle" /\ tasks # <<>> /\ tasks' = Tail(tasks)
      /\ worker' = [worker EXCEPT ![w] = "work"]
      /\ todo' = [todo EXCEPT ![w] = AsJobs(ts)]
      /\ UNCHANGED <<repo, batch, claimed, legal>>
  BY DEF WorkerTake, fixedVars, mainVars, AsJobs
<1>2. todo[w] = <<>>
  BY <1>1, <1>a DEF WorkTypeOK
<1>3. ts \in Seq(Trees) /\ \A t : InSome(t, tasks) <=> In(t, ts) \/ InSome(t, tasks')
  BY <1>1, <1>a, SomeTail, HeadTailType DEF WalkTypeOK
<1> HIDE DEF ts
<1>4. \A x : Held(x)' <=> Held(x) \/ In(x, AsJobs(ts))
  BY <1>1, <1>2, <1>a, NewList, InEmpty
<1>5. \A t \in Trees, h \in BOOLEAN : In(Job("dir", t, h), AsJobs(ts)) <=> In(t, ts) /\ ~h
  <2>1. \A t \in Trees, h \in BOOLEAN : ~h => h = FALSE
    OBVIOUS
  <2> QED BY <2>1, <1>3, JobsType
<1>6. \A t \in Trees, h \in BOOLEAN : Waiting(t, h)' <=> Waiting(t, h)
  BY <1>1, <1>3, <1>4, <1>5 DEF Waiting
<1>7. \A b : Sighted(b)' <=> Sighted(b)
  BY <1>3, <1>4, JobsType DEF Sighted
<1>8. \A t, h : Reading(t, h)' <=> Reading(t, h)
  BY <1>1, <1>a DEF Reading, WorkTypeOK
<1> QED BY <1>1, <1>6, <1>7, <1>8 DEF Back, Forth, ReadingIsClaimed

(* A goroutine drops the job it is through with: if it has seen to it,     *)
(* nothing is lost.                                                        *)
LEMMA AdvanceKeeps ==
  ASSUME TypeOK, NEW w \in Descenders, worker[w] = "work", Advance(w)
  PROVE  /\ Head(todo[w]) \in EntryType /\ Held(Head(todo[w]))
         /\ \A x : Held(x)' => Held(x)
         /\ \A x : Held(x) => Held(x)' \/ x = Head(todo[w])
         /\ \A t, h : Reading(t, h)' <=> Reading(t, h)
<1>a. WorkTypeOK
  BY TypeHalves
<1>1. /\ todo' = [todo EXCEPT ![w] = Tail(todo[w])]
      /\ \E to \in {"idle", "work"} : worker' = [worker EXCEPT ![w] = to]
  BY DEF Advance
<1>2. todo[w] # <<>> /\ todo[w] \in Seq(EntryType)
  BY <1>a DEF WorkTypeOK
<1>3. \A x : In(x, todo[w]) <=> x = Head(todo[w]) \/ In(x, Tail(todo[w]))
  BY <1>2, InTail
<1>4. \A x : Held(x)' => Held(x)
  BY <1>1, <1>3, <1>a, NewList DEF Held
<1>5. \A x : Held(x) => Held(x)' \/ x = Head(todo[w])
  BY <1>1, <1>3, <1>a, NewList
<1>6. \A t, h : Reading(t, h)' <=> Reading(t, h)
  BY <1>1, <1>a DEF Reading, WorkTypeOK
<1> QED BY <1>2, <1>3, <1>4, <1>5, <1>6, HeadTailType DEF Held

(* A file is collected, or is none to collect.                             *)
LEMMA FileMoves ==
  ASSUME TypeOK, ReadingIsClaimed, NEW w \in Descenders, VisitFile(w)
  PROVE  Back /\ Forth
<1> DEFINE j == Head(todo[w])
<1>1. /\ worker[w] = "work" /\ j.kind # "dir" /\ Advance(w)
      /\ legal' = IF Collected(j) THEN legal \cup {j.object} ELSE legal
      /\ UNCHANGED <<repo, batch, tasks, claimed>>
  BY DEF VisitFile, fixedVars, mainVars
<1>2. /\ j \in EntryType /\ Held(j)
      /\ \A x : Held(x)' => Held(x)
      /\ \A x : Held(x) => Held(x)' \/ x = j
      /\ \A t, h : Reading(t, h)' <=> Reading(t, h)
  BY <1>1, AdvanceKeeps
<1> HIDE DEF j
<1>3. \A t, h : j # Job("dir", t, h)
  BY <1>1, JobKinds
<1>4. \A t, h : Waiting(t, h)' <=> Waiting(t, h)
  BY <1>1, <1>2, <1>3 DEF Waiting
<1>5. \A b \in Blobs : Sighted(b) => Sighted(b)' \/ b \in legal'
  <2>1. \A b : j = Job("file", b, TRUE) => Collected(j) /\ j.object = b
    BY DEF Collected, Job
  <2> QED BY <1>1, <1>2, <2>1 DEF Sighted
<1>6. \A b \in Blobs : b \in legal' => b \in legal \/ Sighted(b)
  <2>1. Collected(j) => j = Job("file", j.object, TRUE)
    <3>1. j.legal \in BOOLEAN /\ j = Job(j.kind, j.object, j.legal)
      BY <1>2, JobKinds
    <3> QED BY <3>1 DEF Collected
  <2> QED BY <1>1, <1>2, <2>1 DEF Sighted
<1> QED BY <1>1, <1>2, <1>4, <1>5, <1>6 DEF Back, Forth, Sighted, ReadingIsClaimed

(* A tree is claimed, or was.                                              *)
LEMMA ClaimMoves ==
  ASSUME TypeOK, ReadingIsClaimed, NEW w \in Descenders, Claim(w)
  PROVE  Back /\ Forth
<1> DEFINE j == Head(todo[w])
           key == <<j.object, j.legal>>
<1>1. /\ worker[w] = "work" /\ j.kind = "dir"
      /\ UNCHANGED <<repo, batch, tasks, legal>>
  BY DEF Claim, fixedVars, mainVars
<1>a. WorkTypeOK /\ todo[w] # <<>>
  BY <1>1, TypeHalves DEF WorkTypeOK
<1>2. j \in EntryType /\ Held(j)
  BY <1>a, HeadTailType DEF WorkTypeOK, Held
<1>3. j.object \in Trees /\ j.legal \in BOOLEAN /\ j = Job("dir", j.object, j.legal)
  BY <1>1, <1>2, JobKinds
<1>4. \A t, h : j = Job("dir", t, h) => key = <<t, h>>
  BY JobKinds
<1>5. \A b, h : j # Job("file", b, h)
  BY <1>1, JobKinds
<1>6. CASE Claimed(key) /\ Advance(w) /\ UNCHANGED claimed
  <2>1. key \in claimed
    BY <1>6 DEF Claimed
  <2>2. /\ \A x : Held(x)' => Held(x)
        /\ \A x : Held(x) => Held(x)' \/ x = j
        /\ \A t, h : Reading(t, h)' <=> Reading(t, h)
    BY <1>1, <1>6, AdvanceKeeps
  <2> HIDE DEF j
  <2>3. \A t, h : /\ Waiting(t, h)' => Waiting(t, h)
                  /\ Waiting(t, h) => Waiting(t, h)' \/ <<t, h>> \in claimed'
    BY <1>1, <1>4, <1>6, <2>1, <2>2 DEF Waiting
  <2>4. \A b : Sighted(b)' <=> Sighted(b)
    BY <1>5, <2>2 DEF Sighted
  <2> QED BY <1>1, <1>6, <2>2, <2>3, <2>4 DEF Back, Forth, ReadingIsClaimed
<1>7. CASE /\ claimed' = claimed \cup {key} /\ UNCHANGED todo
           /\ worker' = [worker EXCEPT ![w] = "read"]
  <2>1. Waiting(j.object, j.legal)
    BY <1>2, <1>3 DEF Waiting
  <2>2. \A t \in Trees, h \in BOOLEAN : <<t, h>> = key => Waiting(t, h)
    BY <2>1
  <2>3. \A t \in Trees, h \in BOOLEAN : <<t, h>> = key => j = Job("dir", t, h)
    BY <1>3
  <2>4. \A t \in Trees, h \in BOOLEAN : <<t, h>> = key => Reading(t, h)'
    BY <1>7, <1>a, <2>3 DEF Reading, WorkTypeOK
  <2>5. \A t, h : Reading(t, h) => Reading(t, h)'
    BY <1>1, <1>7, <1>a DEF Reading, WorkTypeOK
  <2>6. \A t \in Trees, h \in BOOLEAN : Reading(t, h)' => Reading(t, h) \/ <<t, h>> = key
    BY <1>4, <1>7, <1>a DEF Reading, WorkTypeOK
  <2>7. \A t, h : Waiting(t, h)' <=> Waiting(t, h)
    BY <1>1, <1>7 DEF Waiting, Held
  <2>8. \A b : Sighted(b)' <=> Sighted(b)
    BY <1>7 DEF Sighted, Held
  <2> HIDE DEF j, key
  <2> QED BY <1>1, <1>7, <2>2, <2>4, <2>5, <2>6, <2>7, <2>8 DEF Back, Forth, ReadingIsClaimed
<1> QED BY <1>6, <1>7 DEF Claim

(* A tree is read: its entries are work now.                               *)
LEMMA ReadMoves ==
  ASSUME TypeOK, ReadingIsClaimed, NEW w \in Descenders, ReadTree(w)
  PROVE  Back /\ Forth
<1> DEFINE j == Head(todo[w])
           inside == Children(<<j.object, j.legal>>)
           rest == inside \o Tail(todo[w])
<1>1. /\ worker[w] = "read" /\ todo' = [todo EXCEPT ![w] = rest]
      /\ \E to \in {"idle", "work"} : worker' = [worker EXCEPT ![w] = to]
      /\ UNCHANGED <<repo, batch, tasks, claimed, legal>>
  BY DEF ReadTree, fixedVars, mainVars
<1>a. WorkTypeOK /\ WalkTypeOK /\ todo[w] # <<>> /\ todo[w] \in Seq(EntryType) /\ j.kind = "dir"
  BY <1>1, TypeHalves DEF WorkTypeOK
<1>2. j \in EntryType /\ Tail(todo[w]) \in Seq(EntryType)
      /\ \A x : In(x, todo[w]) <=> x = j \/ In(x, Tail(todo[w]))
  BY <1>a, HeadTailType, InTail
<1>3. j.object \in Trees /\ j.legal \in BOOLEAN /\ j = Job("dir", j.object, j.legal)
  BY <1>a, <1>2, JobKinds
<1>4. inside \in Seq(EntryType)
  BY <1>3, <1>a, ChildrenType DEF WalkTypeOK
<1>5. \A x : In(x, rest) <=> In(x, inside) \/ In(x, Tail(todo[w]))
  BY <1>2, <1>4, InConcat
<1>6. \A t, h : j = Job("dir", t, h) => j.object = t /\ (j.legal = h)
  BY JobKinds
<1>7. \A b, h : j # Job("file", b, h)
  BY <1>a, JobKinds
<1>8. Reading(j.object, j.legal) /\ <<j.object, j.legal>> \in claimed
  BY <1>1, <1>3 DEF Reading, ReadingIsClaimed
<1> HIDE DEF rest
<1>9. \A x : Held(x)' => Held(x) \/ In(x, inside)
  BY <1>1, <1>2, <1>5, <1>a, NewList DEF Held
<1>10. \A x : In(x, inside) => Held(x)'
  BY <1>1, <1>5, <1>a, NewList
<1>11. \A x : Held(x) => Held(x)' \/ x = j
  BY <1>1, <1>2, <1>5, <1>a, NewList
<1>12. \A t, h : Reading(t, h)' => Reading(t, h)
  BY <1>1, <1>a DEF Reading, WorkTypeOK
<1>13. \A t, h : Reading(t, h) => Reading(t, h)' \/ j = Job("dir", t, h)
  BY <1>1, <1>a DEF Reading, WorkTypeOK
<1>14. \A t \in Trees, h \in BOOLEAN :
         j = Job("dir", t, h) => /\ <<t, h>> \in claimed
                                /\ inside = Children(<<t, h>>)
  BY <1>6, <1>8
<1>15. \A t \in Trees, h \in BOOLEAN : In(Job("dir", t, h), inside) => Fresh(t, h)
  BY <1>3, <1>8 DEF Fresh
<1>16. \A b : In(Job("file", b, TRUE), inside) => FreshFile(b)
  BY <1>3, <1>8 DEF FreshFile
<1> HIDE DEF j, inside
<1>17. \A t \in Trees, h \in BOOLEAN :
         /\ Waiting(t, h)' => Waiting(t, h) \/ Fresh(t, h)
         /\ Waiting(t, h) => Waiting(t, h)' \/ <<t, h>> \in claimed'
  BY <1>1, <1>9, <1>11, <1>14, <1>15 DEF Waiting
<1>18. \A b : /\ Sighted(b)' => Sighted(b) \/ FreshFile(b)
              /\ Sighted(b) => Sighted(b)'
  BY <1>7, <1>9, <1>11, <1>16 DEF Sighted
<1> QED BY <1>1, <1>10, <1>12, <1>13, <1>14, <1>17, <1>18 DEF Back, Forth, ReadingIsClaimed

(* A goroutine that fails drops its jobs; nothing appears.                 *)
LEMMA FailMoves ==
  ASSUME TypeOK, ReadingIsClaimed, NEW w \in Descenders, todo' = [todo EXCEPT ![w] = <<>>],
         NEW to \in {"idle", "done"}, worker' = [worker EXCEPT ![w] = to],
         UNCHANGED <<repo, batch, tasks, claimed, legal>>
  PROVE  Back
<1>a. WorkTypeOK
  BY TypeHalves
<1>1. \A x : Held(x)' => Held(x)
  BY <1>a, NewList, InEmpty
<1>2. \A t, h : Reading(t, h)' => Reading(t, h)
  BY <1>a DEF Reading, WorkTypeOK
<1> QED BY <1>1, <1>2 DEF Back, Waiting, Sighted, ReadingIsClaimed

(* The other steps leave the work alone.                                   *)
LEMMA OtherMoves ==
  ASSUME TypeOK, ReadingIsClaimed, UNCHANGED <<repo, batch, tasks, todo, claimed, legal>>,
         \/ UNCHANGED worker
         \/ \E w \in crew : worker[w] = "idle" /\ worker' = [worker EXCEPT ![w] = "done"]
  PROVE  Back /\ Forth
<1>1. \A t, h : Reading(t, h)' <=> Reading(t, h)
  BY TypeHalves, CrewFacts DEF Reading, WorkTypeOK
<1>2. \A t, h : Waiting(t, h)' <=> Waiting(t, h)
  BY DEF Waiting, Held
<1>3. \A b : Sighted(b)' <=> Sighted(b)
  BY DEF Sighted, Held
<1> QED BY <1>1, <1>2, <1>3 DEF Back, Forth, ReadingIsClaimed

(* In every step nothing appears from elsewhere, and without an error      *)
(* nothing gets lost.                                                      *)
LEMMA Moves ==
  ASSUME TypeOK, Flow, ReadingIsClaimed, [Next]_vars
  PROVE  Back /\ (NoError' => Forth)
<1>a. crew \subseteq Descenders /\ Caller \in Descenders
  BY TypeHalves, CrewFacts
<1>1. ASSUME NEW w \in crew, ReadFails(w) PROVE Back /\ firstErr'
  BY <1>1, <1>a, FailMoves DEF ReadFails, fixedVars, mainVars
<1>2. CASE DescendFails
  BY <1>2, <1>a, FailMoves DEF DescendFails, fixedVars, NoError
<1>3. CASE \/ Descended \/ CommitFails \/ WalkEnd \/ EnqueueCancelled \/ CloseTasks \/ Return
           \/ (\E w \in crew : WorkerExit(w)) \/ UNCHANGED vars
  BY <1>3, OtherMoves DEF Descended, CommitFails, WalkEnd, EnqueueCancelled, CloseTasks, Return,
                          WorkerExit, fixedVars, mainVars, vars
<1> QED
  BY <1>1, <1>2, <1>3, <1>a, VisitMoves, EnqueueMoves, TakeMoves, FileMoves, ClaimMoves, ReadMoves
     DEF Next, MainStep, WorkerStep, DescendStep, Done, NoError

-----------------------------------------------------------------------------
(* What is to be found.                                                    *)

(* The commits reachable from the roots are closed: the roots are among    *)
(* them, and with a commit its parents.                                    *)
LEMMA ReachableClosed ==
  ASSUME repo \in Repos
  PROVE  /\ \A c \in Commits : In(c, repo.roots) => c \in Reachable
         /\ \A c \in Reachable, p \in Commits : In(p, ParentsOf(c)) => p \in Reachable
BY InToSet DEF Reachable, CommitClosed

(* They are in every closed set.                                           *)
LEMMA ReachableLeast ==
  ASSUME NEW S \in SUBSET Commits, CommitClosed(S)
  PROVE  Reachable \subseteq S
BY DEF Reachable

(* The trees reachable from their trees are closed too.                    *)
LEMMA KeysClosed ==
  ASSUME repo \in Repos
  PROVE  /\ ReachableKeys \subseteq Keys
         /\ \A c \in Reachable : <<repo.tree[c], FALSE>> \in ReachableKeys
         /\ \A t, u \in Trees, h, i \in BOOLEAN :
              <<t, h>> \in ReachableKeys /\ In(Job("dir", u, i), Children(<<t, h>>))
                => <<u, i>> \in ReachableKeys
<1> DEFINE start == {<<repo.tree[c], FALSE>> : c \in Reachable}
           below == [k \in Keys |-> DirKeys(Children(k))]
           closed == {K \in SUBSET Keys : start \subseteq K /\ \A k \in K : below[k] \subseteq K}
<1>1. ReachableKeys = {k \in Keys : \A K \in closed : k \in K}
  BY DEF ReachableKeys
<1>2. \A c \in Reachable : <<repo.tree[c], FALSE>> \in start /\ <<repo.tree[c], FALSE>> \in Keys
  BY RepoFacts DEF Reachable, Keys
<1>3. ASSUME NEW t \in Trees, NEW u \in Trees, NEW h \in BOOLEAN, NEW i \in BOOLEAN,
             In(Job("dir", u, i), Children(<<t, h>>))
      PROVE  <<u, i>> \in below[<<t, h>>]
  <2>1. <<t, h>> \in Keys
    BY DEF Keys
  <2>2. <<u, i>> \in DirKeys(Children(<<t, h>>))
    <3> DEFINE j == Job("dir", u, i)
    <3>1. j \in {x \in ToSet(Children(<<t, h>>)) : x.kind = "dir"}
      BY <1>3, InToSet, JobKinds
    <3>2. <<j.object, j.legal>> \in DirKeys(Children(<<t, h>>))
      BY <3>1 DEF DirKeys
    <3>3. j.object = u /\ j.legal = i
      BY JobKinds
    <3> QED BY <3>2, <3>3
  <2> QED BY <2>1, <2>2
<1>4. \A t, u \in Trees, h, i \in BOOLEAN :
        <<t, h>> \in ReachableKeys /\ In(Job("dir", u, i), Children(<<t, h>>))
          => <<u, i>> \in ReachableKeys
  <2> TAKE t \in Trees, u \in Trees, h \in BOOLEAN, i \in BOOLEAN
  <2> HAVE <<t, h>> \in ReachableKeys /\ In(Job("dir", u, i), Children(<<t, h>>))
  <2>1. <<u, i>> \in below[<<t, h>>] /\ <<u, i>> \in Keys
    BY <1>3 DEF Keys
  <2> HIDE DEF below, start
  <2>2. \A K \in closed : <<u, i>> \in K
    BY <1>1, <2>1
  <2> QED BY <1>1, <2>1, <2>2
<1> HIDE DEF below, start
<1> QED BY <1>1, <1>2, <1>4

(* They are in every closed set.                                           *)
LEMMA KeysLeast ==
  ASSUME NEW K \in SUBSET Keys, \A c \in Reachable : <<repo.tree[c], FALSE>> \in K,
         \A k \in K : DirKeys(Children(k)) \subseteq K
  PROVE  ReachableKeys \subseteq K
<1> DEFINE start == {<<repo.tree[c], FALSE>> : c \in Reachable}
           below == [k \in Keys |-> DirKeys(Children(k))]
           closed == {L \in SUBSET Keys : start \subseteq L /\ \A k \in L : below[k] \subseteq L}
<1>1. ReachableKeys = {k \in Keys : \A L \in closed : k \in L}
  BY DEF ReachableKeys
<1>2. start \subseteq K /\ \A k \in K : below[k] \subseteq K
  OBVIOUS
<1> HIDE DEF start, below
<1> QED BY <1>1, <1>2

(* The legal blobs are the files that are legal in one of those trees.     *)
LEMMA LegalFacts ==
  ASSUME repo \in Repos, NEW b
  PROVE  b \in LegalBlobs <=>
           \E t \in Trees, h \in BOOLEAN :
             <<t, h>> \in ReachableKeys /\ In(Job("file", b, TRUE), Children(<<t, h>>))
<1>1. ASSUME NEW t \in Trees, NEW h \in BOOLEAN
      PROVE  b \in LegalFiles(Children(<<t, h>>)) <=> In(Job("file", b, TRUE), Children(<<t, h>>))
  <2> DEFINE s == Children(<<t, h>>)
  <2>1. s \in Seq(EntryType)
    BY ChildrenType
  <2>2. \A j : In(j, s) => j \in EntryType
    BY <2>1 DEF In
  <2> HIDE DEF s
  <2>3. b \in LegalFiles(s) <=> \E j : In(j, s) /\ j.kind = "file" /\ j.legal /\ j.object = b
    BY InToSet DEF LegalFiles
  <2>4. \A j \in EntryType : j.kind = "file" /\ j.legal /\ j.object = b => j = Job("file", b, TRUE)
    <3>1. \A j \in EntryType : j.legal => j.legal = TRUE
      BY JobKinds
    <3> QED BY <3>1, JobKinds
  <2>5. LET j == Job("file", b, TRUE) IN j.kind = "file" /\ j.legal /\ j.object = b
    BY DEF Job
  <2>6. b \in LegalFiles(s) <=> In(Job("file", b, TRUE), s)
    BY <2>2, <2>3, <2>4, <2>5
  <2> QED BY <2>6 DEF s
<1>2. b \in LegalBlobs <=> \E k \in ReachableKeys : b \in LegalFiles(Children(k))
  BY DEF LegalBlobs
<1>3. \A k \in ReachableKeys : \E t \in Trees, h \in BOOLEAN : k = <<t, h>>
  BY KeysClosed DEF Keys
<1> QED BY <1>1, <1>2, <1>3

-----------------------------------------------------------------------------
(* The invariant.                                                          *)

(* What a visit does to the commits.                                       *)
Visited(c) ==
  /\ In(c, stack) /\ seen' = seen \cup {c}
  /\ \A x : In(x, stack') => In(x, stack) \/ In(x, ParentsOf(c))
  /\ \A x : In(x, stack) => x = c \/ In(x, stack')
  /\ \/ c \in seen
     \/ /\ \A x : In(x, ParentsOf(c)) => In(x, stack')
        /\ Waiting(repo.tree[c], FALSE)'

(* A step visits a commit or leaves them alone.                            *)
LEMMA CommitMoves ==
  ASSUME TypeOK, Flow, [Next]_vars
  PROVE  UNCHANGED <<stack, seen>> \/ \E c \in Commits : Visited(c)
<1>a. WalkTypeOK /\ WorkTypeOK /\ Caller \in Descenders
  BY TypeHalves, CrewFacts
<1>1. CASE VisitCommit
  <2>1. stack # <<>> /\ stack \in Seq(Commits)
    BY <1>1, <1>a DEF VisitCommit, WalkTypeOK
  <2>c. PICK c \in Commits : c = Last(stack)
    BY <2>1, InFront
  <2>2. /\ Front(stack) \in Seq(Commits)
        /\ \A x : In(x, stack) <=> x = c \/ In(x, Front(stack))
    BY <2>1, <2>c, InFront
  <2>3. ParentsOf(c) \in Seq(Commits) /\ repo.tree[c] \in Trees
    BY <1>a, RepoFacts DEF WalkTypeOK
  <2>4. CASE c \in seen
    <3>1. stack' = Front(stack) /\ seen' = seen
      BY <1>1, <2>4, <2>c DEF VisitCommit
    <3>2. Visited(c)
      BY <2>2, <2>4, <3>1 DEF Visited
    <3> QED BY <2>2, <3>2
  <2>5. CASE c \notin seen
    <3>1. /\ stack' = Front(stack) \o ParentsOf(c) /\ seen' = seen \cup {c}
          /\ PassOn(repo.tree[c]) /\ UNCHANGED repo
      BY <1>1, <2>5, <2>c DEF VisitCommit, fixedVars
    <3>2. \A x : In(x, stack') <=> In(x, Front(stack)) \/ In(x, ParentsOf(c))
      BY <2>2, <2>3, <3>1, InConcat
    <3>t. PICK t \in Trees : t = repo.tree[c]
      BY <2>3
    <3>3. ASSUME batch' = Append(batch, t) PROVE Waiting(t, FALSE)'
      <4>1. In(t, batch')
        BY <3>3, <1>a, InAppend DEF WalkTypeOK
      <4> QED BY <4>1 DEF Waiting
    <3>4. ASSUME todo' = [todo EXCEPT ![Caller] = <<Job("dir", t, FALSE)>>]
          PROVE  Waiting(t, FALSE)'
      <4>1. PICK x : x = Job("dir", t, FALSE)
        OBVIOUS
      <4>2. In(x, <<x>>) /\ todo' = [todo EXCEPT ![Caller] = <<x>>]
        BY <3>4, <4>1, InOne
      <4>3. Held(x)'
        BY <4>2, <1>a, NewList
      <4> QED BY <4>1, <4>3 DEF Waiting
    <3>5. Visited(c)
      BY <2>2, <3>1, <3>2, <3>t, <3>3, <3>4 DEF PassOn, Visited
    <3> QED BY <2>2, <3>5
  <2> QED BY <2>4, <2>5
<1>2. CASE UNCHANGED <<stack, seen>>
  BY <1>2
<1> QED
  BY <1>1, <1>2
     DEF Next, MainStep, WorkerStep, DescendStep, Descended, DescendFails, CommitFails, WalkEnd,
         Enqueue, EnqueueCancelled, CloseTasks, Return, WorkerTake, WorkerExit, VisitFile, Claim,
         ReadTree, ReadFails, Done, mainVars, vars

(* What is to be found does not change.                                    *)
LEMMA Fixed ==
  ASSUME repo' = repo
  PROVE  /\ Reachable' = Reachable /\ ReachableKeys' = ReachableKeys /\ LegalBlobs' = LegalBlobs
         /\ \A c : ParentsOf(c)' = ParentsOf(c)
         /\ \A k : Children(k)' = Children(k)
BY DEF Reachable, CommitClosed, ParentsOf, Children, ReachableKeys, LegalBlobs

(* The work stays within what is to be found.                              *)
LEMMA WithinStep ==
  ASSUME TypeOK, Flow, ReadingIsClaimed, Within, [Next]_vars
  PROVE  Within' /\ ReadingIsClaimed'
<1>a. repo \in Repos /\ Back
  BY Moves DEF TypeOK
<1>b. repo' = repo
  BY <1>a DEF Back
<1>1. \A c \in Commits : c \in seen' \/ In(c, stack') => c \in Reachable
  BY <1>a, CommitMoves, ReachableClosed DEF Within, Visited
<1>2. \A t \in Trees, h \in BOOLEAN : Fresh(t, h) => <<t, h>> \in ReachableKeys
  <2>1. \A c \in Commits, h \in BOOLEAN :
          ~h /\ In(c, stack) => <<repo.tree[c], h>> \in ReachableKeys
    <3>1. \A h \in BOOLEAN : ~h => h = FALSE
      OBVIOUS
    <3> QED BY <3>1, <1>a, KeysClosed DEF Within
  <2> QED BY <2>1, <1>a, KeysClosed DEF Fresh, Within
<1>3. \A b \in Blobs : FreshFile(b) => b \in LegalBlobs
  BY <1>a, LegalFacts DEF FreshFile, Within
<1>4. \A t \in Trees, h \in BOOLEAN :
        <<t, h>> \in claimed' \/ Waiting(t, h)' => <<t, h>> \in ReachableKeys
  BY <1>a, <1>2 DEF Back, Within
<1>5. \A b \in Blobs : b \in legal' \/ Sighted(b)' => b \in LegalBlobs
  BY <1>a, <1>3 DEF Back, Within
<1>6. ReadingIsClaimed'
  BY <1>a DEF Back, ReadingIsClaimed
<1> QED BY <1>1, <1>4, <1>5, <1>6, <1>b, Fixed DEF Within

(* Without an error it stays on its way to all of it.                      *)
LEMMA OwedStep ==
  ASSUME TypeOK, Flow, ReadingIsClaimed, NoError => Owed, [Next]_vars, NoError'
  PROVE  Owed'
<1>a. repo' = repo /\ Forth
  BY Moves DEF Back
<1>b. NoError
  BY DEF NoError, Next, MainStep, WorkerStep, DescendStep, VisitCommit, Descended, DescendFails,
         CommitFails, WalkEnd, Enqueue, EnqueueCancelled, CloseTasks, Return, WorkerTake,
         WorkerExit, VisitFile, Claim, ReadTree, ReadFails, Done, mainVars, vars, TypeOK, Flow
<1>c. \A c : ParentsOf(c)' = ParentsOf(c)
  BY <1>a, Fixed
<1>d. \A k : Children(k)' = Children(k)
  BY <1>a, Fixed
<1>e. seen \subseteq Commits /\ \A c \in Commits : repo.tree[c] \in Trees
  BY RepoFacts DEF TypeOK
<1>1. \A c \in Commits : In(c, repo.roots) => c \in seen' \/ In(c, stack')
  BY <1>b, CommitMoves DEF Owed, Visited
<1>2. \A c \in seen', p \in Commits : In(p, ParentsOf(c)) => p \in seen' \/ In(p, stack')
  BY <1>b, CommitMoves DEF Owed, Visited
<1>3. \A c \in seen' : <<repo.tree[c], FALSE>> \in claimed' \/ Waiting(repo.tree[c], FALSE)'
  <2>1. \A c \in seen : <<repo.tree[c], FALSE>> \in claimed' \/ Waiting(repo.tree[c], FALSE)'
    BY <1>a, <1>b, <1>e DEF Owed, Forth
  <2> QED BY <2>1, CommitMoves DEF Visited
<1>4. ASSUME NEW t \in Trees, NEW h \in BOOLEAN, <<t, h>> \in claimed'
      PROVE  Reading(t, h)' \/ Expanded(t, h)'
  <2>1. CASE <<t, h>> \notin claimed
    BY <1>4, <1>a, <2>1 DEF Forth
  <2>2. CASE Expanded(t, h)
    BY <1>a, <1>d, <2>2 DEF Expanded, Forth
  <2>3. CASE \A x \in EntryType : In(x, Children(<<t, h>>)) => Held(x)'
    BY <1>d, <2>3, JobKinds DEF Expanded, Waiting, Sighted
  <2> QED BY <1>4, <1>a, <1>b, <2>1, <2>2, <2>3 DEF Owed, Forth
<1> QED BY <1>a, <1>c, <1>1, <1>2, <1>3, <1>4 DEF Owed

(* At the start nothing waits but the commits of the roots.                *)
LEMMA InitInv ==
  ASSUME Init
  PROVE  Inv
<1>a. /\ repo \in Repos /\ crew \in Crews /\ batchSize \in BatchSizes /\ batchSize \in Nat \ {0}
      /\ crew \subseteq Workers /\ Caller \notin Workers
  BY LegalAssumption DEF Init
<1>b. /\ <<>> \in Seq(Trees) /\ <<>> \in Seq(EntryType) /\ <<>> \in Seq(Seq(Trees))
      /\ Len(<<>>) = 0 /\ DOMAIN <<>> = {}
  OBVIOUS
<1>1. TypeOK
  BY <1>a, <1>b, RepoFacts DEF Init, TypeOK
<1>2. Flow
  BY <1>a, <1>b DEF Init, Flow, Descenders
<1>3. /\ \A x : ~Held(x)
      /\ \A t, h : ~Reading(t, h)
      /\ \A t, h : ~Waiting(t, h)
      /\ \A b : ~Sighted(b)
  <2>1. \A x : ~Held(x)
    BY InEmpty DEF Init, Held
  <2>2. \A t, h : ~Reading(t, h)
    BY DEF Init, Reading
  <2> QED BY <2>1, <2>2, InEmpty, SomeEmpty DEF Init, Waiting, Sighted
<1>4. ReadingIsClaimed
  BY <1>3 DEF ReadingIsClaimed
<1>5. Within
  BY <1>a, <1>3, ReachableClosed DEF Init, Within
<1>6. Owed
  BY <1>3 DEF Init, Owed
<1> QED BY <1>1, <1>2, <1>4, <1>5, <1>6 DEF Inv

(* Every step keeps the invariant.                                         *)
LEMMA StepInv ==
  ASSUME Inv, [Next]_vars
  PROVE  Inv'
<1>1. TypeOK'
  <2>1. WalkTypeOK' /\ WorkTypeOK'
    BY WalkType, WorkType DEF Inv
  <2> QED BY <2>1 DEF TypeOK, WalkTypeOK, WorkTypeOK
<1>2. Flow'
  BY FlowStep DEF Inv
<1>3. Within' /\ ReadingIsClaimed'
  BY WithinStep DEF Inv
<1>4. NoError' => Owed'
  BY OwedStep DEF Inv
<1> QED BY <1>1, <1>2, <1>3, <1>4 DEF Inv

(* The invariant of collectLegalTreesParallel: what is found and waits is  *)
(* to be found, and without an error what is to be found is found or       *)
(* waits.                                                                  *)
THEOREM Invariance == Spec => []Inv
<1>1. Init => Inv
  BY InitInv
<1>2. Inv /\ [Next]_vars => Inv'
  BY StepInv
<1> QED BY <1>1, <1>2, PTL DEF Spec, Safety

(* Every batch in the channel holds trees, and a goroutine descends just   *)
(* as long as it has jobs.                                                 *)
THEOREM TypeCorrect == Spec => []TypeOK
<1>1. Inv => TypeOK
  BY DEF Inv
<1> QED BY <1>1, Invariance, PTL

(* The walk never writes past the end of the batch.                        *)
THEOREM BatchNeverOverrun == Spec => []BatchFits
<1>1. Inv => BatchFits
  BY DEF Inv, Flow, BatchFits
<1> QED BY <1>1, Invariance, PTL

-----------------------------------------------------------------------------
(* Completeness.                                                           *)

(* When the collection has succeeded nothing is left to do.                *)
LEMMA NothingLeft ==
  ASSUME Inv, outcome = "ok"
  PROVE  /\ NoError /\ stack = <<>>
         /\ \A t, h : ~Waiting(t, h) /\ ~Reading(t, h)
         /\ \A b : ~Sighted(b)
<1> USE DEF Inv
<1>1. main = "returned" /\ ~visitErr /\ ~firstErr
  BY DEF Flow
<1>2. stack = <<>> /\ batch = <<>> /\ \A w \in crew : worker[w] = "done"
  BY <1>1 DEF Flow
<1>3. tasks = <<>>
  <2>1. CASE crew = {}
    BY <2>1 DEF Flow
  <2>2. CASE crew # {}
    BY <2>2, <1>1, <1>2 DEF Flow
  <2> QED BY <2>1, <2>2
<1>4. \A w \in Descenders : worker[w] \in {"idle", "done"}
  BY <1>1, <1>2 DEF Flow, Descenders
<1>5. \A w \in Descenders : todo[w] = <<>>
  BY <1>4 DEF TypeOK
<1>6. \A x : ~Held(x)
  BY <1>5, InEmpty DEF Held
<1>7. \A t, h : ~Reading(t, h)
  BY <1>4 DEF Reading
<1> QED BY <1>1, <1>2, <1>3, <1>6, <1>7, InEmpty, SomeEmpty DEF NoError, Waiting, Sighted

(* Everything that is to be found has been.                                *)
LEMMA AllFound ==
  ASSUME Inv, outcome = "ok"
  PROVE  LegalBlobs \subseteq legal
<1>a. repo \in Repos /\ seen \subseteq Commits /\ claimed \subseteq Keys /\ Owed
  BY NothingLeft DEF Inv, TypeOK
<1>b. /\ \A c : ~In(c, stack)
      /\ \A t, h : ~Waiting(t, h) /\ ~Reading(t, h)
      /\ \A b : ~Sighted(b)
  BY NothingLeft, InEmpty
<1>1. Reachable \subseteq seen
  <2>1. \A c \in Commits : In(c, repo.roots) => c \in seen
    BY <1>a, <1>b DEF Owed
  <2>2. \A c \in seen, p \in Commits : In(p, ParentsOf(c)) => p \in seen
    BY <1>a, <1>b DEF Owed
  <2>3. /\ \A x : In(x, repo.roots) => x \in Commits
        /\ \A c \in seen : \A x : In(x, ParentsOf(c)) => x \in Commits
    BY <1>a, RepoFacts DEF In
  <2>4. CommitClosed(seen)
    BY <2>1, <2>2, <2>3, InToSet DEF CommitClosed
  <2> QED BY <1>a, <2>4, ReachableLeast
<1>2. \A t \in Trees, h \in BOOLEAN : <<t, h>> \in claimed => Expanded(t, h)
  BY <1>a, <1>b DEF Owed
<1>3. ReachableKeys \subseteq claimed
  <2>1. \A c \in Reachable : <<repo.tree[c], FALSE>> \in claimed
    BY <1>a, <1>b, <1>1 DEF Owed
  <2>2. ASSUME NEW t \in Trees, NEW h \in BOOLEAN, <<t, h>> \in claimed,
               NEW j, In(j, Children(<<t, h>>)), j.kind = "dir"
        PROVE  <<j.object, j.legal>> \in claimed
    <3>1. j \in EntryType
      BY <1>a, <2>2, ChildrenType DEF In
    <3>2. j = Job("dir", j.object, j.legal) /\ j.object \in Trees /\ j.legal \in BOOLEAN
      BY <3>1, <2>2, JobKinds
    <3> QED BY <1>2, <1>b, <2>2, <3>2 DEF Expanded
  <2>3. ASSUME NEW k \in claimed
        PROVE  DirKeys(Children(k)) \subseteq claimed
    <3>1. PICK t \in Trees, h \in BOOLEAN : k = <<t, h>>
      BY <1>a DEF Keys
    <3> QED BY <2>2, <3>1, InToSet DEF DirKeys
  <2> QED BY <1>a, <2>1, <2>3, KeysLeast
<1>4. ASSUME NEW b \in LegalBlobs PROVE b \in legal
  <2>1. PICK t \in Trees, h \in BOOLEAN :
          <<t, h>> \in ReachableKeys /\ In(Job("file", b, TRUE), Children(<<t, h>>))
    BY <1>a, LegalFacts
  <2>2. PICK j : j = Job("file", b, TRUE)
    OBVIOUS
  <2>3. j.kind = "file" /\ j.object = b
    BY <2>2 DEF Job
  <2>4. In(j, Children(<<t, h>>)) /\ Children(<<t, h>>) \in Seq(EntryType)
    BY <1>a, <2>1, <2>2, ChildrenType
  <2>5. j \in EntryType
    BY <2>4 DEF In
  <2>6. b \in Blobs
    BY <2>3, <2>5, JobKinds
  <2> QED BY <1>2, <1>3, <1>b, <2>1, <2>6 DEF Expanded
<1> QED BY <1>4

(* A collection that succeeds has found every blob that some commit holds  *)
(* under a legal path, and no other, whatever the workers' order.          *)
THEOREM Complete == Spec => []CompleteLegal
<1>1. ASSUME Inv PROVE CompleteLegal
  <2>1. legal \subseteq LegalBlobs
    BY <1>1 DEF Inv, TypeOK, Within
  <2> QED BY <1>1, <2>1, AllFound DEF CompleteLegal
<1> QED BY <1>1, Invariance, PTL

-----------------------------------------------------------------------------
(* The bytes of a tree.                                                    *)

(* Of several numbers one is the least.                                    *)
LEMMA LeastNumber ==
  ASSUME NEW S \in SUBSET Nat, S # {}
  PROVE  \E m \in S : \A k \in S : m <= k
<1>1. PICK m \in S : \A k \in S : ~(<<k, m>> \in OpToRel(<, Nat))
  BY NatLessThanWellFounded, WFMin
<1>2. \A k \in S : ~(k < m)
  BY <1>1 DEF OpToRel
<1> QED BY <1>2

(* Whether i is where the first b of s is, or 0 and there is none.         *)
FirstAt(s, b, i) ==
  IF i = 0 THEN \A j \in 1..Len(s) : s[j] # b
  ELSE i \in 1..Len(s) /\ s[i] = b /\ \A j \in 1..(i - 1) : s[j] # b

(* What looking for a byte finds.                                          *)
LEMMA IndexByteFinds ==
  ASSUME NEW s \in Seq(Bytes), NEW b
  PROVE  IndexByte(s, b) \in Nat /\ FirstAt(s, b, IndexByte(s, b))
<1> DEFINE I == {j \in 1..Len(s) : s[j] = b}
<1>1. Len(s) \in Nat /\ I \in SUBSET Nat
  OBVIOUS
<1>2. IndexByte(s, b) = IF I # {} THEN Min(I) ELSE 0
  BY DEF IndexByte, SelectInSeq
<1>3. CASE I = {}
  <2>1. \A j \in 1..Len(s) : s[j] # b
    BY <1>3
  <2>2. IndexByte(s, b) = 0
    BY <1>2, <1>3
  <2> QED BY <2>1, <2>2 DEF FirstAt
<1>4. CASE I # {}
  <2>1. PICK m \in I : \A k \in I : m <= k
    BY <1>1, <1>4, LeastNumber
  <2>2. Min(I) \in I /\ \A k \in I : Min(I) <= k
    BY <2>1 DEF Min
  <2>3. PICK i : i = Min(I)
    OBVIOUS
  <2>4. IndexByte(s, b) = i
    BY <1>2, <1>4, <2>3
  <2>5. i \in 1..Len(s) /\ s[i] = b /\ \A k \in 1..Len(s) : s[k] = b => i <= k
    BY <2>2, <2>3
  <2>6. \A j \in 1..(i - 1) : s[j] # b
    <3>1. \A j \in 1..(i - 1) : j \in 1..Len(s) /\ ~(i <= j)
      BY <2>5, <1>1
    <3> QED BY <3>1, <2>5
  <2>7. i \in Nat /\ i # 0
    BY <2>5, <1>1
  <2> QED BY <2>4, <2>5, <2>6, <2>7 DEF FirstAt
<1> QED BY <1>3, <1>4

(* A part of some bytes.                                                   *)
LEMMA PartFacts ==
  ASSUME NEW s \in Seq(Bytes), NEW m \in Nat, NEW n \in Nat, m <= n, n <= Len(s)
  PROVE  /\ SubSeq(s, m + 1, n) \in Seq(Bytes)
         /\ Len(SubSeq(s, m + 1, n)) = n - m
         /\ \A i \in 1..(n - m) : SubSeq(s, m + 1, n)[i] = s[m + i]
<1>1. Len(s) \in Nat /\ \A i \in 1..Len(s) : s[i] \in Bytes
  OBVIOUS
<1>2. SubSeq(s, m + 1, n) = [i \in 1..(n - m) |-> s[m + i]]
  OBVIOUS
<1>3. \A i \in 1..(n - m) : m + i \in 1..Len(s)
  BY <1>1
<1>4. n - m \in Nat
  OBVIOUS
<1> QED BY <1>1, <1>2, <1>3, <1>4

(* Some bytes and others after them.                                       *)
LEMMA JoinFacts ==
  ASSUME NEW s \in Seq(Bytes), NEW t \in Seq(Bytes)
  PROVE  /\ s \o t \in Seq(Bytes)
         /\ Len(s \o t) = Len(s) + Len(t)
         /\ \A i \in 1..Len(s) : (s \o t)[i] = s[i]
         /\ \A i \in 1..Len(t) : (s \o t)[Len(s) + i] = t[i]
<1>1. Len(s) \in Nat /\ Len(t) \in Nat
  OBVIOUS
<1>2. s \o t \in Seq(Bytes) /\ Len(s \o t) = Len(s) + Len(t)
  OBVIOUS
<1>3. \A i \in 1..Len(s) : (s \o t)[i] = s[i]
  OBVIOUS
<1>4. ASSUME NEW i \in 1..Len(t) PROVE (s \o t)[Len(s) + i] = t[i]
  <2>1. Len(s) + i \in 1..(Len(s) + Len(t)) /\ ~(Len(s) + i <= Len(s))
        /\ (Len(s) + i) - Len(s) = i
    BY <1>1
  <2> QED BY <2>1
<1> QED BY <1>2, <1>3, <1>4

(* Where entry k of tree t has its mode, name and object id, and that they *)
(* are within the tree.                                                    *)
EntryAt(t, k) ==
  LET at == t.starts[k]
      e == t.entries[k]
      n == Len(e.name) IN
  /\ at \in Nat /\ n \in Nat \ {0}
  /\ e.mode \in Modes /\ e.name \in Seq(Bytes) /\ e.oid \in Seq(Bytes)
  /\ Len(e.oid) = HashSize
  /\ t.starts[k + 1] = at + 3 + n + HashSize
  /\ t.starts[k + 1] <= Len(t.bytes)
  /\ t.bytes[at + 1] = e.mode
  /\ t.bytes[at + 2] = Space
  /\ \A j \in 1..n : t.bytes[at + 2 + j] = e.name[j] /\ e.name[j] # NUL
  /\ t.bytes[at + 2 + n + 1] = NUL
  /\ \A j \in 1..HashSize : t.bytes[at + 3 + n + j] = e.oid[j]

(* The types of what a tree is made of.                                    *)
LEMMA TreeParts ==
  ASSUME NEW t \in StoredTrees
  PROVE  /\ t.bytes \in Seq(Bytes) /\ t.size \in Nat /\ t.size <= Len(t.bytes)
         /\ t.starts \in Seq(Nat) /\ Len(t.entries) \in Nat
         /\ DOMAIN t.entries = 1..Len(t.entries)
         /\ t.starts[1] = 0 /\ t.starts[Len(t.entries) + 1] = Len(t.bytes)
         /\ \A k \in 1..(Len(t.entries) + 1) : t.starts[k] \in Nat
<1>1. t \in StoredType /\ LaidOut(t) /\ t.size <= Len(t.bytes)
  BY TreeAssumption
<1>2. /\ t.bytes \in Seq(Bytes) /\ t.size \in Nat /\ t.starts \in Seq(Nat)
      /\ t.entries \in Seq([mode: Modes, name: Seq(Bytes), oid: Seq(Bytes)])
  BY <1>1 DEF StoredType
<1>3. Len(t.entries) \in Nat /\ DOMAIN t.entries = 1..Len(t.entries)
  BY <1>2
<1>4. /\ Len(t.starts) = Len(t.entries) + 1 /\ t.starts[1] = 0
      /\ t.starts[Len(t.entries) + 1] = Len(t.bytes)
  BY <1>1 DEF LaidOut
<1>5. \A k \in 1..(Len(t.entries) + 1) : t.starts[k] \in Nat
  BY <1>2, <1>4
<1> QED BY <1>1, <1>2, <1>3, <1>4, <1>5

(* The encoding of an entry, byte by byte.                                 *)
LEMMA EncodingBytes ==
  ASSUME NEW e \in [mode: Modes, name: Seq(Bytes), oid: Seq(Bytes)]
  PROVE  LET n == Len(e.name)
             b == Encoding(e) IN
         /\ Len(b) = 3 + n + Len(e.oid)
         /\ b[1] = e.mode /\ b[2] = Space
         /\ \A j \in 1..n : b[2 + j] = e.name[j]
         /\ b[2 + n + 1] = NUL
         /\ \A j \in 1..Len(e.oid) : b[3 + n + j] = e.oid[j]
<1> DEFINE first == <<e.mode, Space>>
           upToName == first \o e.name
           upToEnd == upToName \o <<NUL>>
           n == Len(e.name)
<1>1. /\ first \in Seq(Bytes) /\ Len(first) = 2 /\ first[1] = e.mode /\ first[2] = Space
      /\ <<NUL>> \in Seq(Bytes) /\ Len(<<NUL>>) = 1 /\ <<NUL>>[1] = NUL
      /\ e.name \in Seq(Bytes) /\ e.oid \in Seq(Bytes)
      /\ n \in Nat /\ Len(e.oid) \in Nat
  <2>1. e.mode \in Bytes /\ Space \in Bytes /\ NUL \in Bytes
    <3>1. e.mode \in Modes
      OBVIOUS
    <3> QED BY <3>1, TreeAssumption
  <2>2. e.name \in Seq(Bytes) /\ e.oid \in Seq(Bytes)
    OBVIOUS
  <2>3. \A x, y \in Bytes : /\ <<x, y>> \in Seq(Bytes) /\ Len(<<x, y>>) = 2
                              /\ <<x, y>>[1] = x /\ <<x, y>>[2] = y
                              /\ <<y>> \in Seq(Bytes) /\ Len(<<y>>) = 1 /\ <<y>>[1] = y
    OBVIOUS
  <2>4. n \in Nat /\ Len(e.oid) \in Nat
    BY <2>2
  <2> QED BY <2>1, <2>2, <2>3, <2>4
<1>2. Encoding(e) = upToEnd \o e.oid
  BY DEF Encoding
<1>3. /\ upToName \in Seq(Bytes) /\ Len(upToName) = 2 + n
      /\ upToName[1] = e.mode /\ upToName[2] = Space
      /\ \A j \in 1..n : upToName[2 + j] = e.name[j]
  <2>1. /\ upToName \in Seq(Bytes) /\ Len(upToName) = Len(first) + n
        /\ \A i \in 1..Len(first) : upToName[i] = first[i]
        /\ \A i \in 1..n : upToName[Len(first) + i] = e.name[i]
    BY <1>1, JoinFacts
  <2> HIDE DEF upToName, first, n
  <2>2. 1 \in 1..Len(first) /\ 2 \in 1..Len(first)
    BY <1>1
  <2> QED BY <2>1, <2>2, <1>1
<1> HIDE DEF upToName
<1>4. /\ upToEnd \in Seq(Bytes) /\ Len(upToEnd) = 3 + n
      /\ upToEnd[1] = e.mode /\ upToEnd[2] = Space
      /\ \A j \in 1..n : upToEnd[2 + j] = e.name[j]
      /\ upToEnd[2 + n + 1] = NUL
  <2>1. /\ upToEnd \in Seq(Bytes) /\ Len(upToEnd) = Len(upToName) + 1
        /\ \A i \in 1..Len(upToName) : upToEnd[i] = upToName[i]
        /\ \A i \in 1..1 : upToEnd[Len(upToName) + i] = <<NUL>>[i]
    BY <1>1, <1>3, JoinFacts
  <2> HIDE DEF upToEnd, first, n
  <2>2. 1 \in 1..Len(upToName) /\ 2 \in 1..Len(upToName) /\ 1 \in 1..1
        /\ \A j \in 1..n : 2 + j \in 1..Len(upToName)
    BY <1>1, <1>3
  <2>3. Len(upToEnd) = 3 + n
    BY <2>1, <1>3, <1>1
  <2>4. upToEnd[2 + n + 1] = NUL
    BY <2>1, <2>2, <1>3, <1>1
  <2> QED BY <2>1, <2>2, <2>3, <2>4, <1>3
<1> HIDE DEF upToEnd
<1>5. /\ Len(Encoding(e)) = Len(upToEnd) + Len(e.oid)
      /\ \A i \in 1..Len(upToEnd) : Encoding(e)[i] = upToEnd[i]
      /\ \A i \in 1..Len(e.oid) : Encoding(e)[Len(upToEnd) + i] = e.oid[i]
  <2>1. /\ Len(upToEnd \o e.oid) = Len(upToEnd) + Len(e.oid)
        /\ \A i \in 1..Len(upToEnd) : (upToEnd \o e.oid)[i] = upToEnd[i]
        /\ \A i \in 1..Len(e.oid) : (upToEnd \o e.oid)[Len(upToEnd) + i] = e.oid[i]
    <3>1. PICK u \in Seq(Bytes), o \in Seq(Bytes) : u = upToEnd /\ o = e.oid
      BY <1>1, <1>4
    <3>2. /\ Len(u \o o) = Len(u) + Len(o)
          /\ \A i \in 1..Len(u) : (u \o o)[i] = u[i]
          /\ \A i \in 1..Len(o) : (u \o o)[Len(u) + i] = o[i]
      BY ONLY JoinFacts, u \in Seq(Bytes), o \in Seq(Bytes)
    <3> QED BY ONLY <3>1, <3>2
  <2> QED BY <2>1, <1>2
<1> HIDE DEF n, first
<1>6. 1 \in 1..Len(upToEnd) /\ 2 \in 1..Len(upToEnd) /\ 2 + n + 1 \in 1..Len(upToEnd)
      /\ \A j \in 1..n : 2 + j \in 1..Len(upToEnd)
  BY <1>1, <1>4
<1>7. /\ Len(Encoding(e)) = 3 + n + Len(e.oid)
      /\ Encoding(e)[1] = e.mode /\ Encoding(e)[2] = Space
      /\ \A j \in 1..n : Encoding(e)[2 + j] = e.name[j]
      /\ Encoding(e)[2 + n + 1] = NUL
      /\ \A j \in 1..Len(e.oid) : Encoding(e)[3 + n + j] = e.oid[j]
  BY <1>4, <1>5, <1>6
<1> QED BY <1>7 DEF n

(* The bytes of an entry are its encoding.                                 *)
LEMMA EntryBytes ==
  ASSUME NEW t \in StoredTrees, NEW k \in 1..Len(t.entries)
  PROVE  EntryAt(t, k)
<1> DEFINE at == t.starts[k]
           e == t.entries[k]
           n == Len(e.name)
           b == Encoding(e)
<1>1. /\ Len(t.entries) \in Nat /\ at \in Nat /\ t.bytes \in Seq(Bytes) /\ k \in DOMAIN t.entries
  BY TreeParts
<1>2. e \in [mode: Modes, name: Seq(Bytes), oid: Seq(Bytes)]
  <2>1. t \in StoredType
    BY TreeAssumption
  <2>2. t.entries \in Seq([mode: Modes, name: Seq(Bytes), oid: Seq(Bytes)])
    BY <2>1 DEF StoredType
  <2>3. \A S : \A s \in Seq(S) : \A i \in DOMAIN s : s[i] \in S
    OBVIOUS
  <2> QED BY ONLY <2>2, <2>3, <1>1
<1>3. /\ t.starts[k + 1] = at + Len(b)
      /\ t.starts[k + 1] <= Len(t.bytes)
      /\ SubSeq(t.bytes, at + 1, t.starts[k + 1]) = b
  BY TreeAssumption DEF LaidOut
<1>4. Len(e.oid) = HashSize /\ e.name # <<>> /\ NUL \notin ToSet(e.name)
      /\ HashSize \in Nat
  BY <1>1, TreeAssumption
<1>5. /\ Len(b) = 3 + n + HashSize
      /\ b[1] = e.mode /\ b[2] = Space
      /\ \A j \in 1..n : b[2 + j] = e.name[j]
      /\ b[2 + n + 1] = NUL
      /\ \A j \in 1..HashSize : b[3 + n + j] = e.oid[j]
  BY <1>2, <1>4, EncodingBytes
<1>6. n \in Nat \ {0} /\ e.mode \in Modes /\ e.name \in Seq(Bytes) /\ e.oid \in Seq(Bytes)
  BY <1>2, <1>4
<1>7. \A j \in 1..n : e.name[j] # NUL
  BY <1>4, <1>6 DEF ToSet
<1> HIDE DEF b, e, at, n
<1>8. /\ t.starts[k + 1] = at + 3 + n + HashSize /\ t.starts[k + 1] - at = 3 + n + HashSize
      /\ at <= t.starts[k + 1] /\ t.starts[k + 1] \in Nat
  BY <1>1, <1>3, <1>4, <1>5, <1>6
<1>9. \A i \in 1..(3 + n + HashSize) : t.bytes[at + i] = b[i]
  <2>1. PICK m \in Nat : m = at
    BY <1>1
  <2>2. PICK to \in Nat : to = t.starts[k + 1]
    BY <1>8
  <2>3. m <= to /\ to <= Len(t.bytes) /\ to - m = 3 + n + HashSize
    BY <1>3, <1>8, <2>1, <2>2
  <2>4. \A i \in 1..(to - m) : SubSeq(t.bytes, m + 1, to)[i] = t.bytes[m + i]
    BY <1>1, <2>3, PartFacts
  <2>5. SubSeq(t.bytes, m + 1, to) = b
    BY <1>3, <2>1, <2>2
  <2> QED BY <2>1, <2>3, <2>4, <2>5
<1>10. /\ 1 \in 1..(3 + n + HashSize) /\ 2 \in 1..(3 + n + HashSize)
       /\ 2 + n + 1 \in 1..(3 + n + HashSize)
       /\ \A j \in 1..n : 2 + j \in 1..(3 + n + HashSize) /\ at + (2 + j) = at + 2 + j
       /\ \A j \in 1..HashSize :
            3 + n + j \in 1..(3 + n + HashSize) /\ at + (3 + n + j) = at + 3 + n + j
       /\ at + (2 + n + 1) = at + 2 + n + 1
  BY <1>1, <1>4, <1>6
<1>11. /\ t.bytes[at + 1] = e.mode
       /\ t.bytes[at + 2] = Space
       /\ \A j \in 1..n : t.bytes[at + 2 + j] = e.name[j]
       /\ t.bytes[at + 2 + n + 1] = NUL
       /\ \A j \in 1..HashSize : t.bytes[at + 3 + n + j] = e.oid[j]
  BY ONLY <1>5, <1>9, <1>10
<1> QED BY <1>1, <1>3, <1>4, <1>6, <1>7, <1>8, <1>11 DEF EntryAt, at, e, n

-----------------------------------------------------------------------------
(* The bytes that are still to be taken apart.                             *)

(* u is what tree t has from byte at + 1 on, and d what it has after that, *)
(* up to where it is cut.                                                  *)
Window(t, at, u, d) ==
  /\ at \in Nat
  /\ at + Len(u) + Len(d) = t.size
  /\ \A i \in 1..Len(u) : u[i] = t.bytes[at + i]
  /\ \A i \in 1..Len(d) : d[i] = t.bytes[at + Len(u) + i]

(* At first nothing has been read.                                         *)
LEMMA WindowStart ==
  ASSUME NEW t \in StoredTrees
  PROVE  /\ SubSeq(t.bytes, 1, t.size) \in Seq(Bytes)
         /\ Window(t, 0, <<>>, SubSeq(t.bytes, 1, t.size))
<1>1. t.bytes \in Seq(Bytes) /\ t.size \in Nat /\ t.size <= Len(t.bytes)
  BY TreeParts
<1>2. PICK z \in Nat : z = t.size
  BY <1>1
<1>3. /\ SubSeq(t.bytes, 0 + 1, z) \in Seq(Bytes) /\ Len(SubSeq(t.bytes, 0 + 1, z)) = z - 0
      /\ \A i \in 1..(z - 0) : SubSeq(t.bytes, 0 + 1, z)[i] = t.bytes[0 + i]
  BY <1>1, <1>2, PartFacts
<1>4. PICK d : d = SubSeq(t.bytes, 1, t.size)
  OBVIOUS
<1>5. d = SubSeq(t.bytes, 0 + 1, z) /\ z - 0 = z /\ \A i \in 1..z : 0 + i = i
  BY <1>2, <1>4
<1>6. d \in Seq(Bytes) /\ Len(d) = z /\ \A i \in 1..z : d[i] = t.bytes[i]
  BY ONLY <1>3, <1>5
<1>7. \A e : Len(e) = 0 => 1..Len(e) = {}
  OBVIOUS
<1>8. Len(<<>>) = 0 /\ 0 \in Nat /\ 0 + Len(<<>>) + z = z
      /\ \A i \in 1..z : 0 + Len(<<>>) + i = i
  OBVIOUS
<1>9. Window(t, 0, <<>>, d)
  BY <1>2, <1>6, <1>7, <1>8 DEF Window
<1> QED BY <1>4, <1>6, <1>9

(* Some of the unread bytes are consumed.                                  *)
LEMMA WindowMove ==
  ASSUME NEW t \in StoredTrees, NEW at, NEW u \in Seq(Bytes), NEW d \in Seq(Bytes),
         Window(t, at, u, d), NEW n \in Nat, n <= Len(u)
  PROVE  /\ SubSeq(u, n + 1, Len(u)) \in Seq(Bytes)
         /\ Len(SubSeq(u, n + 1, Len(u))) = Len(u) - n
         /\ Window(t, at + n, SubSeq(u, n + 1, Len(u)), d)
<1>1. PICK l \in Nat : l = Len(u)
  OBVIOUS
<1>2. PICK v : v = SubSeq(u, n + 1, l)
  OBVIOUS
<1>3. v \in Seq(Bytes) /\ Len(v) = l - n /\ \A i \in 1..(l - n) : v[i] = u[n + i]
  BY <1>1, <1>2, PartFacts
<1>4. /\ at \in Nat /\ at + l + Len(d) = t.size
      /\ \A i \in 1..l : u[i] = t.bytes[at + i]
      /\ \A i \in 1..Len(d) : d[i] = t.bytes[at + l + i]
  BY <1>1 DEF Window
<1>5. Len(d) \in Nat /\ n <= l
  BY <1>1
<1>6. at + n \in Nat /\ (at + n) + Len(v) + Len(d) = t.size
  BY <1>3, <1>4, <1>5
<1>7. \A i \in 1..Len(v) : v[i] = t.bytes[(at + n) + i]
  <2>1. \A i \in 1..Len(v) : n + i \in 1..l /\ (at + n) + i = at + (n + i)
    BY <1>3, <1>4, <1>5
  <2> QED BY <2>1, <1>3, <1>4
<1>8. \A i \in 1..Len(d) : d[i] = t.bytes[(at + n) + Len(v) + i]
  <2>1. \A i \in 1..Len(d) : (at + n) + Len(v) + i = at + l + i
    BY <1>3, <1>4, <1>5
  <2> QED BY <2>1, <1>4
<1>9. Window(t, at + n, v, d)
  BY <1>6, <1>7, <1>8 DEF Window
<1> QED BY <1>1, <1>2, <1>3, <1>9

(* More bytes arrive behind the unread ones.                               *)
LEMMA WindowFill ==
  ASSUME NEW t \in StoredTrees, NEW at, NEW u \in Seq(Bytes), NEW d \in Seq(Bytes),
         Window(t, at, u, d), NEW n \in Nat, n <= Len(d)
  PROVE  /\ SubSeq(d, n + 1, Len(d)) \in Seq(Bytes)
         /\ Window(t, at, u \o SubSeq(d, 1, n), SubSeq(d, n + 1, Len(d)))
<1>1. PICK l \in Nat : l = Len(d)
  OBVIOUS
<1>2. PICK rest : rest = SubSeq(d, n + 1, l)
  OBVIOUS
<1>3. rest \in Seq(Bytes) /\ Len(rest) = l - n /\ \A i \in 1..(l - n) : rest[i] = d[n + i]
  BY <1>1, <1>2, PartFacts
<1>4. PICK more : more = SubSeq(d, 0 + 1, n)
  OBVIOUS
<1>5. more \in Seq(Bytes) /\ Len(more) = n - 0 /\ \A i \in 1..(n - 0) : more[i] = d[0 + i]
  BY <1>1, <1>4, PartFacts
<1>6. Len(more) = n /\ \A i \in 1..n : more[i] = d[i]
  BY <1>5
<1>7. PICK v : v = u \o more
  OBVIOUS
<1>8. /\ v \in Seq(Bytes) /\ Len(v) = Len(u) + n
      /\ \A i \in 1..Len(u) : v[i] = u[i]
      /\ \A i \in 1..n : v[Len(u) + i] = d[i]
  BY <1>5, <1>6, <1>7, JoinFacts
<1>9. /\ at \in Nat /\ at + Len(u) + l = t.size
      /\ \A i \in 1..Len(u) : u[i] = t.bytes[at + i]
      /\ \A i \in 1..l : d[i] = t.bytes[at + Len(u) + i]
  BY <1>1 DEF Window
<1>10. Len(u) \in Nat /\ n <= l
  BY <1>1
<1>11. at + Len(v) + Len(rest) = t.size
  BY <1>3, <1>8, <1>9, <1>10
<1>12. ASSUME NEW i \in 1..Len(v) PROVE v[i] = t.bytes[at + i]
  <2>1. CASE i <= Len(u)
    <3>1. i \in 1..Len(u)
      BY <2>1, <1>8, <1>10
    <3> QED BY <3>1, <1>8, <1>9
  <2>2. CASE ~(i <= Len(u))
    <3>1. i - Len(u) \in 1..n /\ i - Len(u) \in 1..l /\ Len(u) + (i - Len(u)) = i
          /\ at + Len(u) + (i - Len(u)) = at + i
      BY <2>2, <1>8, <1>9, <1>10
    <3>2. v[Len(u) + (i - Len(u))] = d[i - Len(u)]
      BY <3>1, <1>8
    <3>3. d[i - Len(u)] = t.bytes[at + Len(u) + (i - Len(u))]
      BY <3>1, <1>9
    <3> QED BY ONLY <3>1, <3>2, <3>3
  <2> QED BY <2>1, <2>2
<1>13. ASSUME NEW i \in 1..Len(rest) PROVE rest[i] = t.bytes[at + Len(v) + i]
  <2>1. i \in 1..(l - n) /\ n + i \in 1..l /\ at + Len(v) + i = at + Len(u) + (n + i)
    BY <1>3, <1>8, <1>9, <1>10
  <2>2. rest[i] = d[n + i] /\ d[n + i] = t.bytes[at + Len(u) + (n + i)]
    BY <2>1, <1>3, <1>9
  <2> QED BY ONLY <2>1, <2>2
<1>14. Window(t, at, v, rest)
  BY <1>9, <1>11, <1>12, <1>13 DEF Window
<1>15. more = SubSeq(d, 1, n)
  BY <1>4
<1> QED BY <1>1, <1>2, <1>3, <1>7, <1>14, <1>15

(* What is all in memory may be seen as read or as unread.                 *)
LEMMA WindowInMemory ==
  ASSUME NEW t, NEW at, NEW d \in Seq(Bytes)
  PROVE  Window(t, at, <<>>, d) <=> Window(t, at, d, <<>>)
<1>1. PICK l \in Nat : l = Len(d)
  OBVIOUS
<1>2. PICK e : e = <<>>
  OBVIOUS
<1>3. Len(e) = 0 /\ \A i \in 1..Len(e) : FALSE
  BY <1>2
<1>4. ASSUME at \in Nat
      PROVE  /\ at + Len(e) + l = at + l + Len(e)
             /\ \A i \in 1..l : at + Len(e) + i = at + i
  BY <1>3, <1>4
<1>5. Window(t, at, e, d) <=> Window(t, at, d, e)
  BY <1>1, <1>3, <1>4 DEF Window
<1> QED BY <1>2, <1>5

(* The first byte that looks like b is the one that is, if there is one.   *)
LEMMA FirstIsAt ==
  ASSUME NEW s \in Seq(Bytes), NEW b, NEW m \in Nat \ {0},
         \A j \in 1..Len(s) : j < m => s[j] # b,
         m <= Len(s) => s[m] = b
  PROVE  IndexByte(s, b) = IF m <= Len(s) THEN m ELSE 0
<1>1. PICK i \in Nat : i = IndexByte(s, b)
  BY IndexByteFinds
<1>2. FirstAt(s, b, i) /\ Len(s) \in Nat
  BY <1>1, IndexByteFinds
<1>3. CASE i = 0
  <2>1. \A j \in 1..Len(s) : s[j] # b
    BY <1>2, <1>3 DEF FirstAt
  <2>2. ~(m <= Len(s))
    <3>1. SUFFICES ASSUME m <= Len(s) PROVE FALSE
      OBVIOUS
    <3>2. m \in 1..Len(s)
      BY <3>1, <1>2
    <3> QED BY <3>1, <3>2, <2>1
  <2> QED BY <2>2, <1>1, <1>3
<1>4. CASE i # 0
  <2>1. i \in 1..Len(s) /\ s[i] = b /\ \A j \in 1..(i - 1) : s[j] # b
    BY <1>2, <1>4 DEF FirstAt
  <2>2. ~(i < m)
    BY <2>1
  <2>3. m <= Len(s)
    BY <2>1, <2>2, <1>2
  <2>4. ~(m < i)
    <3>1. SUFFICES ASSUME m < i PROVE FALSE
      OBVIOUS
    <3>2. m \in 1..(i - 1)
      BY <3>1, <1>1
    <3> QED BY <3>2, <2>1, <2>3
  <2> QED BY <1>1, <2>2, <2>3, <2>4
<1> QED BY <1>3, <1>4

(* What is unread does not go past the end of the tree.                    *)
LEMMA WindowInside ==
  ASSUME NEW t \in StoredTrees, NEW at \in Nat, NEW u \in Seq(Bytes), NEW d \in Seq(Bytes),
         Window(t, at, u, d)
  PROVE  /\ Len(u) \in Nat /\ Len(d) \in Nat /\ t.size \in Nat /\ Len(t.bytes) \in Nat
         /\ at + Len(u) <= t.size /\ t.size <= Len(t.bytes)
         /\ \A i \in 1..Len(u) : u[i] = t.bytes[at + i]
<1>1. t.size \in Nat /\ t.size <= Len(t.bytes) /\ t.bytes \in Seq(Bytes)
  BY TreeParts
<1>2. Len(u) \in Nat /\ Len(d) \in Nat /\ at + Len(u) + Len(d) = t.size
  BY DEF Window
<1>3. Len(t.bytes) \in Nat
  BY <1>1
<1> QED BY <1>1, <1>2, <1>3 DEF Window

(* Where an entry begins, the space is the second byte, if it has come;    *)
(* where the last one ends, nothing comes.                                 *)
LEMMA ModeField ==
  ASSUME NEW t \in StoredTrees, NEW k \in 1..(Len(t.entries) + 1),
         NEW u \in Seq(Bytes), NEW d \in Seq(Bytes), Window(t, t.starts[k], u, d)
  PROVE  /\ IndexByte(u, Space) = IF 2 <= Len(u) THEN 2 ELSE 0
         /\ Len(u) >= 1 => /\ k \in 1..Len(t.entries)
                           /\ u[1] = t.entries[k].mode
                           /\ u[1] \in Modes
<1>1. PICK at \in Nat : at = t.starts[k]
  BY TreeParts
<1>2. /\ Len(u) \in Nat /\ Len(d) \in Nat /\ t.size \in Nat /\ Len(t.bytes) \in Nat
      /\ at + Len(u) <= t.size /\ t.size <= Len(t.bytes)
      /\ \A i \in 1..Len(u) : u[i] = t.bytes[at + i]
  BY <1>1, WindowInside
<1>3. Len(t.entries) \in Nat /\ t.starts[Len(t.entries) + 1] = Len(t.bytes)
  BY TreeParts
<1>4. ASSUME Len(u) >= 1
      PROVE  /\ k \in 1..Len(t.entries) /\ u[1] = t.entries[k].mode /\ u[1] \in Modes
             /\ 2 <= Len(u) => u[2] = Space
  <2>1. k # Len(t.entries) + 1
    BY <1>1, <1>2, <1>3, <1>4
  <2>2. k \in 1..Len(t.entries)
    BY <2>1, <1>3
  <2>3. EntryAt(t, k)
    BY <2>2, EntryBytes
  <2>4. /\ t.bytes[at + 1] = t.entries[k].mode /\ t.entries[k].mode \in Modes
        /\ t.bytes[at + 2] = Space
    BY <2>3, <1>1 DEF EntryAt
  <2>5. 1 \in 1..Len(u) /\ (2 <= Len(u) => 2 \in 1..Len(u))
    BY <1>2, <1>4
  <2> QED BY <2>2, <2>4, <2>5, <1>2
<1>5. Space \notin Modes
  BY DEF Space, Modes
<1>6. \A j \in 1..Len(u) : j < 2 => u[j] # Space
  <2>1. \A j \in 1..Len(u) : j < 2 => j = 1 /\ Len(u) >= 1
    BY <1>2
  <2> QED BY <2>1, <1>4, <1>5
<1>7. 2 <= Len(u) => u[2] = Space
  BY <1>2, <1>4
<1>8. IndexByte(u, Space) = IF 2 <= Len(u) THEN 2 ELSE 0
  BY <1>6, <1>7, FirstIsAt
<1> QED BY <1>4, <1>8

(* After the mode and the space, the first NUL ends the name.              *)
LEMMA NameField ==
  ASSUME NEW t \in StoredTrees, NEW k \in 1..Len(t.entries),
         NEW u \in Seq(Bytes), NEW d \in Seq(Bytes), Window(t, t.starts[k] + 2, u, d),
         NEW n, n = Len(t.entries[k].name)
  PROVE  /\ n \in Nat \ {0}
         /\ IndexByte(u, NUL) = IF n + 1 <= Len(u) THEN n + 1 ELSE 0
         /\ n + 1 <= Len(u) => SubSeq(u, 1, n) = t.entries[k].name
<1>1. EntryAt(t, k)
  BY EntryBytes
<1>2. PICK at \in Nat : at = t.starts[k] + 2
  BY <1>1 DEF EntryAt
<1>3. /\ n \in Nat \ {0} /\ t.entries[k].name \in Seq(Bytes)
      /\ \A j \in 1..n : t.bytes[at + j] = t.entries[k].name[j] /\ t.entries[k].name[j] # NUL
      /\ t.bytes[at + n + 1] = NUL
  BY <1>1, <1>2 DEF EntryAt
<1>4. Len(u) \in Nat /\ \A i \in 1..Len(u) : u[i] = t.bytes[at + i]
  BY <1>2, WindowInside
<1>5. \A j \in 1..Len(u) : j < n + 1 => u[j] # NUL
  <2>1. \A j \in 1..Len(u) : j < n + 1 => j \in 1..n
    BY <1>3, <1>4
  <2> QED BY <2>1, <1>3, <1>4
<1>6. n + 1 <= Len(u) => u[n + 1] = NUL
  <2>1. n + 1 <= Len(u) => n + 1 \in 1..Len(u)
    BY <1>3, <1>4
  <2>2. at + (n + 1) = at + n + 1
    BY <1>3
  <2> QED BY <2>1, <2>2, <1>3, <1>4
<1>7. IndexByte(u, NUL) = IF n + 1 <= Len(u) THEN n + 1 ELSE 0
  <2>1. n + 1 \in Nat \ {0}
    BY <1>3
  <2> QED BY <2>1, <1>5, <1>6, FirstIsAt
<1>8. ASSUME n + 1 <= Len(u)
      PROVE  SubSeq(u, 1, n) = t.entries[k].name
  <2>1. PICK s : s = SubSeq(u, 0 + 1, n)
    OBVIOUS
  <2>2. s \in Seq(Bytes) /\ Len(s) = n - 0 /\ \A i \in 1..(n - 0) : s[i] = u[0 + i]
    BY <2>1, <1>3, <1>4, <1>8, PartFacts
  <2>3. \A i \in 1..n : i \in 1..Len(u) /\ 0 + i = i
    BY <1>3, <1>4, <1>8
  <2>4. n - 0 = n
    BY <1>3
  <2>5. \A i \in 1..n : s[i] = t.entries[k].name[i]
    BY <2>2, <2>3, <2>4, <1>3, <1>4
  <2>6. PICK e : e = t.entries[k].name
    OBVIOUS
  <2>7. s = e
    BY <2>2, <2>4, <2>5, <2>6, <1>3, SeqEqual
  <2> QED BY <2>1, <2>6, <2>7
<1> QED BY <1>3, <1>7, <1>8

(* Entry k begins after byte from, and its name has n bytes.               *)
BeginsWith(t, k, from, n) == from = t.starts[k] /\ n = Len(t.entries[k].name)

(* After the name comes the object id, at the end of which the next entry  *)
(* begins.                                                                 *)
LEMMA OidField ==
  ASSUME NEW t \in StoredTrees, NEW k \in 1..Len(t.entries),
         NEW u \in Seq(Bytes), NEW d \in Seq(Bytes),
         NEW from \in Nat, NEW n \in Nat, BeginsWith(t, k, from, n),
         NEW at \in Nat, at = from + (n + 3), Window(t, at, u, d)
  PROVE  /\ at + HashSize = t.starts[k + 1]
         /\ HashSize <= Len(u) =>
              /\ SubSeq(u, 1, HashSize) = t.entries[k].oid
              /\ t.starts[k + 1] <= t.size
         /\ t.size = Len(t.bytes) => HashSize <= Len(u) + Len(d)
<1>1. EntryAt(t, k)
  BY EntryBytes
<1>2. HashSize \in Nat
  BY TreeAssumption
<1>3. /\ t.starts[k + 1] = from + 3 + n + HashSize
      /\ t.starts[k + 1] <= Len(t.bytes)
      /\ t.entries[k].oid \in Seq(Bytes) /\ Len(t.entries[k].oid) = HashSize
      /\ \A j \in 1..HashSize : t.bytes[from + 3 + n + j] = t.entries[k].oid[j]
  BY <1>1 DEF EntryAt, BeginsWith
<1>4. Window(t, at, u, d)
  OBVIOUS
<1>5. /\ Len(u) \in Nat /\ Len(d) \in Nat /\ t.size \in Nat /\ at + Len(u) <= t.size
      /\ \A i \in 1..Len(u) : u[i] = t.bytes[at + i]
  BY WindowInside
<1>6. at + Len(u) + Len(d) = t.size
  BY <1>4 DEF Window
<1>7. at + HashSize = t.starts[k + 1]
  BY <1>2, <1>3
<1>8. t.size = Len(t.bytes) => HashSize <= Len(u) + Len(d)
  BY <1>2, <1>3, <1>5, <1>6, <1>7
<1>9. ASSUME HashSize <= Len(u)
       PROVE  SubSeq(u, 1, HashSize) = t.entries[k].oid /\ t.starts[k + 1] <= t.size
  <2>1. PICK s : s = SubSeq(u, 0 + 1, HashSize)
    OBVIOUS
  <2>2. /\ s \in Seq(Bytes) /\ Len(s) = HashSize - 0
        /\ \A i \in 1..(HashSize - 0) : s[i] = u[0 + i]
    BY <2>1, <1>2, <1>5, <1>9, PartFacts
  <2>3. \A i \in 1..HashSize : /\ i \in 1..Len(u) /\ 0 + i = i
                               /\ at + i = from + 3 + n + i
    BY <1>2, <1>5, <1>9
  <2>4. HashSize - 0 = HashSize
    BY <1>2
  <2>5. \A i \in 1..HashSize : s[i] = t.entries[k].oid[i]
    BY <2>2, <2>3, <2>4, <1>3, <1>5
  <2>6. PICK e : e = t.entries[k].oid
    OBVIOUS
  <2>7. s = e
    BY <2>2, <2>4, <2>5, <2>6, <1>3, SeqEqual
  <2>8. t.starts[k + 1] <= t.size
    BY <1>2, <1>5, <1>7, <1>9
  <2>9. 0 + 1 = 1
    OBVIOUS
  <2>10. SubSeq(u, 1, HashSize) = s
    BY ONLY <2>1, <2>9
  <2> QED BY ONLY <2>6, <2>7, <2>8, <2>10
<1> QED BY <1>7, <1>8, <1>9

(* What is left of a part, and where it is in the whole.                   *)
LEMMA PartOfPart ==
  ASSUME NEW s \in Seq(Bytes), NEW r \in Nat, NEW w \in Nat, NEW n \in Nat,
         r <= w, w <= Len(s), n <= w - r
  PROVE  SubSeq(s, (r + n) + 1, w) = SubSeq(SubSeq(s, r + 1, w), n + 1, w - r)
<1>1. PICK u : u = SubSeq(s, r + 1, w)
  OBVIOUS
<1>2. u \in Seq(Bytes) /\ Len(u) = w - r /\ \A i \in 1..(w - r) : u[i] = s[r + i]
  BY <1>1, PartFacts
<1>3. PICK a : a = SubSeq(s, (r + n) + 1, w)
  OBVIOUS
<1>4. r + n \in Nat /\ r + n <= w /\ w - r \in Nat
  OBVIOUS
<1>5. /\ a \in Seq(Bytes) /\ Len(a) = w - (r + n)
      /\ \A i \in 1..(w - (r + n)) : a[i] = s[(r + n) + i]
  BY <1>3, <1>4, PartFacts
<1>6. PICK b : b = SubSeq(u, n + 1, w - r)
  OBVIOUS
<1>7. b \in Seq(Bytes) /\ Len(b) = (w - r) - n /\ \A i \in 1..((w - r) - n) : b[i] = u[n + i]
  BY <1>2, <1>4, <1>6, PartFacts
<1>8. /\ w - (r + n) = (w - r) - n
      /\ \A i \in 1..((w - r) - n) : n + i \in 1..(w - r) /\ r + (n + i) = (r + n) + i
  OBVIOUS
<1>9. \A i \in 1..Len(a) : a[i] = b[i]
  BY <1>2, <1>5, <1>7, <1>8
<1>10. a = b
  BY <1>5, <1>7, <1>8, <1>9, SeqEqual
<1> QED BY ONLY <1>1, <1>3, <1>6, <1>10

(* The first part of what was put together.                                *)
LEMMA PartOfJoin ==
  ASSUME NEW s \in Seq(Bytes), NEW t \in Seq(Bytes)
  PROVE  SubSeq(s \o t, 0 + 1, Len(s)) = s
<1>1. PICK n \in Nat : n = Len(s)
  OBVIOUS
<1>2. PICK v : v = s \o t
  OBVIOUS
<1>3. v \in Seq(Bytes) /\ Len(v) = n + Len(t) /\ \A i \in 1..n : v[i] = s[i]
  BY <1>1, <1>2, JoinFacts
<1>4. PICK a : a = SubSeq(v, 0 + 1, n)
  OBVIOUS
<1>5. 0 \in Nat /\ 0 <= n /\ n <= Len(v)
  BY <1>1, <1>3
<1>6. a \in Seq(Bytes) /\ Len(a) = n - 0 /\ \A i \in 1..(n - 0) : a[i] = v[0 + i]
  BY <1>3, <1>4, <1>5, PartFacts
<1>7. n - 0 = n /\ \A i \in 1..n : 0 + i = i
  BY <1>1
<1>8. \A i \in 1..Len(a) : a[i] = s[i]
  BY <1>3, <1>6, <1>7
<1>9. Len(a) = Len(s)
  BY <1>1, <1>6, <1>7
<1>10. a = s
  BY <1>6, <1>8, <1>9, SeqEqual
<1> QED BY ONLY <1>1, <1>2, <1>4, <1>10

-----------------------------------------------------------------------------
(* Where the reading is.                                                   *)

(* Where in tree t field p of entry k begins.                              *)
Offset(t, k, p) ==
  IF p = "name" THEN t.starts[k] + 2
  ELSE IF p = "oid" THEN t.starts[k] + (Len(t.entries[k].name) + 3)
  ELSE t.starts[k]

(* Until the end, what is unread begins with the field that is due.        *)
InPlace ==
  pc # "returned" => Window(tree, Offset(tree, Len(taken) + 1, pc), Unread, data)

(* Within an entry there is one, and its mode is kept.                     *)
MidEntry ==
  pc \in {"name", "oid"} =>
    /\ Len(taken) + 1 \in 1..Len(tree.entries)
    /\ mode = tree.entries[Len(taken) + 1].mode

(* What comes as a whole does not pass through the buffer.                 *)
WholeInMemory == inMemory => readAt = 0 /\ writeAt = 0 /\ pc \in {"mode", "returned"}

(* What has been taken, tk, are entries of tree t.                         *)
TakenRight(t, tk) ==
  /\ tk \in Seq([mode: Modes, oid: Seq(Bytes), legal: BOOLEAN])
  /\ Len(tk) <= Len(t.entries)
  /\ \A i \in 1..Len(tk) : /\ t.starts[i + 1] <= t.size
                           /\ tk[i].mode = t.entries[i].mode
                           /\ tk[i].oid = t.entries[i].oid

LegalRight == inMemory => \A i \in 1..Len(taken) : taken[i].legal = LegalByName(tree.entries[i])

(* Why a tree is refused.                                                  *)
Refusable(t) ==
  \/ t.size < Len(t.bytes)
  \/ ~inMemory /\ \E i \in DOMAIN t.entries : Len(t.entries[i].name) >= BufferSize

Answered ==
  /\ result = "running" <=> pc # "returned"
  /\ result = "ok" => tree.size = tree.starts[Len(taken) + 1]
  /\ result = "malformed" => Refusable(tree)

(* The inductive invariant.                                                *)
ReaderInv ==
  /\ BufferTypeOK
  /\ tree \in StoredTrees
  /\ InPlace
  /\ MidEntry
  /\ WholeInMemory
  /\ TakenRight(tree, taken)
  /\ LegalRight
  /\ Answered
  /\ eof => data = <<>>

(* What the buffer holds that is unread.                                   *)
LEMMA UnreadFacts ==
  ASSUME ReaderInv
  PROVE  /\ Unread \in Seq(Bytes) /\ Len(Unread) = writeAt - readAt
         /\ readAt \in Nat /\ writeAt \in Nat /\ writeAt <= BufferSize /\ readAt <= writeAt
         /\ buf \in Seq(Bytes) /\ Len(buf) = BufferSize /\ BufferSize \in Nat
         /\ data \in Seq(Bytes)
<1>1. /\ buf \in Seq(Bytes) /\ Len(buf) = BufferSize /\ BufferSize \in Nat
      /\ readAt \in 0..writeAt /\ writeAt \in 0..BufferSize /\ data \in Seq(Bytes)
  BY TreeAssumption DEF ReaderInv, BufferTypeOK
<1>2. readAt \in Nat /\ writeAt \in Nat /\ writeAt <= BufferSize /\ readAt <= writeAt
  BY <1>1
<1>3. Unread \in Seq(Bytes) /\ Len(Unread) = writeAt - readAt
  BY <1>1, <1>2, PartFacts DEF Unread
<1> QED BY <1>1, <1>2, <1>3

(* The next entry has a number, and as much of the tree is taken as was.   *)
LEMMA TakenFacts ==
  ASSUME ReaderInv
  PROVE  /\ tree \in StoredTrees /\ Len(taken) \in Nat /\ Len(tree.entries) \in Nat
         /\ Len(taken) + 1 \in 1..(Len(tree.entries) + 1)
         /\ DOMAIN taken = 1..Len(taken)
         /\ DOMAIN tree.entries = 1..Len(tree.entries)
<1>1. tree \in StoredTrees /\ TakenRight(tree, taken)
  BY DEF ReaderInv
<1>2. taken \in Seq([mode: Modes, oid: Seq(Bytes), legal: BOOLEAN])
      /\ Len(taken) <= Len(tree.entries)
  BY <1>1 DEF TakenRight
<1>3. \A S : \A s \in Seq(S) : Len(s) \in Nat /\ DOMAIN s = 1..Len(s)
  OBVIOUS
<1>4. Len(taken) \in Nat /\ DOMAIN taken = 1..Len(taken)
  BY ONLY <1>2, <1>3
<1>5. Len(tree.entries) \in Nat /\ DOMAIN tree.entries = 1..Len(tree.entries)
  BY <1>1, TreeParts
<1>6. Len(taken) + 1 \in 1..(Len(tree.entries) + 1)
  BY <1>2, <1>4, <1>5
<1> QED BY <1>1, <1>4, <1>5, <1>6

(* Entry k of tree t, as it is taken.                                      *)
TakenFrom(t, k, x) ==
  /\ x \in [mode: Modes, oid: Seq(Bytes), legal: BOOLEAN]
  /\ x.mode = t.entries[k].mode
  /\ x.oid = t.entries[k].oid

(* a is tk with x after it, in place k.                                    *)
OneMore(a, tk, k, x) ==
  /\ Len(a) = k
  /\ a[k] = x
  /\ \A i \in 1..Len(tk) : a[i] = tk[i]

(* One more entry is taken.                                                *)
LEMMA TakeOne ==
  ASSUME NEW t \in StoredTrees, NEW tk, TakenRight(t, tk),
         NEW k \in 1..Len(t.entries), k = Len(tk) + 1, t.starts[k + 1] <= t.size,
         NEW x, TakenFrom(t, k, x)
  PROVE  TakenRight(t, Append(tk, x)) /\ OneMore(Append(tk, x), tk, k, x)
<1>0. /\ x \in [mode: Modes, oid: Seq(Bytes), legal: BOOLEAN]
       /\ x.mode = t.entries[k].mode /\ x.oid = t.entries[k].oid
  BY DEF TakenFrom
<1>1. /\ tk \in Seq([mode: Modes, oid: Seq(Bytes), legal: BOOLEAN])
      /\ \A i \in 1..Len(tk) : /\ t.starts[i + 1] <= t.size
                               /\ tk[i].mode = t.entries[i].mode
                               /\ tk[i].oid = t.entries[i].oid
  BY DEF TakenRight
<1>2. \A S : \A s \in Seq(S) : \A y \in S :
        /\ Append(s, y) \in Seq(S) /\ Len(s) \in Nat /\ Len(Append(s, y)) = Len(s) + 1
        /\ Append(s, y)[Len(s) + 1] = y
        /\ \A i \in 1..Len(s) : Append(s, y)[i] = s[i]
  OBVIOUS
<1>3. PICK a : a = Append(tk, x)
  OBVIOUS
<1>4. /\ a \in Seq([mode: Modes, oid: Seq(Bytes), legal: BOOLEAN]) /\ Len(tk) \in Nat
      /\ Len(a) = Len(tk) + 1 /\ a[Len(tk) + 1] = x /\ \A i \in 1..Len(tk) : a[i] = tk[i]
  BY ONLY <1>0, <1>1, <1>2, <1>3
<1>5. PICK n \in Nat : n = Len(tk)
  BY <1>4
<1>6. k = n + 1 /\ k <= Len(t.entries)
  <2>1. Len(t.entries) \in Nat
    BY TreeParts
  <2> QED BY <2>1, <1>5
<1>7. Len(a) = k /\ a[k] = x /\ \A i \in 1..n : a[i] = tk[i]
  BY <1>4, <1>5, <1>6
<1>8. \A i \in 1..k : i = k \/ i \in 1..n
  BY <1>6
<1>9. ASSUME NEW i \in 1..k
      PROVE  /\ t.starts[i + 1] <= t.size
             /\ a[i].mode = t.entries[i].mode
             /\ a[i].oid = t.entries[i].oid
  <2>1. CASE i = k
    BY <2>1, <1>0, <1>7
  <2>2. CASE i \in 1..n
    BY <2>2, <1>1, <1>5, <1>7
  <2> QED BY <2>1, <2>2, <1>8
<1>10. TakenRight(t, a)
  BY <1>4, <1>6, <1>7, <1>9 DEF TakenRight
<1> QED BY <1>3, <1>5, <1>7, <1>10 DEF OneMore

-----------------------------------------------------------------------------
(* One entry, field by field.                                              *)

(* The mode and the space are consumed.                                    *)
LEMMA StepMode ==
  ASSUME NEW t \in StoredTrees, NEW k \in 1..(Len(t.entries) + 1),
         NEW u \in Seq(Bytes), NEW d \in Seq(Bytes), Window(t, Offset(t, k, "mode"), u, d),
         IndexByte(u, Space) = 2
  PROVE  /\ k \in 1..Len(t.entries) /\ u[1] = t.entries[k].mode /\ u[1] \in Modes
         /\ 2 <= Len(u)
         /\ SubSeq(u, 2 + 1, Len(u)) \in Seq(Bytes)
         /\ Window(t, Offset(t, k, "name"), SubSeq(u, 2 + 1, Len(u)), d)
<1>1. Window(t, t.starts[k], u, d)
  BY DEF Offset
<1>2. /\ IndexByte(u, Space) = IF 2 <= Len(u) THEN 2 ELSE 0
      /\ Len(u) >= 1 => k \in 1..Len(t.entries) /\ u[1] = t.entries[k].mode /\ u[1] \in Modes
  BY <1>1, ModeField
<1>3. 2 <= Len(u) /\ Len(u) \in Nat /\ 2 \in Nat
  BY <1>2
<1>4. k \in 1..Len(t.entries) /\ u[1] = t.entries[k].mode /\ u[1] \in Modes
  BY <1>2, <1>3
<1>5. /\ SubSeq(u, 2 + 1, Len(u)) \in Seq(Bytes)
      /\ Window(t, t.starts[k] + 2, SubSeq(u, 2 + 1, Len(u)), d)
  BY <1>1, <1>3, WindowMove
<1>6. Offset(t, k, "name") = t.starts[k] + 2
  BY DEF Offset
<1> QED BY <1>3, <1>4, <1>5, <1>6

(* What is in u before byte e is s.                                        *)
EndsBefore(u, e, s) == \E n \in Nat : e = n + 1 /\ SubSeq(u, 1, n) = s

(* The name and the NUL are consumed.                                      *)
LEMMA StepName ==
  ASSUME NEW t \in StoredTrees, NEW k \in 1..Len(t.entries),
         NEW u \in Seq(Bytes), NEW d \in Seq(Bytes), Window(t, Offset(t, k, "name"), u, d),
         NEW e, e = IndexByte(u, NUL), e > 1
  PROVE  /\ e \in Nat /\ e <= Len(u)
         /\ EndsBefore(u, e, t.entries[k].name)
         /\ SubSeq(u, e + 1, Len(u)) \in Seq(Bytes)
         /\ Window(t, Offset(t, k, "oid"), SubSeq(u, e + 1, Len(u)), d)
<1>1. Window(t, t.starts[k] + 2, u, d)
  BY DEF Offset
<1>2. PICK n : n = Len(t.entries[k].name)
  OBVIOUS
<1>3. /\ n \in Nat \ {0}
      /\ IndexByte(u, NUL) = IF n + 1 <= Len(u) THEN n + 1 ELSE 0
      /\ n + 1 <= Len(u) => SubSeq(u, 1, n) = t.entries[k].name
  BY <1>1, <1>2, NameField
<1>4. e \in Nat /\ e = n + 1 /\ n + 1 <= Len(u)
  BY <1>3
<1>5. /\ SubSeq(u, e + 1, Len(u)) \in Seq(Bytes)
      /\ Window(t, (t.starts[k] + 2) + e, SubSeq(u, e + 1, Len(u)), d)
  BY <1>1, <1>4, WindowMove
<1>6. (t.starts[k] + 2) + e = Offset(t, k, "oid")
  <2>1. PICK from \in Nat : from = t.starts[k]
    BY EntryBytes DEF EntryAt
  <2>2. Offset(t, k, "oid") = from + (n + 3)
    BY <2>1, <1>2 DEF Offset
  <2>3. (from + 2) + e = from + (n + 3)
    BY <1>3, <1>4
  <2> QED BY <2>1, <2>2, <2>3
<1> QED BY <1>3, <1>4, <1>5, <1>6 DEF EndsBefore

(* The object id is consumed.                                              *)
LEMMA StepOid ==
  ASSUME NEW t \in StoredTrees, NEW k \in 1..Len(t.entries),
         NEW u \in Seq(Bytes), NEW d \in Seq(Bytes), Window(t, Offset(t, k, "oid"), u, d)
  PROVE  /\ HashSize <= Len(u) =>
              /\ SubSeq(u, 1, HashSize) = t.entries[k].oid
              /\ t.starts[k + 1] <= t.size
              /\ SubSeq(u, HashSize + 1, Len(u)) \in Seq(Bytes)
              /\ Window(t, Offset(t, k + 1, "mode"), SubSeq(u, HashSize + 1, Len(u)), d)
         /\ t.size = Len(t.bytes) => HashSize <= Len(u) + Len(d)
<1>1. PICK from \in Nat, n \in Nat : BeginsWith(t, k, from, n)
  BY EntryBytes DEF EntryAt, BeginsWith
<1>2. PICK at \in Nat : at = from + (n + 3)
  OBVIOUS
<1>3. Window(t, at, u, d)
  BY <1>1, <1>2 DEF Offset, BeginsWith
<1>4. /\ at + HashSize = t.starts[k + 1]
      /\ HashSize <= Len(u) =>
           /\ SubSeq(u, 1, HashSize) = t.entries[k].oid
           /\ t.starts[k + 1] <= t.size
      /\ t.size = Len(t.bytes) => HashSize <= Len(u) + Len(d)
  <2>1. /\ t \in StoredTrees /\ k \in 1..Len(t.entries) /\ u \in Seq(Bytes) /\ d \in Seq(Bytes)
        /\ from \in Nat /\ n \in Nat /\ at \in Nat
    OBVIOUS
  <2> QED BY ONLY <2>1, <1>1, <1>2, <1>3, OidField
<1>5. ASSUME HashSize <= Len(u)
      PROVE  /\ SubSeq(u, HashSize + 1, Len(u)) \in Seq(Bytes)
             /\ Window(t, at + HashSize, SubSeq(u, HashSize + 1, Len(u)), d)
  <2>1. HashSize \in Nat
    BY TreeAssumption
  <2> QED BY <2>1, <1>3, <1>5, WindowMove
<1>6. Offset(t, k + 1, "mode") = t.starts[k + 1]
  BY DEF Offset
<1> QED BY <1>4, <1>5, <1>6

(* A tree that is not cut has all of an entry of which it has something.   *)
LEMMA NothingMissing ==
  ASSUME NEW t \in StoredTrees, t.size = Len(t.bytes), NEW u \in Seq(Bytes)
  PROVE  /\ \A k \in 1..(Len(t.entries) + 1) :
              Window(t, Offset(t, k, "mode"), u, <<>>) /\ u # <<>> => IndexByte(u, Space) = 2
         /\ \A k \in 1..Len(t.entries) :
              /\ Window(t, Offset(t, k, "name"), u, <<>>) => IndexByte(u, NUL) > 1
              /\ Window(t, Offset(t, k, "oid"), u, <<>>) => HashSize <= Len(u)
<1>1. <<>> \in Seq(Bytes) /\ Len(<<>>) = 0 /\ Len(u) \in Nat /\ HashSize \in Nat
  BY TreeAssumption
<1>2. \A k \in 1..Len(t.entries), p \in {"mode", "name"} :
        Window(t, Offset(t, k, p), u, <<>>) =>
          Len(u) >= (IF p = "mode" THEN 2 ELSE Len(t.entries[k].name) + 1)
  <2> SUFFICES ASSUME NEW k \in 1..Len(t.entries), NEW p \in {"mode", "name"},
                      Window(t, Offset(t, k, p), u, <<>>)
               PROVE  Len(u) >= (IF p = "mode" THEN 2 ELSE Len(t.entries[k].name) + 1)
    OBVIOUS
  <2>1. EntryAt(t, k)
    BY EntryBytes
  <2>2. PICK from \in Nat, n \in Nat : BeginsWith(t, k, from, n)
    BY <2>1 DEF EntryAt, BeginsWith
  <2>3. /\ t.starts[k + 1] = from + 3 + n + HashSize /\ t.starts[k + 1] <= Len(t.bytes)
    BY <2>1, <2>2 DEF EntryAt, BeginsWith
  <2>4. PICK at \in Nat : at = Offset(t, k, p) /\ at = from + (IF p = "mode" THEN 0 ELSE 2)
    BY <2>2 DEF Offset, BeginsWith
  <2>5. at + Len(u) + Len(<<>>) = t.size
    BY <2>4 DEF Window
  <2>6. PICK z \in Nat : z = t.size
    BY TreeParts
  <2>7. at + Len(u) = z /\ from + 3 + n + HashSize <= z
    BY <2>3, <2>5, <2>6, <1>1
  <2>8. Len(u) >= (IF p = "mode" THEN 2 ELSE n + 1)
    BY <2>4, <2>7, <1>1
  <2> QED BY <2>2, <2>8 DEF BeginsWith
<1>3. ASSUME NEW k \in 1..(Len(t.entries) + 1), Window(t, Offset(t, k, "mode"), u, <<>>), u # <<>>
      PROVE  IndexByte(u, Space) = 2
  <2>1. Window(t, t.starts[k], u, <<>>)
    BY <1>3 DEF Offset
  <2>2. /\ IndexByte(u, Space) = IF 2 <= Len(u) THEN 2 ELSE 0
        /\ Len(u) >= 1 => k \in 1..Len(t.entries)
    BY <2>1, <1>1, ModeField
  <2>3. Len(u) >= 1
    BY <1>3
  <2>4. Len(u) >= 2
    BY <2>2, <2>3, <1>2, <1>3
  <2> QED BY <2>2, <2>4, <1>1
<1>4. ASSUME NEW k \in 1..Len(t.entries), Window(t, Offset(t, k, "name"), u, <<>>)
      PROVE  IndexByte(u, NUL) > 1
  <2>1. Window(t, t.starts[k] + 2, u, <<>>)
    BY <1>4 DEF Offset
  <2>2. PICK n : n = Len(t.entries[k].name)
    OBVIOUS
  <2>3. /\ n \in Nat \ {0}
        /\ IndexByte(u, NUL) = IF n + 1 <= Len(u) THEN n + 1 ELSE 0
    BY <2>1, <2>2, <1>1, NameField
  <2>4. Len(u) >= n + 1
    BY <2>2, <1>2, <1>4
  <2> QED BY <2>3, <2>4, <1>1
<1>5. ASSUME NEW k \in 1..Len(t.entries), Window(t, Offset(t, k, "oid"), u, <<>>)
      PROVE  HashSize <= Len(u)
  <2>1. HashSize <= Len(u) + Len(<<>>)
    BY <1>1, <1>5, StepOid
  <2> QED BY <2>1, <1>1
<1> QED BY <1>3, <1>4, <1>5

-----------------------------------------------------------------------------
(* The steps.                                                              *)

(* The invariant holds initially.                                          *)
LEMMA ReaderStarts == ReaderInit => ReaderInv
<1> SUFFICES ASSUME ReaderInit PROVE ReaderInv
  OBVIOUS
<1> USE DEF ReaderInit
<1>1. tree \in StoredTrees /\ tree \in StoredType /\ BufferSize \in Nat /\ NUL \in Bytes
  BY TreeAssumption
<1>2. data \in Seq(Bytes) /\ Window(tree, 0, <<>>, data)
  BY <1>1, WindowStart
<1>3. buf \in Seq(Bytes) /\ Len(buf) = BufferSize
  BY <1>1
<1>4. BufferTypeOK
  <2>1. readAt \in 0..writeAt /\ writeAt \in 0..BufferSize
    BY <1>1
  <2>2. name \in [from: Nat, len: Nat] /\ name.from + name.len <= BufferSize
    BY <1>1
  <2>3. {inMemory, inherited, eof} \subseteq BOOLEAN
    OBVIOUS
  <2>4. /\ pc \in {"mode", "name", "oid", "returned"} /\ mode \in Modes \cup {"none"}
        /\ result \in {"running", "ok", "malformed", "failed"}
    OBVIOUS
  <2> QED BY ONLY <2>1, <2>2, <2>3, <2>4, <1>1, <1>2, <1>3 DEF BufferTypeOK
<1>5. taken = <<>> /\ Len(<<>>) = 0 /\ \A S : <<>> \in Seq(S)
  OBVIOUS
<1>6. TakenRight(tree, taken)
  <2>1. Len(tree.entries) \in Nat
    BY <1>1, TreeParts
  <2> QED BY <1>5, <2>1 DEF TakenRight
<1>7. InPlace
  <2>1. Offset(tree, Len(taken) + 1, pc) = 0
    <3>1. tree.starts[1] = 0 /\ Len(taken) + 1 = 1
      BY <1>1, <1>5, TreeParts
    <3> QED BY <3>1 DEF Offset
  <2>2. Unread = <<>>
    BY <1>3 DEF Unread
  <2> QED BY <1>2, <2>1, <2>2 DEF InPlace
<1> QED
  <2>1. MidEntry /\ WholeInMemory /\ Answered /\ (eof => data = <<>>)
    BY DEF MidEntry, WholeInMemory, Answered
  <2>2. LegalRight
    BY <1>5 DEF LegalRight
  <2> QED BY <1>1, <1>4, <1>6, <1>7, <2>1, <2>2 DEF ReaderInv

(* An answer ends the reading, if it is a right one.                       *)
LEMMA StopKeeps ==
  ASSUME ReaderInv, pc # "returned", NEW how \in {"ok", "malformed", "failed"}, Stop(how),
         how = "ok" => tree.size = tree.starts[Len(taken) + 1],
         how = "malformed" => Refusable(tree)
  PROVE  ReaderInv'
<1> USE DEF Stop, givenVars, bufferVars
<1>1. BufferTypeOK'
  BY DEF ReaderInv, BufferTypeOK
<1>2. InPlace' /\ MidEntry' /\ WholeInMemory'
  BY DEF ReaderInv, InPlace, MidEntry, WholeInMemory
<1>3. LegalRight' /\ TakenRight(tree, taken)' /\ (tree \in StoredTrees)' /\ (eof => data = <<>>)'
  BY DEF ReaderInv, LegalRight, LegalByName
<1>4. Answered'
  <2>1. Refusable(tree)' <=> Refusable(tree)
    BY DEF Refusable
  <2> QED BY <2>1 DEF Answered
<1> QED BY <1>1, <1>2, <1>3, <1>4 DEF ReaderInv

(* The object cannot be read.                                              *)
LEMMA ObjectFailsKeeps == ASSUME ReaderInv, ObjectFails PROVE ReaderInv'
BY StopKeeps DEF ObjectFails

(* In memory an entry is taken apart at once.                              *)
LEMMA WriteEntryKeeps == ASSUME ReaderInv, WriteEntry PROVE ReaderInv'
<1> USE DEF WriteEntry, givenVars
<1>1. PICK k : k = Len(taken) + 1
  OBVIOUS
<1>2. /\ tree \in StoredTrees /\ k \in 1..(Len(tree.entries) + 1) /\ data \in Seq(Bytes)
      /\ DOMAIN taken = 1..Len(taken)
  BY <1>1, TakenFacts, UnreadFacts
<1>3. readAt = 0 /\ writeAt = 0 /\ Unread = <<>>
  BY UnreadFacts DEF ReaderInv, WholeInMemory, Unread
<1>4. Window(tree, Offset(tree, k, "mode"), data, <<>>)
  BY <1>1, <1>2, <1>3, WindowInMemory DEF ReaderInv, InPlace
<1>5. <<>> \in Seq(Bytes)
  OBVIOUS
<1>6. IndexByte(data, Space) = 2 /\ ModeEnd = 2 /\ NameEnd > 1 /\ Len(AfterName) >= HashSize
  BY DEF WellFormed, ModeEnd
<1>7. /\ k \in 1..Len(tree.entries) /\ data[1] = tree.entries[k].mode /\ data[1] \in Modes
      /\ AfterMode \in Seq(Bytes) /\ Window(tree, Offset(tree, k, "name"), AfterMode, <<>>)
  BY <1>2, <1>4, <1>5, <1>6, StepMode DEF AfterMode
<1>8. PICK n : n = SubSeq(AfterMode, 1, NameEnd - 1)
  OBVIOUS
<1>9. /\ n = tree.entries[k].name
      /\ AfterName \in Seq(Bytes) /\ Window(tree, Offset(tree, k, "oid"), AfterName, <<>>)
  <2>1. PICK e : e = NameEnd
    OBVIOUS
  <2>2. e = IndexByte(AfterMode, NUL) /\ e > 1
    BY <2>1, <1>6 DEF NameEnd
  <2>3. PICK m \in Nat : e = m + 1 /\ SubSeq(AfterMode, 1, m) = tree.entries[k].name
    <3>1. EndsBefore(AfterMode, e, tree.entries[k].name)
      BY ONLY <2>2, <1>2, <1>5, <1>7, StepName
    <3> QED BY <3>1 DEF EndsBefore
  <2>5. /\ SubSeq(AfterMode, e + 1, Len(AfterMode)) \in Seq(Bytes)
        /\ Window(tree, Offset(tree, k, "oid"), SubSeq(AfterMode, e + 1, Len(AfterMode)), <<>>)
    BY ONLY <2>2, <1>2, <1>5, <1>7, StepName
  <2>4. AfterName = SubSeq(AfterMode, e + 1, Len(AfterMode)) /\ n = SubSeq(AfterMode, 1, m)
    <3>1. e - 1 = m
      BY <2>3
    <3> QED BY <3>1, <2>1, <1>8 DEF AfterName
  <2> QED BY ONLY <2>3, <2>4, <2>5
<1>10. PICK o : o = SubSeq(AfterName, 1, HashSize)
  OBVIOUS
<1>11. PICK rest : rest = SubSeq(AfterName, HashSize + 1, Len(AfterName))
  OBVIOUS
<1>12. /\ o = tree.entries[k].oid /\ tree.starts[k + 1] <= tree.size
       /\ rest \in Seq(Bytes) /\ Window(tree, Offset(tree, k + 1, "mode"), rest, <<>>)
  BY <1>2, <1>5, <1>6, <1>7, <1>9, <1>10, <1>11, StepOid
<1>13. PICK x : x = Entry(data[1], n, o)
  OBVIOUS
<1>14. taken' = Append(taken, x) /\ data' = rest
  BY <1>8, <1>10, <1>11, <1>13
<1>15. /\ TakenFrom(tree, k, x)
       /\ x.legal = LegalByName(tree.entries[k])
  <2>1. o \in Seq(Bytes)
    BY <1>2, <1>7, <1>12, EntryBytes DEF EntryAt
  <2>2. inherited \in BOOLEAN
    BY DEF ReaderInv, BufferTypeOK
  <2> QED BY <2>1, <2>2, <1>7, <1>9, <1>12, <1>13 DEF Entry, LegalByName, TakenFrom
<1>16. /\ TakenRight(tree, taken') /\ Len(taken') = k /\ taken'[k] = x
       /\ \A i \in 1..Len(taken) : taken'[i] = taken[i]
  <2>1. TakenRight(tree, taken)
    BY DEF ReaderInv
  <2>2. TakenRight(tree, Append(taken, x)) /\ OneMore(Append(taken, x), taken, k, x)
    BY ONLY <2>1, <1>1, <1>2, <1>7, <1>12, <1>15, TakeOne
  <2> QED BY ONLY <2>2, <1>14 DEF OneMore
<1>17. BufferTypeOK'
  BY <1>12, <1>14 DEF ReaderInv, BufferTypeOK
<1>18. InPlace'
  <2>1. Unread' = <<>>
    BY <1>3 DEF Unread
  <2>2. Window(tree, Offset(tree, k + 1, "mode"), <<>>, rest)
    BY <1>12, WindowInMemory
  <2> QED BY <2>1, <2>2, <1>14, <1>16 DEF InPlace
<1>19. LegalRight'
  <2>1. \A i \in 1..k : i = k \/ i \in 1..Len(taken)
    BY <1>1, <1>2, TakenFacts
  <2>2. \A i \in 1..Len(taken) : taken'[i].legal = LegalByName(tree.entries[i])
    BY <1>16 DEF ReaderInv, LegalRight
  <2>3. taken'[k].legal = LegalByName(tree.entries[k])
    BY <1>15, <1>16
  <2>4. \A i \in 1..Len(taken') : taken'[i].legal = LegalByName(tree.entries[i])
    BY <2>1, <2>2, <2>3, <1>16
  <2> QED BY <2>4 DEF LegalRight, LegalByName
<1>20. MidEntry' /\ WholeInMemory' /\ Answered' /\ (eof => data = <<>>)' /\ (tree \in StoredTrees)'
  <2>1. pc # "returned" /\ result = "running"
    BY DEF ReaderInv, Answered
  <2>2. MidEntry' /\ Answered'
    BY <2>1 DEF MidEntry, Answered
  <2>3. WholeInMemory'
    BY <1>3 DEF WholeInMemory
  <2>4. ~eof \/ data = <<>>
    BY DEF ReaderInv
  <2>5. data # <<>>
    <3>1. 2 <= Len(data)
      BY <1>2, <1>4, <1>5, <1>6, StepMode
    <3> QED BY <3>1
  <2> QED BY <1>2, <2>2, <2>3, <2>4, <2>5
<1> QED BY <1>16, <1>17, <1>18, <1>19, <1>20 DEF ReaderInv

(* In memory the end is where nothing is left, and a tree is refused when  *)
(* it is cut.                                                              *)
LEMMA WriteEndKeeps == ASSUME ReaderInv, WriteEnd PROVE ReaderInv'
<1>1. PICK k : k = Len(taken) + 1
  OBVIOUS
<1>2. /\ tree \in StoredTrees /\ k \in 1..(Len(tree.entries) + 1) /\ data \in Seq(Bytes)
      /\ inMemory /\ pc = "mode"
  BY <1>1, TakenFacts, UnreadFacts DEF WriteEnd
<1>3. readAt = 0 /\ writeAt = 0 /\ Unread = <<>>
  BY <1>2, UnreadFacts DEF ReaderInv, WholeInMemory, Unread
<1>4. Window(tree, Offset(tree, k, "mode"), data, <<>>)
  BY <1>1, <1>2, <1>3, WindowInMemory DEF ReaderInv, InPlace
<1>5. <<>> \in Seq(Bytes) /\ Len(<<>>) = 0
  OBVIOUS
<1>6. CASE data = <<>>
  <2>1. Stop("ok")
    BY <1>6 DEF WriteEnd
  <2>2. PICK at \in Nat : at = tree.starts[k] /\ at = Offset(tree, k, "mode")
    BY <1>2, TreeParts DEF Offset
  <2>3. at + Len(data) + Len(<<>>) = tree.size
    BY <2>2, <1>4 DEF Window
  <2>4. Len(data) = 0 /\ tree.size = at
    BY <1>6, <2>3, <1>5
  <2>5. tree.size = tree.starts[Len(taken) + 1]
    BY <2>2, <2>4, <1>1
  <2> QED BY <2>1, <2>5, <1>2, StopKeeps
<1>7. CASE data # <<>>
  <2>1. ~WellFormed /\ Stop("malformed")
    BY <1>7 DEF WriteEnd
  <2>2. tree.size < Len(tree.bytes)
    <3>1. SUFFICES ASSUME tree.size = Len(tree.bytes) PROVE FALSE
      <4>1. tree.size \in Nat /\ tree.size <= Len(tree.bytes) /\ Len(tree.bytes) \in Nat
        BY <1>2, TreeParts
      <4> QED BY <4>1
    <3>2. IndexByte(data, Space) = 2
      BY <1>2, <1>4, <1>7, <3>1, NothingMissing
    <3>3. /\ k \in 1..Len(tree.entries) /\ data[1] \in Modes
          /\ AfterMode \in Seq(Bytes) /\ Window(tree, Offset(tree, k, "name"), AfterMode, <<>>)
      BY <1>2, <1>4, <1>5, <3>2, StepMode DEF AfterMode, ModeEnd
    <3>4. NameEnd > 1
      BY <1>2, <3>1, <3>3, NothingMissing DEF NameEnd
    <3>5. AfterName \in Seq(Bytes) /\ Window(tree, Offset(tree, k, "oid"), AfterName, <<>>)
      BY <1>2, <1>5, <3>3, <3>4, StepName DEF AfterName, NameEnd
    <3>6. HashSize <= Len(AfterName)
      BY <1>2, <3>1, <3>3, <3>5, NothingMissing
    <3>7. Len(AfterName) \in Nat /\ HashSize \in Nat
      BY <3>5, TreeAssumption
    <3> QED BY <2>1, <3>2, <3>3, <3>4, <3>6, <3>7 DEF WellFormed, ModeEnd
  <2>3. Refusable(tree)
    BY <2>2 DEF Refusable
  <2> QED BY <2>1, <2>3, <1>2, StopKeeps
<1> QED BY <1>6, <1>7

(* The buffer is filled again: what was unread stays what it was.          *)
LEMMA FillKeeps ==
  ASSUME ReaderInv, NEW n \in 0..BufferSize, n <= Len(data), Fill(n)
  PROVE  ReaderInv'
<1> USE DEF Fill, givenVars
<1>1. /\ Unread \in Seq(Bytes) /\ Len(Unread) = writeAt - readAt
      /\ readAt \in Nat /\ writeAt \in Nat /\ writeAt <= BufferSize /\ readAt <= writeAt
      /\ buf \in Seq(Bytes) /\ Len(buf) = BufferSize /\ BufferSize \in Nat
      /\ data \in Seq(Bytes)
  BY UnreadFacts
<1>2. PICK u \in Seq(Bytes) : u = Unread
  BY <1>1
<1>3. PICK d \in Seq(Bytes) : d = data
  BY <1>1
<1>4. PICK at : at = Offset(tree, Len(taken) + 1, pc)
  OBVIOUS
<1>5. n \in Nat /\ n <= Len(d) /\ tree \in StoredTrees
  BY <1>1, <1>3 DEF ReaderInv
<1>6. PICK end \in Nat : end = Len(u) + n
  BY <1>5
<1>7. end <= BufferSize
  BY <1>2, <1>6
<1>8. PICK more : more = SubSeq(d, 1, n)
  OBVIOUS
<1>9. more \in Seq(Bytes) /\ Len(more) = n
  <2>1. more = SubSeq(d, 0 + 1, n) /\ 0 \in Nat /\ 0 <= n /\ n - 0 = n
    BY <1>5, <1>8
  <2> QED BY <2>1, <1>5, PartFacts
<1>10. PICK old : old = SubSeq(buf, end + 1, BufferSize)
  OBVIOUS
<1>11. old \in Seq(Bytes) /\ Len(old) = BufferSize - end
  BY <1>1, <1>7, <1>10, PartFacts
<1>12. PICK v : v = u \o more
  OBVIOUS
<1>13. v \in Seq(Bytes) /\ Len(v) = end
  BY <1>6, <1>9, <1>12, JoinFacts
<1>14. buf' = v \o old
  BY <1>2, <1>3, <1>6, <1>8, <1>10, <1>12
<1>15. buf' \in Seq(Bytes) /\ Len(buf') = BufferSize
  <2>1. (v \o old) \in Seq(Bytes) /\ Len(v \o old) = Len(v) + Len(old)
    BY <1>11, <1>13, JoinFacts
  <2>2. end + (BufferSize - end) = BufferSize
    BY <1>1
  <2> QED BY <2>1, <2>2, <1>11, <1>13, <1>14
<1>16. Unread' = v
  <2>1. Unread' = SubSeq(buf', readAt' + 1, writeAt')
    BY DEF Unread
  <2>2. readAt' = 0 /\ writeAt' = Len(v)
    BY <1>2, <1>6, <1>13
  <2>3. SubSeq(v \o old, 0 + 1, Len(v)) = v
    BY <1>11, <1>13, PartOfJoin
  <2> QED BY ONLY <2>1, <2>2, <2>3, <1>14
<1>17. PICK rest : rest = SubSeq(d, n + 1, Len(d))
  OBVIOUS
<1>18. data' = rest
  BY <1>3, <1>17
<1>19. rest \in Seq(Bytes) /\ (Window(tree, at, u, d) => Window(tree, at, v, rest))
  <2>1. rest \in Seq(Bytes)
    BY <1>5, <1>17, PartFacts
  <2>2. ASSUME Window(tree, at, u, d) PROVE Window(tree, at, v, rest)
    <3>1. Window(tree, at, u \o SubSeq(d, 1, n), SubSeq(d, n + 1, Len(d)))
      BY <2>2, <1>5, WindowFill
    <3> QED BY ONLY <3>1, <1>8, <1>12, <1>17
  <2> QED BY <2>1, <2>2
<1>20. BufferTypeOK'
  <2>1. readAt' \in 0..writeAt' /\ writeAt' \in 0..BufferSize
    BY <1>2, <1>6, <1>7, <1>1
  <2>2. data' \in Seq(Bytes)
    BY <1>18, <1>19
  <2>3. eof' \in BOOLEAN
    OBVIOUS
  <2> QED BY <2>1, <2>2, <2>3, <1>15 DEF ReaderInv, BufferTypeOK
<1>21. InPlace'
  <2>1. ASSUME pc # "returned" PROVE Window(tree, at, v, rest)
    BY <2>1, <1>2, <1>3, <1>4, <1>19 DEF ReaderInv, InPlace
  <2>2. Offset(tree, Len(taken) + 1, pc)' = at
    BY <1>4
  <2> QED BY <2>1, <2>2, <1>16, <1>18 DEF InPlace
<1>22. (eof => data = <<>>)'
  <2>1. SUFFICES ASSUME eof' PROVE data' = <<>>
    OBVIOUS
  <2>2. d = <<>>
    BY <2>1, <1>3
  <2>3. Len(rest) = 0
    <3>1. Len(d) = 0 /\ n = 0
      BY <2>2, <1>5
    <3>2. Len(rest) = Len(d) - n
      BY <1>5, <1>17, PartFacts
    <3> QED BY <3>1, <3>2
  <2> QED BY <2>3, <1>18, <1>19
<1>23. MidEntry' /\ WholeInMemory' /\ LegalRight'
  BY DEF ReaderInv, MidEntry, WholeInMemory, LegalRight
<1>24. Answered' /\ TakenRight(tree, taken)' /\ (tree \in StoredTrees)'
  <2>1. Refusable(tree)' <=> Refusable(tree)
    BY DEF Refusable
  <2> QED BY <2>1 DEF ReaderInv, Answered
<1> QED BY <1>20, <1>21, <1>22, <1>23, <1>24 DEF ReaderInv

(* Consuming the first n of the unread bytes.                              *)
LEMMA Consumed ==
  ASSUME ReaderInv, NEW n \in Nat, n <= Len(Unread),
         readAt' = readAt + n, writeAt' = writeAt, buf' = buf
  PROVE  /\ Unread' = SubSeq(Unread, n + 1, Len(Unread))
         /\ readAt' \in 0..writeAt' /\ writeAt' \in 0..BufferSize
<1>1. /\ Len(Unread) = writeAt - readAt
      /\ readAt \in Nat /\ writeAt \in Nat /\ writeAt <= BufferSize /\ readAt <= writeAt
      /\ buf \in Seq(Bytes) /\ Len(buf) = BufferSize /\ BufferSize \in Nat
  BY UnreadFacts
<1>2. n <= writeAt - readAt /\ writeAt <= Len(buf)
  BY <1>1
<1>3. SubSeq(buf, (readAt + n) + 1, writeAt)
        = SubSeq(SubSeq(buf, readAt + 1, writeAt), n + 1, writeAt - readAt)
  BY <1>1, <1>2, PartOfPart
<1>4. Unread' = SubSeq(buf, (readAt + n) + 1, writeAt)
  BY DEF Unread
<1>5. Unread' = SubSeq(Unread, n + 1, Len(Unread))
  BY ONLY <1>1, <1>3, <1>4 DEF Unread
<1>6. readAt' \in 0..writeAt' /\ writeAt' \in 0..BufferSize
  BY <1>1, <1>2
<1> QED BY <1>5, <1>6

(* The mode is read.                                                       *)
LEMMA ReadModeKeeps == ASSUME ReaderInv, ReadMode PROVE ReaderInv'
<1> USE DEF ReadMode, givenVars
<1>1. PICK k : k = Len(taken) + 1
  OBVIOUS
<1>2. /\ tree \in StoredTrees /\ k \in 1..(Len(tree.entries) + 1)
      /\ Unread \in Seq(Bytes) /\ data \in Seq(Bytes)
  BY <1>1, TakenFacts, UnreadFacts
<1>3. PICK u : u = Unread
  OBVIOUS
<1>4. Window(tree, Offset(tree, k, "mode"), u, data) /\ IndexByte(u, Space) = 2
  BY <1>1, <1>3 DEF ReaderInv, InPlace
<1>5. PICK v : v = SubSeq(u, 2 + 1, Len(u))
  OBVIOUS
<1>6. /\ k \in 1..Len(tree.entries) /\ u[1] = tree.entries[k].mode /\ u[1] \in Modes
      /\ 2 <= Len(u) /\ v \in Seq(Bytes)
      /\ Window(tree, Offset(tree, k, "name"), v, data)
  BY <1>2, <1>3, <1>4, <1>5, StepMode
<1>7. mode' = u[1] /\ readAt' = readAt + 2 /\ writeAt' = writeAt /\ buf' = buf
  BY <1>3, <1>4
<1>8. Unread' = v /\ readAt' \in 0..writeAt' /\ writeAt' \in 0..BufferSize
  BY <1>3, <1>5, <1>6, <1>7, Consumed
<1>9. BufferTypeOK'
  BY <1>6, <1>7, <1>8 DEF ReaderInv, BufferTypeOK
<1>10. InPlace'
  BY <1>1, <1>6, <1>8 DEF InPlace
<1>11. MidEntry'
  BY <1>1, <1>6, <1>7 DEF MidEntry
<1>12. WholeInMemory' /\ LegalRight'
  BY DEF WholeInMemory, LegalRight
<1>13. Answered' /\ TakenRight(tree, taken)' /\ (tree \in StoredTrees)' /\ (eof => data = <<>>)'
  BY DEF ReaderInv, Answered
<1> QED BY <1>9, <1>10, <1>11, <1>12, <1>13 DEF ReaderInv

(* The name is read.                                                       *)
LEMMA ReadNameKeeps == ASSUME ReaderInv, ReadName PROVE ReaderInv'
<1> USE DEF ReadName, givenVars
<1>1. PICK k : k = Len(taken) + 1
  OBVIOUS
<1>2. /\ tree \in StoredTrees /\ k \in 1..Len(tree.entries) /\ mode = tree.entries[k].mode
      /\ Unread \in Seq(Bytes) /\ data \in Seq(Bytes)
  BY <1>1, TakenFacts, UnreadFacts DEF ReaderInv, MidEntry
<1>3. PICK u : u = Unread
  OBVIOUS
<1>4. PICK e : e = IndexByte(u, NUL)
  OBVIOUS
<1>5. Window(tree, Offset(tree, k, "name"), u, data) /\ e > 1
  BY <1>1, <1>3, <1>4 DEF ReaderInv, InPlace
<1>6. PICK v : v = SubSeq(u, e + 1, Len(u))
  OBVIOUS
<1>7. /\ e \in Nat /\ e <= Len(u) /\ v \in Seq(Bytes)
      /\ Window(tree, Offset(tree, k, "oid"), v, data)
  BY <1>2, <1>3, <1>4, <1>5, <1>6, StepName
<1>8. /\ name' = [from |-> readAt, len |-> e - 1]
      /\ readAt' = readAt + e /\ writeAt' = writeAt /\ buf' = buf
  BY <1>3, <1>4
<1>9. Unread' = v /\ readAt' \in 0..writeAt' /\ writeAt' \in 0..BufferSize
  BY <1>3, <1>6, <1>7, <1>8, Consumed
<1>10. name' \in [from: Nat, len: Nat] /\ name'.from + name'.len <= BufferSize
  <2>1. /\ readAt \in Nat /\ writeAt \in Nat /\ writeAt <= BufferSize
        /\ Len(u) = writeAt - readAt /\ BufferSize \in Nat
    BY <1>3, UnreadFacts
  <2>2. e - 1 \in Nat /\ readAt + (e - 1) <= BufferSize
    BY <2>1, <1>5, <1>7
  <2> QED BY <2>1, <2>2, <1>8
<1>11. BufferTypeOK'
  BY <1>9, <1>10 DEF ReaderInv, BufferTypeOK
<1>12. InPlace'
  BY <1>1, <1>7, <1>9 DEF InPlace
<1>13. MidEntry'
  BY <1>1, <1>2 DEF MidEntry
<1>14. WholeInMemory' /\ LegalRight'
  BY DEF WholeInMemory, LegalRight
<1>15. Answered' /\ TakenRight(tree, taken)' /\ (tree \in StoredTrees)' /\ (eof => data = <<>>)'
  BY DEF ReaderInv, Answered
<1> QED BY <1>11, <1>12, <1>13, <1>14, <1>15 DEF ReaderInv

(* The object id is read and the entry taken.                              *)
LEMMA TakeEntryKeeps == ASSUME ReaderInv, TakeEntry PROVE ReaderInv'
<1> USE DEF TakeEntry, givenVars
<1>1. PICK k : k = Len(taken) + 1
  OBVIOUS
<1>2. /\ tree \in StoredTrees /\ k \in 1..Len(tree.entries) /\ mode = tree.entries[k].mode
      /\ Unread \in Seq(Bytes) /\ data \in Seq(Bytes) /\ DOMAIN taken = 1..Len(taken)
  BY <1>1, TakenFacts, UnreadFacts DEF ReaderInv, MidEntry
<1>3. PICK u : u = Unread
  OBVIOUS
<1>4. Window(tree, Offset(tree, k, "oid"), u, data)
  BY <1>1, <1>3 DEF ReaderInv, InPlace
<1>5. HashSize <= Len(u) /\ HashSize \in Nat /\ Len(u) \in Nat
  <2>1. ~(Len(u) < HashSize) /\ Len(u) \in Nat /\ HashSize \in Nat
    BY <1>2, <1>3, TreeAssumption DEF Short
  <2> QED BY <2>1
<1>6. PICK o : o = SubSeq(u, 1, HashSize)
  OBVIOUS
<1>7. PICK v : v = SubSeq(u, HashSize + 1, Len(u))
  OBVIOUS
<1>8. /\ o = tree.entries[k].oid /\ tree.starts[k + 1] <= tree.size
      /\ v \in Seq(Bytes) /\ Window(tree, Offset(tree, k + 1, "mode"), v, data)
  BY <1>2, <1>3, <1>4, <1>5, <1>6, <1>7, StepOid
<1>9. PICK x : x = Entry(mode, SubSeq(buf, name.from + 1, name.from + name.len), o)
  OBVIOUS
<1>10. taken' = Append(taken, x)
  BY <1>3, <1>6, <1>9
<1>11. TakenFrom(tree, k, x)
  <2>1. mode \in Modes /\ o \in Seq(Bytes)
    BY <1>2, <1>8, EntryBytes DEF EntryAt
  <2>2. inherited \in BOOLEAN
    BY DEF ReaderInv, BufferTypeOK
  <2> QED BY <2>1, <2>2, <1>2, <1>8, <1>9 DEF Entry, TakenFrom
<1>12. TakenRight(tree, taken') /\ Len(taken') = k
  <2>1. TakenRight(tree, taken)
    BY DEF ReaderInv
  <2>2. TakenRight(tree, Append(taken, x)) /\ OneMore(Append(taken, x), taken, k, x)
    BY ONLY <2>1, <1>1, <1>2, <1>8, <1>11, TakeOne
  <2> QED BY ONLY <2>2, <1>10 DEF OneMore
<1>13. Unread' = v /\ readAt' \in 0..writeAt' /\ writeAt' \in 0..BufferSize
  BY <1>3, <1>5, <1>7, Consumed
<1>14. BufferTypeOK'
  BY <1>13 DEF ReaderInv, BufferTypeOK
<1>15. InPlace'
  BY <1>8, <1>12, <1>13 DEF InPlace
<1>16. MidEntry' /\ WholeInMemory' /\ LegalRight'
  BY DEF MidEntry, WholeInMemory, LegalRight
<1>17. Answered' /\ (tree \in StoredTrees)' /\ (eof => data = <<>>)'
  BY DEF ReaderInv, Answered
<1> QED BY <1>12, <1>14, <1>15, <1>16, <1>17 DEF ReaderInv

(* The end is where nothing is unread and nothing comes; a tree is refused *)
(* when it is cut, or the name is too long.                                *)
LEMMA ReadEndKeeps == ASSUME ReaderInv, ReadEnd PROVE ReaderInv'
<1>1. PICK k : k = Len(taken) + 1
  OBVIOUS
<1>2. /\ tree \in StoredTrees /\ k \in 1..(Len(tree.entries) + 1)
      /\ Unread \in Seq(Bytes) /\ data \in Seq(Bytes)
      /\ Len(tree.entries) \in Nat /\ DOMAIN tree.entries = 1..Len(tree.entries)
  BY <1>1, TakenFacts, UnreadFacts
<1>3. /\ pc \in {"mode", "name", "oid"} /\ ~inMemory
      /\ pc \in {"name", "oid"} => k \in 1..Len(tree.entries)
  BY <1>1 DEF ReadEnd, ReaderInv, BufferTypeOK, MidEntry
<1>4. PICK u : u = Unread
  OBVIOUS
<1>5. Window(tree, Offset(tree, k, pc), u, data)
  BY <1>1, <1>3, <1>4 DEF ReaderInv, InPlace
<1>6. ASSUME Short, eof, Stop(IF pc = "mode" /\ Unread = <<>> THEN "ok" ELSE "malformed")
      PROVE  ReaderInv'
  <2>1. data = <<>>
    BY <1>6 DEF ReaderInv
  <2>2. CASE pc = "mode" /\ u = <<>>
    <3>1. Stop("ok")
      BY <2>2, <1>4, <1>6
    <3>2. PICK at \in Nat : at = tree.starts[k] /\ at = Offset(tree, k, pc)
      BY <2>2, <1>2, TreeParts DEF Offset
    <3>3. at + Len(u) + Len(data) = tree.size
      BY <3>2, <1>5 DEF Window
    <3>4. Len(u) = 0 /\ Len(data) = 0
      BY <2>1, <2>2
    <3>5. tree.size = at
      BY <3>3, <3>4
    <3>6. tree.size = tree.starts[Len(taken) + 1]
      BY <3>2, <3>5, <1>1
    <3> QED BY <3>1, <3>6, <1>3, StopKeeps
  <2>3. CASE ~(pc = "mode" /\ u = <<>>)
    <3>1. Stop("malformed")
      BY <2>3, <1>4, <1>6
    <3>2. tree.size < Len(tree.bytes)
      <4>1. SUFFICES ASSUME tree.size = Len(tree.bytes) PROVE FALSE
        <5>1. tree.size \in Nat /\ tree.size <= Len(tree.bytes) /\ Len(tree.bytes) \in Nat
          BY <1>2, TreeParts
        <5> QED BY <5>1
      <4>2. Window(tree, Offset(tree, k, pc), u, <<>>) /\ u \in Seq(Bytes) /\ Len(u) \in Nat
            /\ HashSize \in Nat
        BY <2>1, <1>2, <1>4, <1>5, TreeAssumption
      <4>3. CASE pc = "mode"
        <5>1. IndexByte(u, Space) = 2
          BY <4>1, <4>2, <4>3, <2>3, <1>2, NothingMissing
        <5> QED BY <5>1, <4>3, <1>4, <1>6 DEF Short
      <4>4. CASE pc = "name"
        <5>1. IndexByte(u, NUL) > 1
          BY <4>1, <4>2, <4>4, <1>2, <1>3, NothingMissing
        <5> QED BY <5>1, <4>4, <1>4, <1>6 DEF Short
      <4>5. CASE pc = "oid"
        <5>1. HashSize <= Len(u)
          BY <4>1, <4>2, <4>5, <1>2, <1>3, NothingMissing
        <5>2. Len(u) < HashSize
          BY <4>5, <1>4, <1>6 DEF Short
        <5> QED BY <5>1, <5>2, <4>2
      <4> QED BY <4>3, <4>4, <4>5, <1>3
    <3> QED BY <3>1, <3>2, <1>3, StopKeeps DEF Refusable
  <2> QED BY <2>2, <2>3
<1>7. ASSUME Short, Len(Unread) = BufferSize, Stop("malformed")
      PROVE  ReaderInv'
  <2>1. /\ Len(u) = BufferSize /\ u \in Seq(Bytes) /\ BufferSize \in Nat /\ HashSize \in Nat
        /\ HashSize <= BufferSize /\ HashSize >= 1
    BY <1>2, <1>4, <1>7, TreeAssumption
  <2>2. PICK n : n = Len(tree.entries[k].name)
    OBVIOUS
  <2>3. k \in 1..Len(tree.entries) /\ n \in Nat /\ n >= BufferSize
    <3>1. CASE pc = "mode"
      <4>1. Window(tree, tree.starts[k], u, data)
        BY <3>1, <1>5 DEF Offset
      <4>2. /\ IndexByte(u, Space) = IF 2 <= Len(u) THEN 2 ELSE 0
            /\ Len(u) >= 1 => k \in 1..Len(tree.entries)
        BY <4>1, <2>1, <1>2, ModeField
      <4>3. IndexByte(u, Space) = 0
        BY <3>1, <1>4, <1>7 DEF Short
      <4>4. BufferSize = 1 /\ k \in 1..Len(tree.entries)
        BY <4>2, <4>3, <2>1
      <4>5. n \in Nat \ {0}
        BY <4>4, <2>2, <1>2, EntryBytes DEF EntryAt
      <4> QED BY <4>4, <4>5
    <3>2. CASE pc = "name"
      <4>1. Window(tree, tree.starts[k] + 2, u, data) /\ k \in 1..Len(tree.entries)
        BY <3>2, <1>3, <1>5 DEF Offset
      <4>2. n \in Nat \ {0} /\ IndexByte(u, NUL) = IF n + 1 <= Len(u) THEN n + 1 ELSE 0
        BY <4>1, <2>1, <2>2, <1>2, NameField
      <4>3. IndexByte(u, NUL) = 0
        BY <3>2, <1>4, <1>7 DEF Short
      <4>4. ~(n + 1 <= Len(u))
        BY <4>2, <4>3
      <4> QED BY <4>1, <4>2, <4>4, <2>1
    <3>3. CASE pc = "oid"
      <4>1. Len(u) < HashSize
        BY <3>3, <1>4, <1>7 DEF Short
      <4> QED BY <4>1, <2>1
    <3> QED BY <3>1, <3>2, <3>3, <1>3
  <2>4. Refusable(tree)
    BY <2>2, <2>3, <1>2, <1>3 DEF Refusable
  <2> QED BY <2>4, <1>3, <1>7, StopKeeps
<1>8. ASSUME ~Short,
             \/ pc = "mode" /\ (IndexByte(Unread, Space) # 2 \/ Unread[1] \notin Modes)
             \/ pc = "name" /\ IndexByte(Unread, NUL) = 1
      PROVE  FALSE
  <2>1. CASE pc = "mode"
    <3>1. Window(tree, tree.starts[k], u, data)
      BY <2>1, <1>5 DEF Offset
    <3>2. /\ IndexByte(u, Space) = IF 2 <= Len(u) THEN 2 ELSE 0
          /\ Len(u) >= 1 => u[1] \in Modes
      BY <3>1, <1>2, <1>4, ModeField
    <3>3. IndexByte(u, Space) # 0
      BY <2>1, <1>4, <1>8 DEF Short
    <3>4. IndexByte(u, Space) = 2 /\ u[1] \in Modes
      <4>1. Len(u) \in Nat
        BY <1>2, <1>4
      <4> QED BY <4>1, <3>2, <3>3
    <3> QED BY <3>4, <2>1, <1>4, <1>8
  <2>2. CASE pc = "name"
    <3>1. Window(tree, tree.starts[k] + 2, u, data) /\ k \in 1..Len(tree.entries)
      BY <2>2, <1>3, <1>5 DEF Offset
    <3>2. PICK n : n = Len(tree.entries[k].name)
      OBVIOUS
    <3>3. n \in Nat \ {0} /\ IndexByte(u, NUL) = IF n + 1 <= Len(u) THEN n + 1 ELSE 0
      BY <3>1, <3>2, <1>2, <1>4, NameField
    <3>4. IndexByte(u, NUL) = 1
      BY <2>2, <1>4, <1>8
    <3> QED BY <3>3, <3>4
  <2> QED BY <2>1, <2>2, <1>8
<1> QED BY <1>6, <1>7, <1>8 DEF ReadEnd

(* Every step keeps the invariant.                                         *)
LEMMA ReaderSteps == ReaderInv /\ [ReaderNext]_readerVars => ReaderInv'
<1> SUFFICES ASSUME ReaderInv, [ReaderNext]_readerVars PROVE ReaderInv'
  OBVIOUS
<1>1. CASE WriteEntry
  BY <1>1, WriteEntryKeeps
<1>2. CASE WriteEnd
  BY <1>2, WriteEndKeeps
<1>3. CASE \E n \in 0..BufferSize : (n = 0 <=> data = <<>>) /\ n <= Len(data) /\ Fill(n)
  BY <1>3, FillKeeps
<1>4. CASE ReadMode
  BY <1>4, ReadModeKeeps
<1>5. CASE ReadName
  BY <1>5, ReadNameKeeps
<1>6. CASE TakeEntry
  BY <1>6, TakeEntryKeeps
<1>7. CASE ReadEnd
  BY <1>7, ReadEndKeeps
<1>8. CASE ObjectFails
  BY <1>8, ObjectFailsKeeps
<1>9. CASE UNCHANGED readerVars
  <2> USE <1>9 DEF readerVars, givenVars, bufferVars
  <2>1. BufferTypeOK' /\ InPlace' /\ MidEntry' /\ WholeInMemory'
    BY DEF ReaderInv, BufferTypeOK, InPlace, MidEntry, WholeInMemory, Unread
  <2>2. LegalRight' /\ TakenRight(tree, taken)' /\ (tree \in StoredTrees)'
        /\ (eof => data = <<>>)'
    BY DEF ReaderInv, LegalRight, LegalByName
  <2>3. Answered'
    <3>1. Refusable(tree)' <=> Refusable(tree)
      BY DEF Refusable
    <3> QED BY <3>1 DEF ReaderInv, Answered
  <2> QED BY <2>1, <2>2, <2>3 DEF ReaderInv
<1> QED BY <1>1, <1>2, <1>3, <1>4, <1>5, <1>6, <1>7, <1>8, <1>9 DEF ReaderNext, ReaderDone

(* What the reading does, whatever pieces the bytes come in: the invariant *)
(* holds throughout.                                                       *)
THEOREM ReaderInvariance == ReaderSpec => []ReaderInv
<1>1. ReaderInit => ReaderInv
  BY ReaderStarts
<1>2. ReaderInv /\ [ReaderNext]_readerVars => ReaderInv'
  BY ReaderSteps
<1> QED BY <1>1, <1>2, PTL DEF ReaderSpec

(* The indices of the pooled reader and the slice it handed out stay       *)
(* inside the buffer, for any tree and any size of the buffer, and every   *)
(* entry that is taken has a mode and an object id of full length.         *)
THEOREM ReaderTypeCorrect == ReaderSpec => []ReaderTypeOK
<1>1. ReaderInv => ReaderTypeOK
  <2> SUFFICES ASSUME ReaderInv PROVE ReaderTypeOK
    OBVIOUS
  <2>1. BufferTypeOK /\ tree \in StoredTrees /\ TakenRight(tree, taken)
    BY DEF ReaderInv
  <2>2. /\ Len(taken) \in Nat /\ DOMAIN taken = 1..Len(taken)
        /\ DOMAIN tree.entries = 1..Len(tree.entries) /\ Len(tree.entries) \in Nat
    BY TakenFacts
  <2>3. /\ taken \in Seq([mode: Modes, oid: Seq(Bytes), legal: BOOLEAN])
        /\ Len(taken) <= Len(tree.entries)
        /\ \A i \in 1..Len(taken) : taken[i].oid = tree.entries[i].oid
    BY <2>1 DEF TakenRight
  <2>4. ASSUME NEW i \in 1..Len(taken)
        PROVE  taken[i] \in TakenType
    <3>1. taken[i] \in [mode: Modes, oid: Seq(Bytes), legal: BOOLEAN]
      <4>1. taken \in Seq([mode: Modes, oid: Seq(Bytes), legal: BOOLEAN])
        BY ONLY <2>3
      <4>2. \A S : \A s \in Seq(S) : \A m \in 1..Len(s) : s[m] \in S
        OBVIOUS
      <4> QED BY ONLY <4>1, <4>2, i \in 1..Len(taken), Zenon
    <3>2. i \in DOMAIN tree.entries
      BY <2>2, <2>3
    <3>3. Len(tree.entries[i].oid) = HashSize
      BY <2>1, <3>2, TreeAssumption
    <3>4. taken[i].oid \in Seq(Bytes) /\ Len(taken[i].oid) = HashSize
      BY <2>3, <3>1, <3>3
    <3>5. taken[i].oid \in [1..HashSize -> Bytes]
      BY ONLY <3>4
    <3> QED BY ONLY <3>1, <3>5 DEF TakenType
  <2>5. taken = [i \in 1..Len(taken) |-> taken[i]]
    BY ONLY <2>2, <2>3
  <2>6. taken \in Seq(TakenType)
    BY ONLY <2>2, <2>4, <2>5
  <2> QED BY <2>1, <2>6 DEF ReaderTypeOK
<1> QED BY <1>1, ReaderInvariance, PTL

(* Entries are told apart right, and no tree that is cut within one passes *)
(* for a shorter one, for any tree and any size of the buffer.             *)
THEOREM EntriesRead == ReaderSpec => []EntriesInStep
<1>1. ReaderInv => EntriesInStep
  <2> SUFFICES ASSUME ReaderInv PROVE EntriesInStep
    OBVIOUS
  <2>1. /\ Len(taken) \in Nat /\ Len(tree.entries) \in Nat /\ DOMAIN taken = 1..Len(taken)
        /\ DOMAIN tree.entries = 1..Len(tree.entries)
    BY TakenFacts
  <2>2. /\ Len(taken) <= Len(tree.entries)
        /\ \A i \in 1..Len(taken) : /\ tree.starts[i + 1] <= tree.size
                                    /\ taken[i].mode = tree.entries[i].mode
                                    /\ taken[i].oid = tree.entries[i].oid
    BY DEF ReaderInv, TakenRight
  <2>3. \A i \in 1..Len(taken) : i \in Stored
    <3>1. \A i \in 1..Len(taken) : i \in DOMAIN tree.entries
      BY <2>1, <2>2
    <3> QED BY <3>1, <2>2 DEF Stored
  <2>4. /\ result = "ok" => tree.size = tree.starts[Len(taken) + 1]
        /\ result = "malformed" =>
             \/ tree.size < Len(tree.bytes)
             \/ ~inMemory /\ \E i \in DOMAIN tree.entries :
                               Len(tree.entries[i].name) >= BufferSize
    BY DEF ReaderInv, Answered, Refusable
  <2>5. inMemory => \A i \in DOMAIN taken : taken[i].legal = LegalByName(tree.entries[i])
    BY <2>1 DEF ReaderInv, LegalRight
  <2> QED BY <2>1, <2>2, <2>3, <2>4, <2>5 DEF EntriesInStep
<1> QED BY <1>1, ReaderInvariance, PTL

=============================================================================
