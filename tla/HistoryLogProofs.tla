-------------------------- MODULE HistoryLogProofs --------------------------
(***************************************************************************)
(* What module HistoryLog says of a report that is printed, for every      *)
(* history, every store and every limit on the changes: it covers the      *)
(* whole history, the months add up to the totals, and a commit has one    *)
(* heading.                                                                *)
(*                                                                         *)
(* The spool is a copy of the history without the merges (Copied), so what *)
(* is counted over the one is counted over the other. The counters know    *)
(* only the last commit they counted; that a different commit is a new one *)
(* rests on the order of the walk (Ordered).                               *)
(***************************************************************************)
EXTENDS HistoryLog, FiniteSetTheorems, WellFoundedInduction, TLAPS

-----------------------------------------------------------------------------
(* The inductive invariant                                                 *)

Told(c) == Reported(c, Truth(c.sides[1]), Truth(c.sides[2]))

ColumnOf(c) == Column(c, Truth(c.sides[1]), Truth(c.sides[2]))

RecordOf(t, c) == Record(t, c, Truth(c.sides[1]), Truth(c.sides[2]))

(* What a change adds to the commits and to a column.                      *)
CommitBy(t, c) == One(t.lastCommit # <<c.commit>>)

AddedBy(c, column) == One(ColumnOf(c) = column)

(* What the first n changes of a spool leave to report for a group.        *)
Reports(s, role, n) == {j \in 1..n : s[j].role = role /\ Told(s[j])}

InColumn(s, role, n, column) == {j \in Reports(s, role, n) : ColumnOf(s[j]) = column}

Heads(s, role, n) == {s[j].commit : j \in Reports(s, role, n)}

(* The spool has the first n changes of the history, but for the merges,   *)
(* each once and in their order.                                           *)
Kept(h, n) == {i \in 1..n : h[i].commit \notin Merges}

IsCopy(f, s, h, n) ==
  /\ f \in [1..Len(s) -> Kept(h, n)]
  /\ \A i \in Kept(h, n) : \E j \in 1..Len(s) : f[j] = i
  /\ \A j, k \in 1..Len(s) : j < k => f[j] < f[k]
  /\ \A j \in 1..Len(s) : s[j] = h[f[j]]

Copied(s, h, n) == \E f : IsCopy(f, s, h, n)

Ordered(s) == \A i, j \in DOMAIN s : i <= j => s[i].commit <= s[j].commit

Counted ==
  [commits: Nat, expressions: Nat, additions: Nat, deletions: Nat, incomplete: Nat,
   spdxAdded: Nat, spdxRemoved: Nat, lastCommit: {<<>>} \cup {<<c>> : c \in Commits}]

Keys == {Month[c] : c \in Commits} \X Roles

(* The totals are those of what was replayed.                              *)
Accounts(s, n, T) ==
  \A role \in Roles :
    /\ T[role].commits = Cardinality(Heads(s, role, n))
    /\ T[role].incomplete = Cardinality(InColumn(s, role, n, "incomplete"))
    /\ T[role].additions = Cardinality(InColumn(s, role, n, "additions"))
    /\ T[role].deletions = Cardinality(InColumn(s, role, n, "deletions"))
    /\ T[role].expressions = Cardinality(InColumn(s, role, n, "expressions"))

(* The commit counted last is the latest that has been reported.           *)
Latest(s, n, T) ==
  \A role \in Roles :
    \/ /\ T[role].lastCommit = <<>>
       /\ Reports(s, role, n) = {}
    \/ \E j \in Reports(s, role, n) :
         /\ T[role].lastCommit = <<s[j].commit>>
         /\ \A k \in Reports(s, role, n) : s[k].commit <= s[j].commit

(* A month has last counted a commit of its own, and the commit counted    *)
(* last of all is the one its month has counted last.                      *)
Monthly(s, n, T, M) ==
  /\ \A k \in DOMAIN M : \E j \in Reports(s, k[2], n) :
       /\ M[k].lastCommit = <<s[j].commit>>
       /\ Month[s[j].commit] = k[1]
  /\ \A role \in Roles, c \in Commits :
       T[role].lastCommit = <<c>> =>
         /\ <<Month[c], role>> \in DOMAIN M
         /\ M[<<Month[c], role>>].lastCommit = <<c>>

Summed(T, M) ==
  \A role \in Roles, column \in Columns :
    /\ IsFiniteSet(Tallies(M, role, column))
    /\ T[role][column] = Cardinality(Tallies(M, role, column))

Headings(s, n, H) == \A i \in DOMAIN H : \E j \in 1..n : H[i] = s[j].commit

Rising(H) == \A i, j \in DOMAIN H : i < j => H[i] < H[j]

Blank(T, M, H) ==
  /\ \A role \in Roles : T[role] = Zero
  /\ DOMAIN M = {}
  /\ H = <<>>

Replayed(s, n, T, M, H) ==
  /\ Accounts(s, n, T)
  /\ Latest(s, n, T)
  /\ Monthly(s, n, T, M)
  /\ Headings(s, n, H)

ReportType(T, M) ==
  /\ T \in [Roles -> Counted]
  /\ DOMAIN M \subseteq Keys
  /\ \A k \in DOMAIN M : M[k] \in Counted

Examined(ix) ==
  /\ DOMAIN ix = {o \in Objects : Holds[o] \notin {Missing, Empty}}
  /\ \A o \in DOMAIN ix : ix[o] = Holds[o]

Inv ==
  /\ TypeOK
  /\ Ordered(history)
  /\ Len(spool) <= Len(history)
  /\ phase = "walk" => Len(spool) <= at
  /\ phase = "walk" /\ ~spoolErr => Copied(spool, history, at)
  /\ phase \in {"scan", "replay", "ok"} => Copied(spool, history, Len(history))
  /\ phase \in {"replay", "ok"} => Examined(index)
  /\ phase = "scan" => at = 0
  /\ phase = "ok" => at = Len(spool)
  /\ ReportType(totals, months)
  /\ Summed(totals, months)
  /\ Rising(headers)
  /\ phase \in {"walk", "scan"} => Blank(totals, months, headers)
  /\ phase \in {"replay", "ok"} => Replayed(spool, at, totals, months, headers)

-----------------------------------------------------------------------------
(* The order of the walk                                                   *)

(* The commits of changes are numbers.                                     *)
LEMMA CommitIsNumber ==
  ASSUME NEW c \in ChangeType
  PROVE  c.commit \in Commits /\ c.commit \in Nat
<1>1. c.commit \in Commits
  BY DEF ChangeType
<1>2. Commits \subseteq Nat
  BY LogAssumption
<1> QED BY <1>1, <1>2

(* Of several numbers one is the least.                                    *)
LEMMA LeastOf ==
  ASSUME NEW S \in SUBSET Nat, S # {}
  PROVE  \E m \in S : \A k \in S : m <= k
<1>1. PICK m \in S : \A k \in S : ~(<<k, m>> \in OpToRel(<, Nat))
  BY NatLessThanWellFounded, WFMin
<1>2. \A k \in S : ~(k < m)
  BY <1>1 DEF OpToRel
<1> QED BY <1>2

(* A history in which no change is followed by one of an earlier commit    *)
(* has its commits in order throughout.                                    *)
LEMMA OrderedThroughout ==
  ASSUME NEW h \in Seq(ChangeType), InOrder(h)
  PROVE  Ordered(h)
<1>1. \A i \in DOMAIN h : h[i] \in ChangeType /\ h[i].commit \in Nat
  BY CommitIsNumber
<1>2. SUFFICES ASSUME NEW i \in DOMAIN h, NEW j \in DOMAIN h, i <= j,
                      ~(h[i].commit <= h[j].commit)
               PROVE  FALSE
  BY DEF Ordered
<1> DEFINE Late == {k \in DOMAIN h : i <= k /\ ~(h[i].commit <= h[k].commit)}
<1>3. Late \in SUBSET Nat /\ Late # {}
  BY <1>2
<1>4. PICK m \in Late : \A k \in Late : m <= k
  BY <1>3, LeastOf
<1>5. m # i /\ m \in 1..Len(h) /\ i \in 1..Len(h) /\ i <= m
  BY <1>1, <1>4
<1>6. m - 1 \in 1..(Len(h) - 1) /\ i <= m - 1 /\ m - 1 \in DOMAIN h
  BY <1>5
<1>7. h[i].commit <= h[m - 1].commit
  BY <1>4, <1>6
<1>8. h[m - 1].commit <= h[m].commit
  <2>1. h[m - 1].commit <= h[(m - 1) + 1].commit
    BY <1>6 DEF InOrder
  <2>2. (m - 1) + 1 = m
    BY <1>5
  <2> QED BY <2>1, <2>2
<1>9. h[i].commit <= h[m].commit
  BY <1>1, <1>5, <1>6, <1>7, <1>8
<1> QED BY <1>4, <1>9

-----------------------------------------------------------------------------
(* The spool                                                               *)

(* Before the walk there is nothing to copy.                               *)
LEMMA CopyOfNothing ==
  ASSUME NEW h
  PROVE  Copied(<<>>, h, 0)
<1>1. Kept(h, 0) = {} /\ 1..Len(<<>>) = {}
  BY DEF Kept
<1>2. IsCopy([j \in {} |-> 0], <<>>, h, 0)
  BY <1>1 DEF IsCopy
<1> QED BY <1>2 DEF Copied

(* A change of a merge is passed over.                                     *)
LEMMA CopyPassesOver ==
  ASSUME NEW s, NEW h, NEW n \in Nat, Copied(s, h, n), h[n + 1].commit \in Merges
  PROVE  Copied(s, h, n + 1)
<1>1. 1..(n + 1) = 1..n \cup {n + 1}
  OBVIOUS
<1>2. Kept(h, n + 1) = Kept(h, n)
  BY <1>1 DEF Kept
<1> QED BY <1>2 DEF Copied, IsCopy

(* Each other change is appended.                                          *)
LEMMA CopyGrows ==
  ASSUME NEW s \in Seq(ChangeType), NEW h, NEW n \in Nat, Copied(s, h, n),
         h[n + 1].commit \notin Merges, h[n + 1] \in ChangeType
  PROVE  Copied(Append(s, h[n + 1]), h, n + 1)
<1> DEFINE z == Append(s, h[n + 1])
           l == Len(s)
<1>1. PICK f : IsCopy(f, s, h, n)
  BY DEF Copied
<1> DEFINE g == [j \in 1..(l + 1) |-> IF j = l + 1 THEN n + 1 ELSE f[j]]
<1>2. l \in Nat /\ Len(z) = l + 1 /\ z[l + 1] = h[n + 1]
  OBVIOUS
<1>3. \A j \in 1..l : z[j] = s[j]
  OBVIOUS
<1>4. 1..(n + 1) = 1..n \cup {n + 1} /\ 1..(l + 1) = 1..l \cup {l + 1} /\ l + 1 \notin 1..l
  BY <1>2
<1>5. Kept(h, n + 1) = Kept(h, n) \cup {n + 1}
  BY <1>4 DEF Kept
<1>6. /\ f \in [1..l -> Kept(h, n)]
      /\ \A i \in Kept(h, n) : \E j \in 1..l : f[j] = i
      /\ \A j, k \in 1..l : j < k => f[j] < f[k]
      /\ \A j \in 1..l : s[j] = h[f[j]]
  BY <1>1 DEF IsCopy
<1>7. DOMAIN g = 1..(l + 1) /\ g[l + 1] = n + 1 /\ \A j \in 1..l : g[j] = f[j]
  BY <1>2, <1>4
<1> HIDE DEF g, z, l
<1>8. g \in [1..(l + 1) -> Kept(h, n + 1)]
  <2>1. \A j \in 1..(l + 1) : g[j] \in Kept(h, n + 1)
    BY <1>4, <1>5, <1>6, <1>7
  <2>2. g = [j \in 1..(l + 1) |-> g[j]]
    BY DEF g
  <2> QED BY <2>1, <2>2
<1>9. \A i \in Kept(h, n + 1) : \E j \in 1..(l + 1) : g[j] = i
  BY <1>4, <1>5, <1>6, <1>7
<1>10. \A j, k \in 1..(l + 1) : j < k => g[j] < g[k]
  <2>1. SUFFICES ASSUME NEW j \in 1..(l + 1), NEW k \in 1..(l + 1), j < k
                 PROVE  g[j] < g[k]
    OBVIOUS
  <2>2. j \in 1..l
    BY <1>2, <2>1
  <2>3. CASE k \in 1..l
    BY <1>6, <1>7, <2>1, <2>2, <2>3
  <2>4. CASE k = l + 1
    <3>1. f[j] \in 1..n
      BY <1>6, <2>2 DEF Kept
    <3> QED BY <1>7, <2>2, <2>4, <3>1
  <2> QED BY <1>4, <2>3, <2>4
<1>11. \A j \in 1..(l + 1) : z[j] = h[g[j]]
  BY <1>2, <1>3, <1>4, <1>6, <1>7
<1>12. IsCopy(g, z, h, n + 1)
  BY <1>2, <1>8, <1>9, <1>10, <1>11 DEF IsCopy
<1> QED BY <1>12 DEF Copied, z

(* The changes in the spool are in the order of the history.               *)
LEMMA CopyIsOrdered ==
  ASSUME NEW s \in Seq(ChangeType), NEW h \in Seq(ChangeType), Copied(s, h, Len(h)),
         Ordered(h)
  PROVE  Ordered(s)
<1>1. PICK f : IsCopy(f, s, h, Len(h))
  BY DEF Copied
<1>2. SUFFICES ASSUME NEW i \in 1..Len(s), NEW j \in 1..Len(s), i <= j
               PROVE  s[i].commit <= s[j].commit
  BY DEF Ordered
<1>3. f[i] \in 1..Len(h) /\ f[j] \in 1..Len(h) /\ s[i] = h[f[i]] /\ s[j] = h[f[j]]
  BY <1>1 DEF IsCopy, Kept
<1>4. f[i] <= f[j]
  <2>1. CASE i = j
    BY <1>3, <2>1
  <2>2. CASE i < j
    BY <1>1, <1>3, <2>2 DEF IsCopy
  <2> QED BY <1>2, <2>1, <2>2
<1> QED BY <1>3, <1>4 DEF Ordered

(* What is counted over the spool is what is counted over the history.     *)
LEMMA CopyCounts ==
  ASSUME NEW s \in Seq(ChangeType), NEW h \in Seq(ChangeType), NEW f,
         IsCopy(f, s, h, Len(h)),
         NEW A \in SUBSET (1..Len(s)), NEW B \in SUBSET Kept(h, Len(h)),
         \A j \in 1..Len(s) : j \in A <=> f[j] \in B
  PROVE  Cardinality(A) = Cardinality(B)
<1> DEFINE g == [j \in A |-> f[j]]
<1>1. IsFiniteSet(A)
  <2>1. 1 \in Int /\ Len(s) \in Int
    OBVIOUS
  <2>2. IsFiniteSet(1..Len(s))
    BY <2>1, FS_Interval
  <2> QED BY <2>2, FS_Subset
<1>2. g \in [A -> B]
  BY DEF IsCopy
<1>3. \A i \in B : \E j \in A : g[j] = i
  BY DEF IsCopy
<1>4. \A j, k \in A : g[j] = g[k] => j = k
  <2>1. \A j \in 1..Len(s) : f[j] \in Nat
    BY DEF IsCopy, Kept
  <2>2. SUFFICES ASSUME NEW j \in A, NEW k \in A, f[j] = f[k], j # k
                 PROVE  FALSE
    OBVIOUS
  <2>3. j < k \/ k < j
    BY <2>2
  <2>4. f[j] < f[k] \/ f[k] < f[j]
    BY <2>3 DEF IsCopy
  <2> QED BY <2>1, <2>2, <2>4
<1>5. ExistsBijection(A, B)
  BY <1>2, <1>3, <1>4 DEF ExistsBijection, Bijection, Injection, IsInjective, Surjection
<1> QED BY <1>1, <1>5, FS_Bijection

-----------------------------------------------------------------------------
(* Results and records                                                     *)

(* Every side of a change has a result.                                    *)
LEMMA TruthType ==
  ASSUME NEW side \in Sides
  PROVE  Truth(side) \in Results
<1>1. Empty \in Results
  BY DEF Empty, Results
<1>2. side.kind # "none" => side.object \in Objects
  BY DEF Sides
<1>3. \A o \in Objects : Holds[o] = Missing \/ Holds[o] \in Results
  BY LogAssumption
<1> HIDE DEF Results
<1> QED BY <1>1, <1>2, <1>3 DEF Truth

(* The sides of a change.                                                  *)
LEMMA SidesOf ==
  ASSUME NEW c \in ChangeType
  PROVE  c.sides[1] \in Sides /\ c.sides[2] \in Sides /\ c.role \in Roles
<1>1. c.sides \in Pairs /\ c.role \in Roles
  BY DEF ChangeType
<1>2. Pairs \subseteq Sides \X Sides
  BY LogAssumption
<1>3. c.sides \in Sides \X Sides
  BY <1>1, <1>2
<1> HIDE DEF Sides, Roles
<1> QED BY <1>1, <1>3

(* With the index of a completed scan a side has the result of its object. *)
LEMMA LookupIsTruth ==
  ASSUME NEW side \in Sides, Examined(index)
  PROVE  Lookup(side) = Truth(side)
<1>1. side.kind # "none" => side.object \in Objects
  BY DEF Sides
<1>2. CASE side.kind = "none"
  BY <1>2 DEF Lookup, Truth
<1>3. CASE side.kind # "none" /\ side.object \in DOMAIN index
  BY <1>1, <1>3 DEF Lookup, Truth, Examined
<1>4. CASE side.kind # "none" /\ side.object \notin DOMAIN index
  BY <1>1, <1>4 DEF Lookup, Truth, Examined
<1> QED BY <1>2, <1>3, <1>4

(* A record adds to each column nothing or one, and the same to any two    *)
(* totals that agree on whether the commit is the one they counted last.   *)
LEMMA RecordAdds ==
  ASSUME NEW t \in Counted, NEW u \in Counted, NEW c \in ChangeType,
         t.lastCommit = <<c.commit>> <=> u.lastCommit = <<c.commit>>,
         NEW column \in Columns
  PROVE  \/ /\ RecordOf(t, c)[column] = t[column]
            /\ RecordOf(u, c)[column] = u[column]
         \/ /\ RecordOf(t, c)[column] = t[column] + 1
            /\ RecordOf(u, c)[column] = u[column] + 1
<1> DEFINE before == Truth(c.sides[1])
           after == Truth(c.sides[2])
           kind == Column(c, before, after)
           known == ~Incomplete(before, after)
<1>1. \A fact : One(fact) \in {0, 1}
  BY DEF One
<1>2. One(t.lastCommit # <<c.commit>>) = One(u.lastCommit # <<c.commit>>)
  BY DEF One
<1> DEFINE n == One(t.lastCommit # <<c.commit>>)
           e == One(kind = "expressions")
           a == One(kind = "additions")
           d == One(kind = "deletions")
           i == One(kind = "incomplete")
           p == One(known /\ ~before.spdx /\ after.spdx)
           q == One(known /\ before.spdx /\ ~after.spdx)
<1>3. \A v : RecordOf(v, c) =
        [commits |-> v.commits + One(v.lastCommit # <<c.commit>>),
         expressions |-> v.expressions + e,
         additions |-> v.additions + a, deletions |-> v.deletions + d,
         incomplete |-> v.incomplete + i, spdxAdded |-> v.spdxAdded + p,
         spdxRemoved |-> v.spdxRemoved + q, lastCommit |-> <<c.commit>>]
  BY DEF RecordOf, Record
<1>4. /\ n \in {0, 1} /\ e \in {0, 1} /\ a \in {0, 1} /\ d \in {0, 1}
      /\ i \in {0, 1} /\ p \in {0, 1} /\ q \in {0, 1}
  BY <1>1
<1>5. One(t.lastCommit # <<c.commit>>) = n /\ One(u.lastCommit # <<c.commit>>) = n
  BY <1>2
<1> HIDE DEF n, e, a, d, i, p, q
<1>6. /\ RecordOf(t, c) =
        [commits |-> t.commits + n, expressions |-> t.expressions + e,
         additions |-> t.additions + a, deletions |-> t.deletions + d,
         incomplete |-> t.incomplete + i, spdxAdded |-> t.spdxAdded + p,
         spdxRemoved |-> t.spdxRemoved + q, lastCommit |-> <<c.commit>>]
      /\ RecordOf(u, c) =
        [commits |-> u.commits + n, expressions |-> u.expressions + e,
         additions |-> u.additions + a, deletions |-> u.deletions + d,
         incomplete |-> u.incomplete + i, spdxAdded |-> u.spdxAdded + p,
         spdxRemoved |-> u.spdxRemoved + q, lastCommit |-> <<c.commit>>]
  BY <1>3, <1>5
<1>7. \A v \in {t, u} :
         /\ v.commits \in Nat /\ v.expressions \in Nat /\ v.additions \in Nat
         /\ v.deletions \in Nat /\ v.incomplete \in Nat
         /\ v.spdxAdded \in Nat /\ v.spdxRemoved \in Nat
  BY DEF Counted
<1>8. CASE column = "commits"
  BY <1>4, <1>6, <1>7, <1>8
<1>9. CASE column = "expressions"
  BY <1>4, <1>6, <1>7, <1>9
<1>10. CASE column = "additions"
  BY <1>4, <1>6, <1>7, <1>10
<1>11. CASE column = "deletions"
  BY <1>4, <1>6, <1>7, <1>11
<1>12. CASE column = "incomplete"
  BY <1>4, <1>6, <1>7, <1>12
<1>13. CASE column = "spdxAdded"
  BY <1>4, <1>6, <1>7, <1>13
<1>14. CASE column = "spdxRemoved"
  BY <1>4, <1>6, <1>7, <1>14
<1> QED BY <1>8, <1>9, <1>10, <1>11, <1>12, <1>13, <1>14 DEF Columns

(* A record is counted again, and by the kind of the change.               *)
LEMMA RecordType ==
  ASSUME NEW t \in Counted, NEW c \in ChangeType
  PROVE  /\ RecordOf(t, c) \in Counted
         /\ RecordOf(t, c).lastCommit = <<c.commit>>
         /\ RecordOf(t, c).commits = t.commits + CommitBy(t, c)
         /\ RecordOf(t, c).expressions = t.expressions + AddedBy(c, "expressions")
         /\ RecordOf(t, c).additions = t.additions + AddedBy(c, "additions")
         /\ RecordOf(t, c).deletions = t.deletions + AddedBy(c, "deletions")
         /\ RecordOf(t, c).incomplete = t.incomplete + AddedBy(c, "incomplete")
<1> DEFINE r == RecordOf(t, c)
<1>1. \A fact : One(fact) \in {0, 1}
  BY DEF One
<1>2. /\ r.lastCommit = <<c.commit>>
      /\ r.commits = t.commits + CommitBy(t, c)
      /\ r.expressions = t.expressions + AddedBy(c, "expressions")
      /\ r.additions = t.additions + AddedBy(c, "additions")
      /\ r.deletions = t.deletions + AddedBy(c, "deletions")
      /\ r.incomplete = t.incomplete + AddedBy(c, "incomplete")
  BY DEF RecordOf, ColumnOf, Record, CommitBy, AddedBy
<1>3. c.commit \in Commits
  BY CommitIsNumber
<1>4. r \in Counted
  <2> DEFINE known == ~Incomplete(Truth(c.sides[1]), Truth(c.sides[2]))
             added == known /\ ~Truth(c.sides[1]).spdx /\ Truth(c.sides[2]).spdx
             removed == known /\ Truth(c.sides[1]).spdx /\ ~Truth(c.sides[2]).spdx
             kind == ColumnOf(c)
  <2>1. r = [commits     |-> t.commits + One(t.lastCommit # <<c.commit>>),
             expressions |-> t.expressions + One(kind = "expressions"),
             additions   |-> t.additions + One(kind = "additions"),
             deletions   |-> t.deletions + One(kind = "deletions"),
             incomplete  |-> t.incomplete + One(kind = "incomplete"),
             spdxAdded   |-> t.spdxAdded + One(added),
             spdxRemoved |-> t.spdxRemoved + One(removed),
             lastCommit  |-> <<c.commit>>]
    BY DEF RecordOf, ColumnOf, Record
  <2>2. /\ t.commits \in Nat /\ t.expressions \in Nat /\ t.additions \in Nat
        /\ t.deletions \in Nat /\ t.incomplete \in Nat
        /\ t.spdxAdded \in Nat /\ t.spdxRemoved \in Nat
    BY DEF Counted
  <2> HIDE DEF kind, added, removed, r
  <2>3. \A m \in Nat : \A fact : m + One(fact) \in Nat
    BY DEF One
  <2>4. /\ t.commits + One(t.lastCommit # <<c.commit>>) \in Nat
        /\ t.expressions + One(kind = "expressions") \in Nat
        /\ t.additions + One(kind = "additions") \in Nat
        /\ t.deletions + One(kind = "deletions") \in Nat
        /\ t.incomplete + One(kind = "incomplete") \in Nat
        /\ t.spdxAdded + One(added) \in Nat
        /\ t.spdxRemoved + One(removed) \in Nat
    BY <2>2, <2>3
  <2> QED BY <1>3, <2>1, <2>4 DEF Counted
<1> QED BY <1>2, <1>4

-----------------------------------------------------------------------------
(* What one change adds to a report                                        *)

(* The changes to report are positions in the spool.                       *)
LEMMA ReportsAreFinite ==
  ASSUME NEW s, NEW role, NEW n \in Nat
  PROVE  /\ IsFiniteSet(Reports(s, role, n))
         /\ Reports(s, role, n) \subseteq 1..n
         /\ \A column : IsFiniteSet(InColumn(s, role, n, column))
         /\ IsFiniteSet(Heads(s, role, n))
<1>1. IsFiniteSet(1..n)
  <2>1. 1 \in Int /\ n \in Int
    OBVIOUS
  <2> QED BY <2>1, FS_Interval
<1>2. Reports(s, role, n) \subseteq 1..n
  BY DEF Reports
<1>3. IsFiniteSet(Reports(s, role, n))
  BY <1>1, <1>2, FS_Subset
<1>4. ASSUME NEW column PROVE IsFiniteSet(InColumn(s, role, n, column))
  <2>1. InColumn(s, role, n, column) \subseteq Reports(s, role, n)
    BY DEF InColumn
  <2> QED BY <1>3, <2>1, FS_Subset
<1>5. IsFiniteSet(Heads(s, role, n))
  <2> DEFINE f == [j \in Reports(s, role, n) |-> s[j].commit]
  <2>1. f \in Surjection(Reports(s, role, n), Heads(s, role, n))
    BY DEF Surjection, Heads
  <2> QED BY <1>3, <2>1, FS_Surjection
<1> QED BY <1>2, <1>3, <1>4, <1>5

(* A change adds itself to the group it belongs to, if it is reported.     *)
LEMMA ReportsNext ==
  ASSUME NEW s, NEW role, NEW n \in Nat
  PROVE  /\ n + 1 \notin Reports(s, role, n)
         /\ IF s[n + 1].role = role /\ Told(s[n + 1])
            THEN Reports(s, role, n + 1) = Reports(s, role, n) \cup {n + 1}
            ELSE Reports(s, role, n + 1) = Reports(s, role, n)
<1>1. 1..(n + 1) = 1..n \cup {n + 1} /\ n + 1 \notin 1..n
  OBVIOUS
<1> QED BY <1>1 DEF Reports

(* A change that is not reported leaves the account as it is.              *)
LEMMA QuietStep ==
  ASSUME NEW s, NEW n \in Nat, NEW T, NEW M, NEW H, ~Told(s[n + 1]),
         Replayed(s, n, T, M, H)
  PROVE  Replayed(s, n + 1, T, M, H)
<1>1. \A role : Reports(s, role, n + 1) = Reports(s, role, n)
  BY ReportsNext
<1>2. Accounts(s, n + 1, T)
  <2>1. \A role : Heads(s, role, n + 1) = Heads(s, role, n)
    BY <1>1 DEF Heads
  <2>2. \A role, column : InColumn(s, role, n + 1, column) = InColumn(s, role, n, column)
    BY <1>1 DEF InColumn
  <2> QED BY <2>1, <2>2 DEF Accounts, Replayed
<1>3. Latest(s, n + 1, T)
  BY <1>1 DEF Latest, Replayed
<1>4. Monthly(s, n + 1, T, M)
  BY <1>1 DEF Monthly, Replayed
<1>5. Headings(s, n + 1, H)
  <2>1. 1..n \subseteq 1..(n + 1)
    OBVIOUS
  <2> QED BY <2>1 DEF Headings, Replayed
<1> QED BY <1>2, <1>3, <1>4, <1>5 DEF Replayed

(* A reported change is counted as a new commit exactly if no change of    *)
(* its commit has been reported in its group.                              *)
LEMMA LastCommitTells ==
  ASSUME NEW s \in Seq(ChangeType), NEW n \in Nat, n < Len(s), Ordered(s), NEW T,
         Latest(s, n, T), NEW role \in Roles
  PROVE  T[role].lastCommit = <<s[n + 1].commit>> <=> s[n + 1].commit \in Heads(s, role, n)
<1>1. \A j \in 1..(n + 1) : s[j] \in ChangeType /\ s[j].commit \in Nat
                           /\ s[j].commit <= s[n + 1].commit
  <2>1. \A j \in 1..(n + 1) : j \in DOMAIN s /\ j <= n + 1
    OBVIOUS
  <2>2. n + 1 \in DOMAIN s
    OBVIOUS
  <2> QED BY <2>1, <2>2, CommitIsNumber DEF Ordered
<1>2. Reports(s, role, n) \subseteq 1..n /\ 1..n \subseteq 1..(n + 1) /\ n + 1 \in 1..(n + 1)
  BY DEF Reports
<1>3. CASE T[role].lastCommit = <<>> /\ Reports(s, role, n) = {}
  BY <1>3 DEF Heads
<1>4. CASE \E j \in Reports(s, role, n) :
             /\ T[role].lastCommit = <<s[j].commit>>
             /\ \A k \in Reports(s, role, n) : s[k].commit <= s[j].commit
  <2>1. PICK j \in Reports(s, role, n) :
             /\ T[role].lastCommit = <<s[j].commit>>
             /\ \A k \in Reports(s, role, n) : s[k].commit <= s[j].commit
    BY <1>4
  <2>2. ASSUME T[role].lastCommit = <<s[n + 1].commit>>
        PROVE  s[n + 1].commit \in Heads(s, role, n)
    <3>1. s[j].commit = s[n + 1].commit
      BY <2>1, <2>2
    <3> QED BY <3>1 DEF Heads
  <2>3. ASSUME s[n + 1].commit \in Heads(s, role, n)
        PROVE  T[role].lastCommit = <<s[n + 1].commit>>
    <3>1. PICK k \in Reports(s, role, n) : s[k].commit = s[n + 1].commit
      BY <2>3 DEF Heads
    <3>2. s[n + 1].commit <= s[j].commit
      BY <2>1, <3>1
    <3>3. s[j].commit = s[n + 1].commit
      BY <1>1, <1>2, <3>2
    <3> QED BY <2>1, <3>3
  <2> QED BY <2>2, <2>3
<1> QED BY <1>3, <1>4 DEF Latest

(* A reported change adds itself to one column of its group.               *)
LEMMA InColumnNext ==
  ASSUME NEW s, NEW n \in Nat, Told(s[n + 1]), NEW column
  PROVE  Cardinality(InColumn(s, s[n + 1].role, n + 1, column))
           = Cardinality(InColumn(s, s[n + 1].role, n, column)) + AddedBy(s[n + 1], column)
<1> DEFINE role == s[n + 1].role
           C == InColumn(s, role, n, column)
           D == InColumn(s, role, n + 1, column)
<1>1. Reports(s, role, n + 1) = Reports(s, role, n) \cup {n + 1} /\ n + 1 \notin Reports(s, role, n)
  BY ReportsNext
<1>2. IsFiniteSet(C) /\ n + 1 \notin C
  <2>1. IsFiniteSet(C)
    BY ReportsAreFinite
  <2>2. n + 1 \notin C
    BY <1>1 DEF InColumn
  <2> QED BY <2>1, <2>2
<1>3. Cardinality(C) \in Nat
  BY <1>2, FS_CardinalityType
<1>4. CASE ColumnOf(s[n + 1]) = column
  <2>1. D = C \cup {n + 1}
    BY <1>1, <1>4 DEF InColumn
  <2>2. AddedBy(s[n + 1], column) = 1
    BY <1>4 DEF AddedBy, One
  <2> HIDE DEF C, D
  <2>3. Cardinality(D) = Cardinality(C) + 1
    BY <1>2, <2>1, FS_AddElement
  <2> QED BY <2>2, <2>3 DEF C, D
<1>5. CASE ColumnOf(s[n + 1]) # column
  <2>1. D = C
    BY <1>1, <1>5 DEF InColumn
  <2>2. AddedBy(s[n + 1], column) = 0
    BY <1>5 DEF AddedBy, One
  <2> QED BY <1>3, <2>1, <2>2
<1> QED BY <1>4, <1>5

(* A reported change of a commit that was counted last adds no commit.     *)
LEMMA HeadsNext ==
  ASSUME NEW s \in Seq(ChangeType), NEW n \in Nat, n < Len(s), Ordered(s),
         NEW T, Latest(s, n, T), Told(s[n + 1])
  PROVE  Cardinality(Heads(s, s[n + 1].role, n + 1))
           = Cardinality(Heads(s, s[n + 1].role, n)) + CommitBy(T[s[n + 1].role], s[n + 1])
<1> DEFINE role == s[n + 1].role
           C == Heads(s, role, n)
           D == Heads(s, role, n + 1)
           x == s[n + 1].commit
<1>1. Reports(s, role, n + 1) = Reports(s, role, n) \cup {n + 1}
  BY ReportsNext
<1>2. D = C \cup {x}
  BY <1>1 DEF Heads
<1>3. role \in Roles
  <2>1. s[n + 1] \in ChangeType
    OBVIOUS
  <2> QED BY <2>1, SidesOf
<1>4. T[role].lastCommit = <<x>> <=> x \in C
  BY <1>3, LastCommitTells
<1>5. IsFiniteSet(C)
  BY ReportsAreFinite
<1>6. Cardinality(C) \in Nat
  BY <1>5, FS_CardinalityType
<1>7. CommitBy(T[role], s[n + 1]) = IF x \in C THEN 0 ELSE 1
  BY <1>4 DEF CommitBy, One
<1> HIDE DEF C, D, x
<1>8. Cardinality(D) = IF x \in C THEN Cardinality(C) ELSE Cardinality(C) + 1
  BY <1>2, <1>5, FS_AddElement
<1>9. Cardinality(D) = Cardinality(C) + CommitBy(T[role], s[n + 1])
  BY <1>6, <1>7, <1>8
<1> QED BY <1>9 DEF C, D

(* With a reported change the totals are those of one change more.         *)
LEMMA AccountsNext ==
  ASSUME NEW s \in Seq(ChangeType), NEW n \in Nat, n < Len(s), Ordered(s),
         NEW T \in [Roles -> Counted], Accounts(s, n, T), Latest(s, n, T),
         Told(s[n + 1]), NEW U \in [Roles -> Counted],
         U[s[n + 1].role] = RecordOf(T[s[n + 1].role], s[n + 1]),
         \A r \in Roles : r # s[n + 1].role => U[r] = T[r]
  PROVE  Accounts(s, n + 1, U)
<1> DEFINE c == s[n + 1]
<1>1. c \in ChangeType /\ c.role \in Roles
  BY SidesOf
<1>2. SUFFICES ASSUME NEW role \in Roles
               PROVE  /\ U[role].commits = Cardinality(Heads(s, role, n + 1))
                      /\ U[role].incomplete = Cardinality(InColumn(s, role, n + 1, "incomplete"))
                      /\ U[role].additions = Cardinality(InColumn(s, role, n + 1, "additions"))
                      /\ U[role].deletions = Cardinality(InColumn(s, role, n + 1, "deletions"))
                      /\ U[role].expressions = Cardinality(InColumn(s, role, n + 1, "expressions"))
  BY DEF Accounts
<1>3. CASE role # c.role
  <2>1. Reports(s, role, n + 1) = Reports(s, role, n)
    BY <1>3, ReportsNext
  <2>2. Heads(s, role, n + 1) = Heads(s, role, n)
    BY <2>1 DEF Heads
  <2>3. \A column : InColumn(s, role, n + 1, column) = InColumn(s, role, n, column)
    BY <2>1 DEF InColumn
  <2>4. U[role] = T[role]
    BY <1>3
  <2> QED BY <2>2, <2>3, <2>4 DEF Accounts
<1>4. CASE role = c.role
  <2>1. /\ T[role].commits = Cardinality(Heads(s, role, n))
        /\ T[role].incomplete = Cardinality(InColumn(s, role, n, "incomplete"))
        /\ T[role].additions = Cardinality(InColumn(s, role, n, "additions"))
        /\ T[role].deletions = Cardinality(InColumn(s, role, n, "deletions"))
        /\ T[role].expressions = Cardinality(InColumn(s, role, n, "expressions"))
    BY DEF Accounts
  <2>2. PICK t \in Counted : t = T[role]
    OBVIOUS
  <2>3. U[role] = RecordOf(t, c)
    BY <1>4, <2>2
  <2>4. /\ U[role].commits = t.commits + CommitBy(t, c)
        /\ U[role].expressions = t.expressions + AddedBy(c, "expressions")
        /\ U[role].additions = t.additions + AddedBy(c, "additions")
        /\ U[role].deletions = t.deletions + AddedBy(c, "deletions")
        /\ U[role].incomplete = t.incomplete + AddedBy(c, "incomplete")
    <3>1. /\ RecordOf(t, c).commits = t.commits + CommitBy(t, c)
          /\ RecordOf(t, c).expressions = t.expressions + AddedBy(c, "expressions")
          /\ RecordOf(t, c).additions = t.additions + AddedBy(c, "additions")
          /\ RecordOf(t, c).deletions = t.deletions + AddedBy(c, "deletions")
          /\ RecordOf(t, c).incomplete = t.incomplete + AddedBy(c, "incomplete")
      <4> HIDE DEF c
      <4> QED BY ONLY <1>1, RecordType, t \in Counted
    <3> QED BY <2>3, <3>1
  <2>5. \A column : Cardinality(InColumn(s, role, n + 1, column))
                     = Cardinality(InColumn(s, role, n, column)) + AddedBy(c, column)
    BY <1>4, InColumnNext
  <2>6. Cardinality(Heads(s, role, n + 1)) = Cardinality(Heads(s, role, n)) + CommitBy(t, c)
    BY <1>4, <2>2, HeadsNext
  <2> QED BY <2>1, <2>2, <2>4, <2>5, <2>6
<1> QED BY <1>3, <1>4

(* The commit of a reported change is the latest of its group.             *)
LEMMA LatestNext ==
  ASSUME NEW s \in Seq(ChangeType), NEW n \in Nat, n < Len(s), Ordered(s),
         NEW T \in [Roles -> Counted], Latest(s, n, T), Told(s[n + 1]),
         NEW U \in [Roles -> Counted],
         U[s[n + 1].role].lastCommit = <<s[n + 1].commit>>,
         \A r \in Roles : r # s[n + 1].role => U[r] = T[r]
  PROVE  Latest(s, n + 1, U)
<1> SUFFICES ASSUME NEW role \in Roles
             PROVE  \/ /\ U[role].lastCommit = <<>>
                       /\ Reports(s, role, n + 1) = {}
                    \/ \E j \in Reports(s, role, n + 1) :
                         /\ U[role].lastCommit = <<s[j].commit>>
                         /\ \A k \in Reports(s, role, n + 1) : s[k].commit <= s[j].commit
  BY DEF Latest
<1>1. CASE role # s[n + 1].role
  <2>1. Reports(s, role, n + 1) = Reports(s, role, n) /\ U[role] = T[role]
    BY <1>1, ReportsNext
  <2> QED BY <2>1 DEF Latest
<1>2. CASE role = s[n + 1].role
  <2>1. n + 1 \in Reports(s, role, n + 1) /\ Reports(s, role, n + 1) \subseteq 1..(n + 1)
    BY <1>2 DEF Reports
  <2>2. \A k \in 1..(n + 1) : s[k].commit <= s[n + 1].commit
    <3>1. \A k \in 1..(n + 1) : k \in DOMAIN s /\ n + 1 \in DOMAIN s /\ k <= n + 1
      OBVIOUS
    <3> QED BY <3>1 DEF Ordered
  <2> QED BY <1>2, <2>1, <2>2
<1> QED BY <1>1, <1>2

(* What is on record under a key, the blank totals if nothing is.          *)
Entry(M, key) == IF key \in DOMAIN M THEN M[key] ELSE Zero

(* A change is of the commit that was counted last.                        *)
LastIs(t, c) == t.lastCommit = <<c.commit>>

(* The month of a reported change has last counted its commit if its group *)
(* has.                                                                    *)
LEMMA MonthTells ==
  ASSUME NEW s \in Seq(ChangeType), NEW n \in Nat, n < Len(s), Ordered(s),
         NEW T \in [Roles -> Counted], NEW M, Latest(s, n, T), Monthly(s, n, T, M),
         NEW c, c = s[n + 1]
  PROVE  LastIs(T[c.role], c) <=> LastIs(Entry(M, MonthKey(c)), c)
<1> USE DEF LastIs
<1> DEFINE t == Entry(M, MonthKey(c))
<1>1. c \in ChangeType /\ c.role \in Roles /\ c.commit \in Commits
  BY SidesOf, CommitIsNumber
<1>2. ASSUME T[c.role].lastCommit = <<c.commit>>
      PROVE  t.lastCommit = <<c.commit>>
  <2>1. MonthKey(c) \in DOMAIN M /\ M[MonthKey(c)].lastCommit = <<c.commit>>
    BY <1>1, <1>2 DEF Monthly, MonthKey
  <2> QED BY <2>1 DEF Entry
<1>3. ASSUME t.lastCommit = <<c.commit>>
      PROVE  T[c.role].lastCommit = <<c.commit>>
  <2>1. MonthKey(c) \in DOMAIN M
    <3>1. Zero.lastCommit = <<>>
      BY DEF Zero
    <3>2. <<>> # <<c.commit>>
      OBVIOUS
    <3> QED BY <1>3, <3>1, <3>2 DEF Entry
  <2>2. PICK j \in Reports(s, MonthKey(c)[2], n) : M[MonthKey(c)].lastCommit = <<s[j].commit>>
    BY <2>1 DEF Monthly
  <2>3. MonthKey(c)[2] = c.role
    BY DEF MonthKey
  <2>4. j \in Reports(s, c.role, n) /\ s[j].commit = c.commit
    BY <1>3, <2>1, <2>2, <2>3 DEF Entry
  <2>5. c.commit \in Heads(s, c.role, n)
    BY <2>4 DEF Heads
  <2> QED BY <1>1, <2>5, LastCommitTells
<1> QED BY <1>2, <1>3

(* A reported change is the last one of its group and of its month.        *)
LEMMA MonthlyNext ==
  ASSUME NEW s \in Seq(ChangeType), NEW n \in Nat, n < Len(s),
         NEW T \in [Roles -> Counted], NEW M, Monthly(s, n, T, M), Told(s[n + 1]),
         NEW U \in [Roles -> Counted], NEW N,
         U[s[n + 1].role].lastCommit = <<s[n + 1].commit>>,
         \A r \in Roles : r # s[n + 1].role => U[r] = T[r],
         DOMAIN M \subseteq Keys,
         DOMAIN N = DOMAIN M \cup {MonthKey(s[n + 1])},
         N[MonthKey(s[n + 1])].lastCommit = <<s[n + 1].commit>>,
         \A k \in DOMAIN M : k # MonthKey(s[n + 1]) => N[k] = M[k]
  PROVE  Monthly(s, n + 1, U, N)
<1> DEFINE c == s[n + 1]
           key == MonthKey(c)
<1>1. c \in ChangeType /\ c.role \in Roles /\ c.commit \in Commits
  BY SidesOf, CommitIsNumber
<1>2. key = <<Month[c.commit], c.role>> /\ key[1] = Month[c.commit] /\ key[2] = c.role
  BY DEF MonthKey
<1>3. \A r : Reports(s, r, n) \subseteq Reports(s, r, n + 1)
  BY ReportsNext
<1>4. ASSUME NEW k \in DOMAIN N
      PROVE  \E j \in Reports(s, k[2], n + 1) :
               N[k].lastCommit = <<s[j].commit>> /\ Month[s[j].commit] = k[1]
  <2>1. CASE k = key
    <3>1. n + 1 \in Reports(s, c.role, n + 1)
      BY ReportsNext
    <3> QED BY <1>2, <2>1, <3>1
  <2>2. CASE k # key
    <3>1. k \in DOMAIN M /\ N[k] = M[k]
      BY <2>2
    <3>2. PICK j \in Reports(s, k[2], n) :
            M[k].lastCommit = <<s[j].commit>> /\ Month[s[j].commit] = k[1]
      BY <3>1 DEF Monthly
    <3> QED BY <1>3, <3>1, <3>2
  <2> QED BY <2>1, <2>2
<1>5. ASSUME NEW role \in Roles, NEW d \in Commits, U[role].lastCommit = <<d>>
      PROVE  /\ <<Month[d], role>> \in DOMAIN N
             /\ N[<<Month[d], role>>].lastCommit = <<d>>
  <2>1. CASE role = c.role
    <3>1. d = c.commit
      BY <1>5, <2>1
    <3> QED BY <1>2, <2>1, <3>1
  <2>2. CASE role # c.role
    <3>1. T[role].lastCommit = <<d>>
      BY <1>5, <2>2
    <3>2. <<Month[d], role>> \in DOMAIN M /\ M[<<Month[d], role>>].lastCommit = <<d>>
      BY <3>1 DEF Monthly
    <3>3. <<Month[d], role>> # key
      BY <1>2, <2>2
    <3> QED BY <3>2, <3>3
  <2> QED BY <2>1, <2>2
<1> QED BY <1>4, <1>5 DEF Monthly

(* A table of months that differs from another in one key.                 *)
DiffersAt(key, M, N) ==
  /\ DOMAIN N = DOMAIN M \cup {key}
  /\ \A k \in DOMAIN M : k # key => N[k] = M[k]

(* What a table says in a column under a key, none if it lacks the key.    *)
Under(M, key, column) == IF key \in DOMAIN M THEN M[key][column] ELSE 0

(* One more in one month is one more in the sum over the months.           *)
LEMMA TalliesGrow ==
  ASSUME NEW M, NEW N, NEW key, NEW role, NEW column, DiffersAt(key, M, N),
         key[2] = role, Under(M, key, column) \in Nat,
         N[key][column] = Under(M, key, column) + 1,
         IsFiniteSet(Tallies(M, role, column))
  PROVE  /\ IsFiniteSet(Tallies(N, role, column))
         /\ Cardinality(Tallies(N, role, column)) = Cardinality(Tallies(M, role, column)) + 1
<1> USE DEF DiffersAt, Under
<1>1. PICK m \in Nat : m = Under(M, key, column)
  OBVIOUS
<1> DEFINE A == Tallies(M, role, column)
           B == Tallies(N, role, column)
<1>2. 1..(m + 1) = 1..m \cup {m + 1} /\ m + 1 \notin 1..m
  OBVIOUS
<1>3. \A x : x \in A <=> \E k \in DOMAIN M : k[2] = role /\ \E i \in 1..M[k][column] : x = <<k, i>>
  BY DEF Tallies
<1>4. \A x : x \in B <=> \E k \in DOMAIN N : k[2] = role /\ \E i \in 1..N[k][column] : x = <<k, i>>
  BY DEF Tallies
<1>5. \A i : <<key, i>> \in A <=> i \in 1..m
  <2>1. 1..0 = {}
    OBVIOUS
  <2> QED BY <1>1, <1>3, <2>1
<1> HIDE DEF A, B
<1>6. B = A \cup {<<key, m + 1>>}
  <2>1. ASSUME NEW x \in B PROVE x \in A \cup {<<key, m + 1>>}
    <3>1. PICK k \in DOMAIN N : k[2] = role /\ \E i \in 1..N[k][column] : x = <<k, i>>
      BY <1>4
    <3>2. PICK i \in 1..N[k][column] : x = <<k, i>>
      BY <3>1
    <3>3. CASE k = key
      BY <1>1, <1>2, <1>5, <3>2, <3>3
    <3>4. CASE k # key
      <4>1. k \in DOMAIN M /\ N[k] = M[k]
        BY <3>4
      <4> QED BY <1>3, <3>1, <3>2, <4>1
    <3> QED BY <3>3, <3>4
  <2>2. ASSUME NEW x \in A PROVE x \in B
    <3>1. PICK k \in DOMAIN M : k[2] = role /\ \E i \in 1..M[k][column] : x = <<k, i>>
      BY <1>3
    <3>2. PICK i \in 1..M[k][column] : x = <<k, i>>
      BY <3>1
    <3>3. CASE k = key
      BY <1>1, <1>2, <1>4, <3>2, <3>3
    <3>4. CASE k # key
      BY <1>4, <3>1, <3>2, <3>4
    <3> QED BY <3>3, <3>4
  <2>3. <<key, m + 1>> \in B
    BY <1>1, <1>2, <1>4
  <2> QED BY <2>1, <2>2, <2>3
<1>7. <<key, m + 1>> \notin A
  BY <1>2, <1>5
<1>8. IsFiniteSet(A)
  BY DEF A
<1>9. IsFiniteSet(B) /\ Cardinality(B) = Cardinality(A) + 1
  BY <1>6, <1>7, <1>8, FS_AddElement
<1> QED BY <1>9 DEF A, B

(* What leaves a column of a month alone leaves the sum alone.             *)
LEMMA TalliesStay ==
  ASSUME NEW M, NEW N, NEW key, NEW role, NEW column, DiffersAt(key, M, N),
         key[2] = role => N[key][column] = Under(M, key, column)
  PROVE  Tallies(N, role, column) = Tallies(M, role, column)
<1> USE DEF DiffersAt, Under
<1>1. \A x : x \in Tallies(M, role, column)
               <=> \E k \in DOMAIN M : k[2] = role /\ \E i \in 1..M[k][column] : x = <<k, i>>
  BY DEF Tallies
<1>2. \A x : x \in Tallies(N, role, column)
               <=> \E k \in DOMAIN N : k[2] = role /\ \E i \in 1..N[k][column] : x = <<k, i>>
  BY DEF Tallies
<1>3. 1..0 = {}
  OBVIOUS
<1>4. ASSUME NEW x \in Tallies(N, role, column) PROVE x \in Tallies(M, role, column)
  <2>1. PICK k \in DOMAIN N : k[2] = role /\ \E i \in 1..N[k][column] : x = <<k, i>>
    BY <1>2
  <2>2. k \in DOMAIN M /\ N[k][column] = M[k][column]
    BY <1>3, <2>1
  <2> QED BY <1>1, <2>1, <2>2
<1>5. ASSUME NEW x \in Tallies(M, role, column) PROVE x \in Tallies(N, role, column)
  <2>1. PICK k \in DOMAIN M : k[2] = role /\ \E i \in 1..M[k][column] : x = <<k, i>>
    BY <1>1
  <2>2. k \in DOMAIN N /\ N[k][column] = M[k][column]
    BY <2>1
  <2> QED BY <1>2, <2>1, <2>2
<1> QED BY <1>4, <1>5

(* A reported change keeps the months adding up to the totals.             *)
LEMMA SummedNext ==
  ASSUME NEW c \in ChangeType, NEW T \in [Roles -> Counted], NEW M, Summed(T, M),
         NEW U \in [Roles -> Counted], NEW N, NEW t \in Counted,
         t = Entry(M, MonthKey(c)),
         T[c.role].lastCommit = <<c.commit>> <=> t.lastCommit = <<c.commit>>,
         U[c.role] = RecordOf(T[c.role], c),
         \A r \in Roles : r # c.role => U[r] = T[r],
         DiffersAt(MonthKey(c), M, N),
         N[MonthKey(c)] = RecordOf(t, c)
  PROVE  Summed(U, N)
<1> DEFINE key == MonthKey(c)
<1>1. SUFFICES ASSUME NEW role \in Roles, NEW column \in Columns
               PROVE  /\ IsFiniteSet(Tallies(N, role, column))
                      /\ U[role][column] = Cardinality(Tallies(N, role, column))
  BY DEF Summed
<1>2. c.role \in Roles /\ key[2] = c.role
  BY SidesOf DEF MonthKey
<1>3. /\ IsFiniteSet(Tallies(M, role, column))
      /\ T[role][column] = Cardinality(Tallies(M, role, column))
  BY DEF Summed
<1> HIDE DEF key
<1>4. DiffersAt(key, M, N) /\ N[key] = RecordOf(t, c)
  BY DEF key
<1>5. t[column] \in Nat /\ t[column] = Under(M, key, column)
  <2>1. t[column] \in Nat
    BY DEF Counted, Columns
  <2>2. key \notin DOMAIN M => t[column] = 0
    BY DEF Zero, Columns, key, Entry
  <2>3. key \in DOMAIN M => t[column] = M[key][column]
    BY DEF key, Entry
  <2> QED BY <2>1, <2>2, <2>3 DEF Under
<1>6. CASE role # c.role
  <2>1. key[2] # role
    BY <1>2, <1>6
  <2>2. Tallies(N, role, column) = Tallies(M, role, column)
    BY <1>4, <2>1, TalliesStay
  <2> QED BY <1>3, <1>6, <2>2
<1>7. CASE role = c.role
  <2>1. T[role] \in Counted /\ U[role] = RecordOf(T[role], c)
    BY <1>7
  <2>2. T[role].lastCommit = <<c.commit>> <=> t.lastCommit = <<c.commit>>
    BY <1>7
  <2>3. \/ /\ RecordOf(T[role], c)[column] = T[role][column]
           /\ RecordOf(t, c)[column] = t[column]
        \/ /\ RecordOf(T[role], c)[column] = T[role][column] + 1
           /\ RecordOf(t, c)[column] = t[column] + 1
    BY <2>1, <2>2, RecordAdds
  <2>4. \/ U[role][column] = T[role][column] /\ N[key][column] = Under(M, key, column)
        \/ U[role][column] = T[role][column] + 1 /\ N[key][column] = Under(M, key, column) + 1
    BY <1>4, <1>5, <2>1, <2>3
  <2>5. CASE U[role][column] = T[role][column] /\ N[key][column] = Under(M, key, column)
    <3>1. Tallies(N, role, column) = Tallies(M, role, column)
      BY <1>4, <2>5, TalliesStay
    <3> QED BY <1>3, <2>5, <3>1
  <2>6. CASE U[role][column] = T[role][column] + 1 /\ N[key][column] = Under(M, key, column) + 1
    <3>1. key[2] = role /\ Under(M, key, column) \in Nat
      BY <1>2, <1>5, <1>7
    <3>2. /\ IsFiniteSet(Tallies(N, role, column))
          /\ Cardinality(Tallies(N, role, column)) = Cardinality(Tallies(M, role, column)) + 1
      BY <1>3, <1>4, <2>6, <3>1, TalliesGrow
    <3> QED BY <1>3, <2>6, <3>2
  <2> QED BY <2>4, <2>5, <2>6
<1> QED BY <1>6, <1>7

(* A heading is printed for the commit of a change unless it is the last   *)
(* one printed: the headings are in the order of the walk, without one     *)
(* twice.                                                                  *)
LEMMA HeadingsNext ==
  ASSUME NEW s \in Seq(ChangeType), NEW n \in Nat, n < Len(s), Ordered(s),
         NEW H \in Seq(Commits), Headings(s, n, H), Rising(H),
         NEW G, G = IF H # <<>> /\ Last(H) = s[n + 1].commit
                    THEN H ELSE Append(H, s[n + 1].commit)
  PROVE  G \in Seq(Commits) /\ Headings(s, n + 1, G) /\ Rising(G)
<1> DEFINE x == s[n + 1].commit
<1>1. x \in Commits /\ x \in Nat
  BY CommitIsNumber
<1>2. 1..n \subseteq 1..(n + 1) /\ n + 1 \in 1..(n + 1)
  OBVIOUS
<1>3. \A i \in DOMAIN H : H[i] \in Nat /\ H[i] <= x
  <2>1. SUFFICES ASSUME NEW i \in DOMAIN H PROVE H[i] \in Nat /\ H[i] <= x
    OBVIOUS
  <2>2. PICK j \in 1..n : H[i] = s[j].commit
    BY DEF Headings
  <2>3. j \in DOMAIN s /\ n + 1 \in DOMAIN s /\ j <= n + 1
    OBVIOUS
  <2>4. s[j] \in ChangeType
    BY <2>3
  <2> QED BY <2>2, <2>3, <2>4, CommitIsNumber DEF Ordered
<1>4. CASE H # <<>> /\ Last(H) = x
  BY <1>2, <1>4 DEF Headings
<1>5. CASE ~(H # <<>> /\ Last(H) = x)
  <2>1. G = Append(H, x)
    BY <1>5
  <2> HIDE DEF x
  <2>2. /\ Len(H) \in Nat /\ DOMAIN H = 1..Len(H)
        /\ G \in Seq(Commits) /\ DOMAIN G = 1..(Len(H) + 1)
        /\ G[Len(H) + 1] = x
        /\ \A i \in 1..Len(H) : G[i] = H[i]
    BY <1>1, <2>1
  <2>3. \A i \in 1..(Len(H) + 1) : i \in 1..Len(H) \/ i = Len(H) + 1
    BY <2>2
  <2>4. Headings(s, n + 1, G)
    BY <1>2, <2>2, <2>3 DEF Headings, x
  <2>5. \A i \in 1..Len(H) : H[i] < x
    <3>1. SUFFICES ASSUME NEW i \in 1..Len(H) PROVE H[i] < x
      OBVIOUS
    <3>2. Len(H) \in 1..Len(H) /\ H # <<>> /\ Last(H) = H[Len(H)]
      BY <2>2 DEF Last
    <3>3. H[Len(H)] < x
      BY <1>1, <1>3, <1>5, <2>2, <3>2
    <3>4. CASE i = Len(H)
      BY <3>3, <3>4
    <3>5. CASE i < Len(H)
      <4>1. H[i] < H[Len(H)]
        BY <2>2, <3>2, <3>5 DEF Rising
      <4> QED BY <1>1, <1>3, <2>2, <3>2, <3>3, <4>1
    <3>6. i \in Nat /\ Len(H) \in Nat /\ i <= Len(H)
      BY ONLY i \in 1..Len(H), <2>2
    <3> QED BY ONLY <3>4, <3>5, <3>6
  <2>6. Rising(G)
    <3>1. SUFFICES ASSUME NEW i \in DOMAIN G, NEW j \in DOMAIN G, i < j
                   PROVE  G[i] < G[j]
      BY DEF Rising
    <3>2. i \in 1..Len(H)
      BY <2>2, <3>1
    <3>3. CASE j \in 1..Len(H)
      BY <2>2, <3>1, <3>2, <3>3 DEF Rising
    <3>4. CASE j = Len(H) + 1
      BY <2>2, <2>5, <3>2, <3>4
    <3> QED BY <2>2, <2>3, <3>3, <3>4
  <2> QED BY <2>2, <2>4, <2>6
<1> QED BY <1>4, <1>5

(* The totals, the months and the headings after a reported change.        *)
TotalsAfter(U, T, c) ==
  /\ U \in [Roles -> Counted]
  /\ U[c.role] = RecordOf(T[c.role], c)
  /\ \A r \in Roles : r # c.role => U[r] = T[r]

MonthsAfter(N, M, c) ==
  /\ DiffersAt(MonthKey(c), M, N)
  /\ N[MonthKey(c)] = RecordOf(Entry(M, MonthKey(c)), c)

HeadersAfter(H, c) ==
  IF H # <<>> /\ Last(H) = c.commit THEN H ELSE Append(H, c.commit)

(* What a reported change does to a report keeps all that is said of it.   *)
LEMMA LoudStep ==
  ASSUME NEW s \in Seq(ChangeType), NEW n \in Nat, n < Len(s), Ordered(s),
         NEW T, NEW M, NEW H \in Seq(Commits), ReportType(T, M), Summed(T, M), Rising(H),
         Replayed(s, n, T, M, H), NEW c, c = s[n + 1], Told(c),
         NEW U, TotalsAfter(U, T, c), NEW N, MonthsAfter(N, M, c),
         NEW G, G = HeadersAfter(H, c)
  PROVE  /\ ReportType(U, N)
         /\ Summed(U, N)
         /\ G \in Seq(Commits)
         /\ Rising(G)
         /\ Replayed(s, n + 1, U, N, G)
<1> USE DEF TotalsAfter, MonthsAfter, HeadersAfter
<1> DEFINE t == Entry(M, MonthKey(c))
<1>1. c \in ChangeType
  OBVIOUS
<1>2. c.role \in Roles /\ c.commit \in Commits
  BY <1>1, SidesOf, CommitIsNumber
<1>3. T \in [Roles -> Counted] /\ DOMAIN M \subseteq Keys /\ \A k \in DOMAIN M : M[k] \in Counted
  BY DEF ReportType
<1>4. /\ Accounts(s, n, T) /\ Latest(s, n, T) /\ Monthly(s, n, T, M) /\ Headings(s, n, H)
  BY DEF Replayed
<1>5. MonthKey(c) \in Keys
  BY <1>2 DEF MonthKey, Keys
<1>6. t \in Counted
  <2>1. Zero \in Counted
    BY DEF Zero, Counted
  <2> QED BY <1>3, <2>1 DEF Entry
<1>7. DOMAIN N = DOMAIN M \cup {MonthKey(c)} /\ \A k \in DOMAIN M : k # MonthKey(c) => N[k] = M[k]
  BY DEF DiffersAt
<1>8. N[MonthKey(c)] \in Counted /\ N[MonthKey(c)].lastCommit = <<c.commit>>
  <2>1. RecordOf(t, c) \in Counted /\ RecordOf(t, c).lastCommit = <<c.commit>>
    BY ONLY <1>1, <1>6, RecordType
  <2> QED BY ONLY <2>1, N[MonthKey(c)] = RecordOf(t, c)
<1>9. U[c.role].lastCommit = <<c.commit>>
  <2>1. T[c.role] \in Counted
    BY <1>2, <1>3
  <2> QED BY <1>1, <2>1, RecordType
<1>10. ReportType(U, N)
  <2>1. DOMAIN N \subseteq Keys
    BY <1>3, <1>5, <1>7
  <2>2. ASSUME NEW k \in DOMAIN N PROVE N[k] \in Counted
    BY <1>3, <1>7, <1>8
  <2> QED BY <2>1, <2>2 DEF ReportType
<1>11. T[c.role].lastCommit = <<c.commit>> <=> t.lastCommit = <<c.commit>>
  <2>1. s \in Seq(ChangeType) /\ n \in Nat /\ n < Len(s) /\ Ordered(s) /\ c = s[n + 1]
    OBVIOUS
  <2>2. T \in [Roles -> Counted] /\ Latest(s, n, T) /\ Monthly(s, n, T, M)
    BY <1>3, <1>4
  <2>3. LastIs(T[c.role], c) <=> LastIs(Entry(M, MonthKey(c)), c)
    BY ONLY <2>1, <2>2, MonthTells
  <2> QED BY ONLY <2>3, t = Entry(M, MonthKey(c)) DEF LastIs
<1>12. Summed(U, N)
  <2>1. /\ t = Entry(M, MonthKey(c))
        /\ U[c.role] = RecordOf(T[c.role], c)
        /\ \A r \in Roles : r # c.role => U[r] = T[r]
        /\ N[MonthKey(c)] = RecordOf(t, c)
    OBVIOUS
  <2>2. /\ T \in [Roles -> Counted] /\ U \in [Roles -> Counted]
        /\ Summed(T, M) /\ DiffersAt(MonthKey(c), M, N)
    BY <1>3
  <2> QED BY ONLY <1>1, <1>6, <1>11, <2>1, <2>2, SummedNext
<1>13. G \in Seq(Commits) /\ Headings(s, n + 1, G) /\ Rising(G)
  BY <1>4, HeadingsNext
<1>14. Accounts(s, n + 1, U)
  BY <1>3, <1>4, AccountsNext
<1>15. Latest(s, n + 1, U)
  BY <1>3, <1>4, <1>9, LatestNext
<1>16. Monthly(s, n + 1, U, N)
  BY <1>3, <1>4, <1>7, <1>8, <1>9, MonthlyNext
<1> QED BY <1>10, <1>12, <1>13, <1>14, <1>15, <1>16 DEF Replayed

-----------------------------------------------------------------------------
(* The invariant                                                           *)

(* Nothing reported yet is a complete report of no change.                 *)
LEMMA BlankReport ==
  ASSUME NEW T, NEW M, NEW H, NEW s, T \in [Roles -> Counted], Blank(T, M, H)
  PROVE  Replayed(s, 0, T, M, H)
<1>1. \A role \in Roles : T[role] = Zero
  BY DEF Blank
<1>2. \A role : /\ Reports(s, role, 0) = {}
               /\ Heads(s, role, 0) = {}
               /\ \A column : InColumn(s, role, 0, column) = {}
  <2>1. 1..0 = {}
    OBVIOUS
  <2> QED BY <2>1 DEF Reports, Heads, InColumn
<1>3. /\ Zero.commits = 0 /\ Zero.incomplete = 0 /\ Zero.additions = 0
      /\ Zero.deletions = 0 /\ Zero.expressions = 0 /\ Zero.lastCommit = <<>>
  BY DEF Zero
<1>4. Accounts(s, 0, T)
  BY <1>1, <1>2, <1>3, FS_EmptySet DEF Accounts
<1>5. Latest(s, 0, T)
  BY <1>1, <1>2, <1>3 DEF Latest
<1>6. Monthly(s, 0, T, M)
  <2>1. DOMAIN M = {}
    BY DEF Blank
  <2>2. \A x : <<x>> # <<>>
    OBVIOUS
  <2> QED BY <1>1, <1>3, <2>1, <2>2 DEF Monthly
<1>7. Headings(s, 0, H)
  BY DEF Blank, Headings
<1> QED BY <1>4, <1>5, <1>6, <1>7 DEF Replayed

(* The invariant holds at the start.                                       *)
LEMMA InitInv ==
  ASSUME Init
  PROVE  Inv
<1>1. history \in Seq(ChangeType)
  <2>1. PICK S \in {[1..n -> ChangeType] : n \in 0..MaxChanges} : history \in S
    BY DEF Init
  <2>2. PICK n \in 0..MaxChanges : S = [1..n -> ChangeType]
    BY <2>1
  <2>3. n \in Nat
    BY LogAssumption
  <2> QED BY <2>1, <2>2, <2>3
<1>2. /\ phase = "walk" /\ at = 0 /\ spool = <<>> /\ spoolErr = FALSE /\ legal = {}
      /\ DOMAIN index = {} /\ headers = <<>> /\ DOMAIN months = {}
      /\ DOMAIN totals = Roles /\ \A role \in Roles : totals[role] = Zero
      /\ totals = [role \in Roles |-> Zero]
      /\ InOrder(history)
  BY DEF Init
<1>3. Len(spool) = 0 /\ spool \in Seq(ChangeType) /\ headers \in Seq(Commits)
  BY <1>2
<1>4. TypeOK
  <2>1. index \in [DOMAIN index -> Results]
    BY DEF Init
  <2>2. at \in 0..Len(IF phase \in {"scan", "replay", "ok"} THEN spool ELSE history)
    BY <1>1, <1>2
  <2> QED BY <1>1, <1>2, <1>3, <2>1, <2>2 DEF TypeOK
<1>5. Zero \in Counted
  BY DEF Zero, Counted
<1>6. ReportType(totals, months)
  BY <1>2, <1>5 DEF ReportType
<1>7. Summed(totals, months)
  <2>1. \A role, column : Tallies(months, role, column) = {}
    BY <1>2 DEF Tallies
  <2>2. \A column \in Columns : Zero[column] = 0
    BY DEF Columns, Zero
  <2> QED BY <1>2, <2>1, <2>2, FS_EmptySet DEF Summed
<1>8. Copied(spool, history, at)
  BY <1>2, CopyOfNothing
<1>9. Blank(totals, months, headers) /\ Rising(headers)
  BY <1>2 DEF Blank, Rising
<1>10. Ordered(history)
  BY <1>1, <1>2, OrderedThroughout
<1> QED BY <1>1, <1>2, <1>3, <1>4, <1>6, <1>7, <1>8, <1>9, <1>10 DEF Inv

(* A step of the walk copies one change, or the spool has failed.          *)
LEMMA WalkOneInv ==
  ASSUME Inv, NEW writeFails \in BOOLEAN, WalkOne(writeFails)
  PROVE  Inv'
<1> DEFINE c == history[at + 1]
           writes == c.commit \notin Merges /\ ~spoolErr
<1>1. /\ phase = "walk" /\ at < Len(history) /\ at' = at + 1
      /\ legal' = legal \cup LegalSides(c)
      /\ spool' = IF writes /\ ~writeFails THEN Append(spool, c) ELSE spool
      /\ spoolErr' = (spoolErr \/ (writes /\ writeFails))
      /\ history' = history /\ phase' = phase /\ index' = index
      /\ totals' = totals /\ months' = months /\ headers' = headers
  BY DEF WalkOne, reportVars
<1>2. /\ history \in Seq(ChangeType) /\ spool \in Seq(ChangeType) /\ at \in 0..Len(history)
      /\ spoolErr \in BOOLEAN /\ legal \subseteq Objects
      /\ Len(spool) <= at
  BY <1>1 DEF Inv, TypeOK
<1>3. c \in ChangeType /\ at \in Nat /\ Len(spool) \in Nat
  BY <1>1, <1>2
<1>4. spool' \in Seq(ChangeType) /\ Len(spool') <= at'
  BY <1>1, <1>2, <1>3
<1>5. at' \in 0..Len(history) /\ Len(spool') <= Len(history)
  <2>1. Len(spool') \in Nat
    BY <1>4
  <2> QED BY <1>1, <1>2, <1>3, <1>4, <2>1
<1>6. spoolErr' \in BOOLEAN
  BY <1>1
<1>7. legal' \subseteq Objects
  <2>1. LegalSides(c) \subseteq Objects
    <3>1. c.sides[1] \in Sides /\ c.sides[2] \in Sides
      BY <1>3, SidesOf
    <3>2. \A side \in Sides : side.kind = "file" => side.object \in Objects
      BY DEF Sides
    <3> HIDE DEF c
    <3> QED BY <3>1, <3>2 DEF LegalSides
  <2> QED BY <1>1, <1>2, <2>1
<1>8. TypeOK'
  BY <1>1, <1>4, <1>5, <1>6, <1>7 DEF Inv, TypeOK
<1>9. ~spoolErr' => Copied(spool', history, at + 1)
  <2>1. CASE spoolErr'
    BY <2>1
  <2>2. CASE ~spoolErr'
    <3>1. ~spoolErr /\ (c.commit \notin Merges => ~writeFails)
      BY <1>1, <2>2
    <3>2. Copied(spool, history, at)
      BY <1>1, <3>1 DEF Inv
    <3>3. CASE c.commit \in Merges
      <4>1. spool' = spool
        BY <1>1, <3>3
      <4> QED BY <1>3, <3>2, <3>3, <4>1, CopyPassesOver
    <3>4. CASE c.commit \notin Merges
      <4>1. spool' = Append(spool, c)
        BY <1>1, <3>1, <3>4
      <4> QED BY <1>2, <1>3, <3>2, <3>4, <4>1, CopyGrows
    <3> QED BY <3>3, <3>4
  <2> QED BY <2>1, <2>2
<1>10. /\ Ordered(history) /\ ReportType(totals, months) /\ Summed(totals, months)
       /\ Rising(headers) /\ Blank(totals, months, headers)
  BY <1>1 DEF Inv
<1> QED BY <1>1, <1>4, <1>5, <1>8, <1>9, <1>10 DEF Inv

(* With the walk completed the spool is a copy of the whole history.       *)
LEMMA WalkEndInv ==
  ASSUME Inv, WalkEnd
  PROVE  Inv'
<1>1. /\ phase = "walk" /\ at = Len(history) /\ at' = 0
      /\ phase' = IF spoolErr THEN "failed" ELSE "scan"
      /\ history' = history /\ spool' = spool /\ spoolErr' = spoolErr /\ legal' = legal
      /\ index' = index /\ totals' = totals /\ months' = months /\ headers' = headers
  BY DEF WalkEnd, walkVars, reportVars
<1>2. TypeOK'
  <2>1. history \in Seq(ChangeType) /\ spool \in Seq(ChangeType)
    BY DEF Inv, TypeOK
  <2>2. 0 \in 0..Len(history) /\ 0 \in 0..Len(spool)
    BY <2>1
  <2> QED BY <1>1, <2>2 DEF Inv, TypeOK
<1>3. ~spoolErr => Copied(spool, history, Len(history))
  BY <1>1 DEF Inv
<1>4. /\ Ordered(history) /\ ReportType(totals, months) /\ Summed(totals, months)
      /\ Rising(headers) /\ Blank(totals, months, headers) /\ Len(spool) <= Len(history)
  BY <1>1 DEF Inv
<1> QED BY <1>1, <1>2, <1>3, <1>4 DEF Inv

(* The scan leaves an index of every result that is not empty.             *)
LEMMA ScanInv ==
  ASSUME Inv, Scan
  PROVE  Inv'
<1>1. /\ phase = "scan" /\ phase' = "replay" /\ at = 0 /\ at' = at
      /\ index' = [o \in {o \in Objects : Holds[o] \notin {Missing, Empty}} |-> Holds[o]]
      /\ history' = history /\ spool' = spool /\ spoolErr' = spoolErr /\ legal' = legal
      /\ totals' = totals /\ months' = months /\ headers' = headers
  BY DEF Scan, walkVars, reportVars, Inv
<1>2. Examined(index')
  BY <1>1 DEF Examined
<1>3. index' \in [DOMAIN index' -> Results]
  <2>1. \A o \in Objects : Holds[o] \in Results \cup {Missing}
    BY LogAssumption
  <2> HIDE DEF Results
  <2> QED BY <1>1, <2>1
<1>4. TypeOK'
  BY <1>1, <1>3 DEF Inv, TypeOK
<1>5. /\ Ordered(history) /\ ReportType(totals, months) /\ Summed(totals, months)
      /\ Rising(headers) /\ Blank(totals, months, headers) /\ Len(spool) <= Len(history)
      /\ Copied(spool, history, Len(history))
  BY <1>1 DEF Inv
<1>6. Replayed(spool, at, totals, months, headers)
  BY <1>1, <1>5, BlankReport DEF ReportType
<1> QED BY <1>1, <1>2, <1>4, <1>5, <1>6 DEF Inv

(* A change that is replayed is added to the report, if it is to be told.  *)
LEMMA ReplayOneInv ==
  ASSUME Inv, ReplayOne
  PROVE  Inv'
<1>1. /\ phase = "replay" /\ at < Len(spool) /\ at' = at + 1
      /\ history' = history /\ spool' = spool /\ spoolErr' = spoolErr /\ legal' = legal
      /\ phase' = phase /\ index' = index
  BY DEF ReplayOne, walkVars
<1>2. /\ history \in Seq(ChangeType) /\ spool \in Seq(ChangeType) /\ at \in 0..Len(spool)
      /\ headers \in Seq(Commits)
  BY <1>1 DEF Inv, TypeOK
<1>3. /\ Ordered(history) /\ ReportType(totals, months) /\ Summed(totals, months)
      /\ Rising(headers) /\ Len(spool) <= Len(history)
      /\ Copied(spool, history, Len(history)) /\ Examined(index)
      /\ Replayed(spool, at, totals, months, headers)
  BY <1>1 DEF Inv
<1>4. Ordered(spool)
  BY <1>2, <1>3, CopyIsOrdered
<1>5. PICK n \in Nat : n = at
  BY <1>2
<1>6. PICK c \in ChangeType : c = spool[n + 1]
  BY <1>1, <1>2, <1>5
<1>7. c.sides[1] \in Sides /\ c.sides[2] \in Sides /\ c.role \in Roles
  BY SidesOf
<1>8. Lookup(c.sides[1]) = Truth(c.sides[1]) /\ Lookup(c.sides[2]) = Truth(c.sides[2])
  BY <1>3, <1>7, LookupIsTruth
<1>9. IF Told(c)
      THEN /\ totals' = [totals EXCEPT ![c.role] = RecordOf(@, c)]
           /\ months' = [k \in DOMAIN months \cup {MonthKey(c)} |->
                           IF k = MonthKey(c) THEN RecordOf(Entry(months, MonthKey(c)), c)
                           ELSE months[k]]
           /\ headers' = IF headers # <<>> /\ Last(headers) = c.commit
                         THEN headers ELSE Append(headers, c.commit)
      ELSE totals' = totals /\ months' = months /\ headers' = headers
  BY <1>5, <1>6, <1>8 DEF ReplayOne, Told, RecordOf, Entry, Headed, reportVars
<1>10. /\ ReportType(totals', months') /\ Summed(totals', months') /\ Rising(headers')
       /\ headers' \in Seq(Commits)
       /\ Replayed(spool, n + 1, totals', months', headers')
  <2>1. CASE ~Told(c)
    <3>1. Replayed(spool, n + 1, totals, months, headers)
      BY <1>3, <1>5, <1>6, <2>1, QuietStep
    <3> QED BY <1>2, <1>3, <1>9, <2>1, <3>1
  <2>2. CASE Told(c)
    <3>1. PICK T \in [Roles -> Counted] : T = totals
      BY <1>3 DEF ReportType
    <3>2. RecordOf(T[c.role], c) \in Counted
      <4>1. T[c.role] \in Counted
        BY <1>7, <3>1
      <4> QED BY <4>1, RecordType
    <3>3. TotalsAfter(totals', T, c)
      BY <1>7, <1>9, <2>2, <3>1, <3>2 DEF TotalsAfter
    <3>4. MonthsAfter(months', months, c)
      BY <1>9, <2>2 DEF MonthsAfter, DiffersAt
    <3>5. headers' = HeadersAfter(headers, c)
      BY <1>9, <2>2 DEF HeadersAfter
    <3>6. PICK M, N, U, G :
            M = months /\ N = months' /\ U = totals' /\ G = headers'
      OBVIOUS
    <3>7. PICK H \in Seq(Commits) : H = headers
      BY <1>2
    <3>8. PICK s \in Seq(ChangeType) : s = spool
      BY <1>2
    <3>9. /\ ReportType(T, M) /\ Summed(T, M) /\ Rising(H)
          /\ Replayed(s, n, T, M, H)
          /\ TotalsAfter(U, T, c) /\ MonthsAfter(N, M, c) /\ G = HeadersAfter(H, c)
          /\ n < Len(s) /\ Ordered(s) /\ c = s[n + 1] /\ Told(c)
      BY <1>1, <1>3, <1>4, <1>5, <1>6, <2>2, <3>1, <3>3, <3>4, <3>5, <3>6, <3>7, <3>8
    <3>10. /\ ReportType(U, N) /\ Summed(U, N) /\ G \in Seq(Commits) /\ Rising(G)
           /\ Replayed(s, n + 1, U, N, G)
      BY ONLY <3>9, LoudStep, n \in Nat, s \in Seq(ChangeType), H \in Seq(Commits)
    <3> QED BY <3>6, <3>8, <3>10
  <2> QED BY <2>1, <2>2
<1>11. TypeOK'
  <2>1. at' \in 0..Len(spool)
    BY <1>1, <1>2
  <2>2. DOMAIN totals' = Roles /\ DOMAIN months' \subseteq Keys
    BY <1>10 DEF ReportType
  <2> QED BY <1>1, <1>10, <2>1, <2>2 DEF Inv, TypeOK, Keys
<1> QED BY <1>1, <1>3, <1>5, <1>10, <1>11 DEF Inv

(* The remaining steps only end a phase.                                   *)
LEMMA EndInv ==
  ASSUME Inv, ReplayEnd \/ Fails \/ Done \/ UNCHANGED vars
  PROVE  Inv'
<1>1. /\ history' = history /\ at' = at /\ spool' = spool /\ spoolErr' = spoolErr
      /\ legal' = legal /\ index' = index /\ totals' = totals /\ months' = months
      /\ headers' = headers
  BY DEF ReplayEnd, Fails, Done, vars, walkVars, reportVars
<1>2. CASE ReplayEnd
  <2>1. phase = "replay" /\ at = Len(spool) /\ phase' = "ok"
    BY <1>2 DEF ReplayEnd
  <2>2. TypeOK'
    BY <1>1, <2>1 DEF Inv, TypeOK
  <2> QED BY <1>1, <2>1, <2>2 DEF Inv
<1>3. CASE Fails
  <2>1. phase \in {"walk", "scan", "replay"} /\ phase' = "failed"
    BY <1>3 DEF Fails
  <2>2. at \in 0..Len(history)
    <3>1. history \in Seq(ChangeType) /\ spool \in Seq(ChangeType) /\ Len(spool) <= Len(history)
      BY DEF Inv, TypeOK
    <3>2. at \in 0..Len(history) \/ at \in 0..Len(spool)
      BY DEF Inv, TypeOK
    <3> QED BY <3>1, <3>2
  <2>3. TypeOK'
    BY <1>1, <2>1, <2>2 DEF Inv, TypeOK
  <2> QED BY <1>1, <2>1, <2>3 DEF Inv
<1>4. CASE Done \/ UNCHANGED vars
  <2>1. phase' = phase
    BY <1>4 DEF Done, vars
  <2>2. TypeOK'
    BY <1>1, <2>1 DEF Inv, TypeOK
  <2> QED BY <1>1, <2>1, <2>2 DEF Inv
<1> QED BY <1>2, <1>3, <1>4

(* The invariant is inductive.                                             *)
THEOREM Invariance == Spec => []Inv
<1>1. Init => Inv
  BY InitInv
<1>2. Inv /\ [Next]_vars => Inv'
  BY WalkOneInv, WalkEndInv, ScanInv, ReplayOneInv, EndInv DEF Next
<1> QED BY <1>1, <1>2, PTL DEF Spec

-----------------------------------------------------------------------------
(* What it gives                                                           *)

(* Types; the position in the history, then in the spool, is inside it:    *)
(* TypeOK.                                                                 *)
THEOREM TypeCorrect == Spec => []TypeOK
<1>1. Inv => TypeOK
  BY DEF Inv
<1> QED BY <1>1, Invariance, PTL

(* Every column of the monthly table adds up to the totals, at every step  *)
(* of the replay: MonthsAddUp.                                             *)
THEOREM MonthsAgree == Spec => []MonthsAddUp
<1>1. Inv => MonthsAddUp
  BY DEF Inv, Summed, MonthsAddUp
<1> QED BY <1>1, Invariance, PTL

(* No commit has two headings, though only the last one printed is         *)
(* remembered: HeadersOnce.                                                *)
THEOREM OneHeading == Spec => []HeadersOnce
<1>1. ASSUME Inv PROVE HeadersOnce
  <2>1. headers \in Seq(Commits) /\ Rising(headers) /\ Commits \subseteq Nat
    BY <1>1, LogAssumption DEF Inv, TypeOK
  <2>2. SUFFICES ASSUME NEW i \in DOMAIN headers, NEW j \in DOMAIN headers,
                        headers[i] = headers[j], i # j
                 PROVE  FALSE
    BY DEF HeadersOnce
  <2>3. i \in 1..Len(headers) /\ j \in 1..Len(headers)
    BY <2>1
  <2>4. headers[i] \in Nat /\ headers[j] \in Nat
    <3>1. headers[i] \in Commits /\ headers[j] \in Commits
      BY <2>1, <2>3
    <3> QED BY <2>1, <3>1
  <2>5. i < j \/ j < i
    BY <2>2, <2>3
  <2>6. headers[i] < headers[j] \/ headers[j] < headers[i]
    BY <2>1, <2>5 DEF Rising
  <2> QED BY <2>2, <2>4, <2>6
<1> QED BY <1>1, Invariance, PTL

(* A change that is told of has the column that the two sides give it; one *)
(* with nothing on either side is not told of.                             *)
LEMMA ColumnsOfTold ==
  ASSUME NEW c \in ChangeType, Told(c)
  PROVE  LET before == Truth(c.sides[1])
             after == Truth(c.sides[2])
             known == ~Incomplete(before, after) IN
         /\ ColumnOf(c) = "incomplete" <=> ~known
         /\ ColumnOf(c) = "additions" <=> known /\ c.sides[1].kind = "none"
         /\ ColumnOf(c) = "deletions" <=> known /\ c.sides[2].kind = "none"
         /\ ColumnOf(c) = "expressions" <=>
              /\ known
              /\ c.sides[1].kind # "none"
              /\ c.sides[2].kind # "none"
              /\ before.expressions # after.expressions
<1>1. ~(c.sides[1].kind = "none" /\ c.sides[2].kind = "none")
  <2>1. SUFFICES ASSUME c.sides[1].kind = "none", c.sides[2].kind = "none"
                 PROVE  FALSE
    OBVIOUS
  <2>2. Truth(c.sides[1]) = Empty /\ Truth(c.sides[2]) = Empty
    BY <2>1 DEF Truth
  <2>3. ~Incomplete(Empty, Empty)
    BY DEF Incomplete, Empty
  <2> QED BY <2>2, <2>3 DEF Told, Reported
<1>2. CASE Incomplete(Truth(c.sides[1]), Truth(c.sides[2]))
  BY <1>2 DEF ColumnOf, Column
<1>3. CASE ~Incomplete(Truth(c.sides[1]), Truth(c.sides[2]))
  BY <1>1, <1>3 DEF ColumnOf, Column
<1> QED BY <1>2, <1>3

(* A column of a group has as many changes in the spool as in the history. *)
LEMMA SameColumn ==
  ASSUME NEW s \in Seq(ChangeType), NEW h \in Seq(ChangeType), NEW f,
         IsCopy(f, s, h, Len(h)), NEW role, NEW column,
         NEW B, \A i : i \in B <=> /\ i \in Kept(h, Len(h))
                                   /\ h[i].role = role
                                   /\ Told(h[i])
                                   /\ ColumnOf(h[i]) = column
  PROVE  Cardinality(InColumn(s, role, Len(s), column)) = Cardinality(B)
<1> DEFINE A == InColumn(s, role, Len(s), column)
<1>1. \A j : j \in A <=> /\ j \in 1..Len(s)
                         /\ s[j].role = role
                         /\ Told(s[j])
                         /\ ColumnOf(s[j]) = column
  BY DEF InColumn, Reports
<1>2. \A j \in 1..Len(s) : f[j] \in Kept(h, Len(h)) /\ s[j] = h[f[j]]
  BY DEF IsCopy
<1> HIDE DEF A
<1>3. \A j \in 1..Len(s) : j \in A <=> f[j] \in B
  BY <1>1, <1>2
<1>4. A \in SUBSET (1..Len(s)) /\ B \in SUBSET Kept(h, Len(h))
  BY <1>1
<1>5. Cardinality(A) = Cardinality(B)
  BY <1>3, <1>4, CopyCounts
<1> QED BY <1>5 DEF A

(* A report that is printed covers the whole history: ReportIsComplete.    *)
THEOREM CompleteReport == Spec => []ReportIsComplete
<1>1. ASSUME Inv PROVE ReportIsComplete
  <2>1. SUFFICES ASSUME phase = "ok", NEW role \in Roles
                 PROVE  LET I == ToReport(role)
                            Before(i) == Truth(history[i].sides[1])
                            After(i) == Truth(history[i].sides[2])
                            unknown == {i \in I : Incomplete(Before(i), After(i))}
                            added == {i \in I \ unknown : history[i].sides[1].kind = "none"}
                            deleted == {i \in I \ unknown : history[i].sides[2].kind = "none"}
                            t == totals[role] IN
                        /\ t.commits = Cardinality({history[i].commit : i \in I})
                        /\ t.incomplete = Cardinality(unknown)
                        /\ t.additions = Cardinality(added)
                        /\ t.deletions = Cardinality(deleted)
                        /\ t.expressions =
                             Cardinality({i \in I \ (unknown \cup added \cup deleted) :
                                            Before(i).expressions # After(i).expressions})
    BY DEF ReportIsComplete
  <2> DEFINE I == ToReport(role)
             Before(i) == Truth(history[i].sides[1])
             After(i) == Truth(history[i].sides[2])
             unknown == {i \in I : Incomplete(Before(i), After(i))}
             added == {i \in I \ unknown : history[i].sides[1].kind = "none"}
             deleted == {i \in I \ unknown : history[i].sides[2].kind = "none"}
             changed == {i \in I \ (unknown \cup added \cup deleted) :
                           Before(i).expressions # After(i).expressions}
             n == Len(spool)
  <2>2. history \in Seq(ChangeType) /\ spool \in Seq(ChangeType) /\ at = n
    BY <1>1, <2>1 DEF Inv, TypeOK
  <2>3. PICK f : IsCopy(f, spool, history, Len(history))
    BY <1>1, <2>1 DEF Inv, Copied
  <2>4. \A i : i \in I <=> /\ i \in Kept(history, Len(history))
                           /\ history[i].role = role
                           /\ Told(history[i])
    BY <2>2 DEF ToReport, Told, Kept
  <2>5. \A i \in I : history[i] \in ChangeType /\ Told(history[i])
    BY <2>2, <2>4 DEF Kept
  <2>6. \A i : i \in unknown <=> i \in I /\ ColumnOf(history[i]) = "incomplete"
    BY <2>5, ColumnsOfTold
  <2>7. \A i : i \in added <=> i \in I /\ ColumnOf(history[i]) = "additions"
    BY <2>5, ColumnsOfTold
  <2>8. \A i : i \in deleted <=> i \in I /\ ColumnOf(history[i]) = "deletions"
    BY <2>5, ColumnsOfTold
  <2>9. \A i : i \in changed <=> i \in I /\ ColumnOf(history[i]) = "expressions"
    BY <2>5, ColumnsOfTold
  <2>10. Heads(spool, role, n) = {history[i].commit : i \in I}
    <3>1. \A j \in 1..n : f[j] \in Kept(history, Len(history)) /\ spool[j] = history[f[j]]
      BY <2>3 DEF IsCopy
    <3>2. \A i \in Kept(history, Len(history)) : \E j \in 1..n : f[j] = i
      BY <2>3 DEF IsCopy
    <3>3. \A j : j \in Reports(spool, role, n)
                   <=> j \in 1..n /\ spool[j].role = role /\ Told(spool[j])
      BY DEF Reports
    <3> HIDE DEF I, n
    <3> QED BY <2>4, <3>1, <3>2, <3>3 DEF Heads
  <2>11. Accounts(spool, n, totals)
    BY <1>1, <2>1, <2>2 DEF Inv, Replayed
  <2> HIDE DEF I, unknown, added, deleted, changed
  <2>12. Cardinality(InColumn(spool, role, n, "incomplete")) = Cardinality(unknown)
    BY <2>2, <2>3, <2>4, <2>6, SameColumn
  <2>13. Cardinality(InColumn(spool, role, n, "additions")) = Cardinality(added)
    BY <2>2, <2>3, <2>4, <2>7, SameColumn
  <2>14. Cardinality(InColumn(spool, role, n, "deletions")) = Cardinality(deleted)
    BY <2>2, <2>3, <2>4, <2>8, SameColumn
  <2>15. Cardinality(InColumn(spool, role, n, "expressions")) = Cardinality(changed)
    BY <2>2, <2>3, <2>4, <2>9, SameColumn
  <2>16. /\ totals[role].commits = Cardinality({history[i].commit : i \in I})
         /\ totals[role].incomplete = Cardinality(unknown)
         /\ totals[role].additions = Cardinality(added)
         /\ totals[role].deletions = Cardinality(deleted)
         /\ totals[role].expressions = Cardinality(changed)
    BY <2>10, <2>11, <2>12, <2>13, <2>14, <2>15 DEF Accounts
  <2> QED BY <2>16 DEF I, unknown, added, deleted, changed
<1> QED BY <1>1, Invariance, PTL
=============================================================================
