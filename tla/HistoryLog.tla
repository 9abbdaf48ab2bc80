----------------------------- MODULE HistoryLog -----------------------------
(***************************************************************************)
(* The log command, logCmd of history.go with the spool of                 *)
(* history_spool.go: one walk of the history writes the changes to a       *)
(* temporary file and collects the legal blobs, a scan of the blobs        *)
(* follows, and the changes are read back and compared against the index.  *)
(* Between the two passes the history is only what the spool holds.        *)
(*                                                                         *)
(* The walk is that of module HistoryWalk, the scan that of module         *)
(* BlobScan: here each is a step that succeeds or fails.                   *)
(***************************************************************************)
EXTENDS Naturals, Sequences, FiniteSets, FiniteSetsExt, SequencesExt

CONSTANTS
  Commits,     (* Commits, numbered in the order of the walk.              *)
  Merges,      (* Those with several parents.                              *)
  Month,       (* The month of each commit's author date.                  *)
  Objects,     (* Objects that changes may name.                           *)
  Holds,       (* What the matcher says of each; Missing if not stored.    *)
  Missing,
  Pairs,       (* Pairs of sides that changes may have.                    *)
  MaxChanges,  (* Bound on the length of the history.                      *)
  Group        (* --group                                                  *)

Roles == {"root", "legal", "other"}

Empty == [expressions |-> <<>>, skipped |-> "not", spdx |-> FALSE]

Results ==
  [expressions: Seq(STRING), skipped: {"not", "size", "binary", "error"}, spdx: BOOLEAN]

(* One side of a change: its mode, and the object unless the mode is that  *)
(* of nothing at all (000000).                                             *)
Sides ==
  [kind: {"file", "link", "module"}, object: Objects] \cup [kind: {"none"}]

ASSUME LogAssumption ==
  /\ Commits \subseteq Nat
  /\ Merges \subseteq Commits
  /\ DOMAIN Month = Commits
  /\ Missing \notin Results
  /\ Holds \in [Objects -> Results \cup {Missing}]
  /\ Pairs \subseteq Sides \X Sides
  /\ MaxChanges \in Nat
  /\ Group \in Roles \cup {"all"}

ChangeType == [commit: Commits, role: Roles, sides: Pairs]

VARIABLES
  history,     (* What the walk visits; fixed for the run.                 *)
  phase,       (* "walk", "scan", "replay", "ok" or "failed".              *)
  at,          (* Changes walked, or replayed.                             *)
  spool,       (* What the spool holds.                                    *)
  spoolErr,    (* historySpool.err # nil                                   *)
  legal,       (* The legal blobs the walk collected.                      *)
  index,       (* The index of the scan.                                   *)
  totals,      (* historyTotals of each role.                              *)
  months,      (* historyTotals of each month and role met.                *)
  headers      (* Commit headings printed by --details.                    *)

walkVars == <<spool, spoolErr, legal>>
reportVars == <<totals, months, headers>>
vars == <<history, phase, at, walkVars, index, reportVars>>

Zero ==
  [commits |-> 0, expressions |-> 0, additions |-> 0, deletions |-> 0, incomplete |-> 0,
   spdxAdded |-> 0, spdxRemoved |-> 0, lastCommit |-> <<>>]

(* Commits are visited in order, the changes of each in one run.           *)
InOrder(s) == \A i \in 1..(Len(s) - 1) : s[i].commit <= s[i + 1].commit

Init ==
  /\ history \in UNION {[1..n -> ChangeType] : n \in 0..MaxChanges}
  /\ InOrder(history)
  /\ phase = "walk"
  /\ at = 0
  /\ spool = <<>>
  /\ spoolErr = FALSE
  /\ legal = {}
  /\ index = [o \in {} |-> Empty]
  /\ totals = [r \in Roles |-> Zero]
  /\ months = [k \in {} |-> Zero]
  /\ headers = <<>>

-----------------------------------------------------------------------------
(* spoolLogHistory                                                         *)

(* recordLegalChange: the regular files on either side of a legal path.    *)
LegalSides(c) ==
  IF c.role = "other" THEN {}
  ELSE {c.sides[i].object : i \in {i \in 1..2 : c.sides[i].kind = "file"}}

(* historySpool.write: once a write has failed, nothing is written.        *)
WalkOne(writeFails) ==
  LET c == history[at + 1]
      writes == c.commit \notin Merges /\ ~spoolErr IN
  /\ phase = "walk"
  /\ at < Len(history)
  /\ at' = at + 1
  /\ legal' = legal \cup LegalSides(c)
  /\ spool' = IF writes /\ ~writeFails THEN Append(spool, c) ELSE spool
  /\ spoolErr' = (spoolErr \/ (writes /\ writeFails))
  /\ UNCHANGED <<history, phase, index, reportVars>>

(* Mutant of WalkEnd: the spool is used although a write failed.           *)
WalkEndRegardless ==
  /\ phase = "walk"
  /\ at = Len(history)
  /\ phase' = "scan"
  /\ at' = 0
  /\ UNCHANGED <<history, walkVars, index, reportVars>>

(* Mutant of WalkEnd: the file is not rewound.                             *)
WalkEndNoSeek ==
  /\ phase = "walk"
  /\ at = Len(history)
  /\ phase' = IF spoolErr THEN "failed" ELSE "scan"
  /\ UNCHANGED <<history, at, walkVars, index, reportVars>>

(* historySpool.ready: an earlier error comes up here.                     *)
WalkEnd ==
  /\ phase = "walk"
  /\ at = Len(history)
  /\ phase' = IF spoolErr THEN "failed" ELSE "scan"
  /\ at' = 0
  /\ UNCHANGED <<history, walkVars, index, reportVars>>

(* The scan returns success: the index has every result that is not empty. *)
Scan ==
  /\ phase = "scan"
  /\ index' = [o \in {o \in Objects : Holds[o] \notin {Missing, Empty}} |-> Holds[o]]
  /\ phase' = "replay"
  /\ UNCHANGED <<history, at, walkVars, reportVars>>

(* The walk, the flush, the scan, the shallow test or the reading of the   *)
(* spool fails: log returns the error and removes the spool.               *)
Fails ==
  /\ phase \in {"walk", "scan", "replay"}
  /\ phase' = "failed"
  /\ UNCHANGED <<history, at, walkVars, index, reportVars>>

-----------------------------------------------------------------------------
(* historySpool.replay and the function it visits with                     *)

Lookup(side) ==
  IF side.kind # "none" /\ side.object \in DOMAIN index THEN index[side.object] ELSE Empty

Incomplete(before, after) == before.skipped # "not" \/ after.skipped # "not"

(* The column a comparison is counted in; what changed in nothing but a    *)
(* declaration has none.                                                   *)
Column(c, before, after) ==
  IF Incomplete(before, after) THEN "incomplete"
  ELSE IF c.sides[1].kind = "none" THEN "additions"
  ELSE IF c.sides[2].kind = "none" THEN "deletions"
  ELSE IF before.expressions # after.expressions THEN "expressions" ELSE "none"

One(fact) == IF fact THEN 1 ELSE 0

(* historyTotals.record                                                    *)
Record(t, c, before, after) ==
  LET column == Column(c, before, after)
      known == ~Incomplete(before, after) IN
  [commits     |-> t.commits + One(t.lastCommit # <<c.commit>>),
   expressions |-> t.expressions + One(column = "expressions"),
   additions   |-> t.additions + One(column = "additions"),
   deletions   |-> t.deletions + One(column = "deletions"),
   incomplete  |-> t.incomplete + One(column = "incomplete"),
   spdxAdded   |-> t.spdxAdded + One(known /\ ~before.spdx /\ after.spdx),
   spdxRemoved |-> t.spdxRemoved + One(known /\ before.spdx /\ ~after.spdx),
   lastCommit  |-> <<c.commit>>]

(* A change is reported if its group is wanted, it is not about a          *)
(* submodule, and the two results differ or one is not known.              *)
Reported(c, before, after) ==
  /\ Group \in {"all", c.role}
  /\ c.sides[1].kind # "module" /\ c.sides[2].kind # "module"
  /\ \/ Incomplete(before, after)
     \/ before.expressions # after.expressions
     \/ before.spdx # after.spdx

(* Mutant of MonthKey: the months of all groups together.                  *)
MonthOnly(c) == <<Month[c.commit], "root">>

MonthKey(c) == <<Month[c.commit], c.role>>

(* Mutant of Headed: headings are kept apart by group.                     *)
HeadedInGroup(c) == totals[c.role].lastCommit = <<c.commit>>

(* lastPrinted == c.commit                                                 *)
Headed(c) == headers # <<>> /\ Last(headers) = c.commit

ReplayOne ==
  LET c == spool[at + 1]
      before == Lookup(c.sides[1])
      after == Lookup(c.sides[2])
      key == MonthKey(c)
      sofar == IF key \in DOMAIN months THEN months[key] ELSE Zero IN
  /\ phase = "replay"
  /\ at < Len(spool)
  /\ at' = at + 1
  /\ IF Reported(c, before, after)
     THEN /\ totals' = [totals EXCEPT ![c.role] = Record(@, c, before, after)]
          /\ months' = [k \in DOMAIN months \cup {key} |->
                          IF k = key THEN Record(sofar, c, before, after) ELSE months[k]]
          /\ headers' = IF Headed(c)
                        THEN headers ELSE Append(headers, c.commit)
     ELSE UNCHANGED reportVars
  /\ UNCHANGED <<history, phase, walkVars, index>>

ReplayEnd ==
  /\ phase = "replay"
  /\ at = Len(spool)
  /\ phase' = "ok"
  /\ UNCHANGED <<history, at, walkVars, index, reportVars>>

Done ==
  /\ phase \in {"ok", "failed"}
  /\ UNCHANGED vars

Next ==
  \/ \E writeFails \in BOOLEAN : WalkOne(writeFails)
  \/ WalkEnd
  \/ Scan
  \/ ReplayOne
  \/ ReplayEnd
  \/ Fails
  \/ Done

Spec == Init /\ [][Next]_vars

-----------------------------------------------------------------------------
(* Types; the position in the history, then in the spool, is inside it.    *)
TypeOK ==
  /\ history \in Seq(ChangeType)
  /\ phase \in {"walk", "scan", "replay", "ok", "failed"}
  /\ spool \in Seq(ChangeType)
  /\ at \in 0..Len(IF phase \in {"scan", "replay", "ok"} THEN spool ELSE history)
  /\ spoolErr \in BOOLEAN
  /\ legal \subseteq Objects
  /\ index \in [DOMAIN index -> Results]
  /\ DOMAIN totals = Roles
  /\ DOMAIN months \subseteq {Month[c] : c \in Commits} \X Roles
  /\ headers \in Seq(Commits)

-----------------------------------------------------------------------------
(* What the report must say, from the history and the objects alone.       *)

Truth(side) ==
  IF side.kind = "none" \/ Holds[side.object] = Missing THEN Empty ELSE Holds[side.object]

ToReport(role) ==
  {i \in DOMAIN history :
     LET c == history[i] IN
     /\ c.role = role
     /\ c.commit \notin Merges
     /\ Reported(c, Truth(c.sides[1]), Truth(c.sides[2]))}

(* A report that is printed covers the whole history: no change is lost    *)
(* between the walk and the replay by a write that failed or a commit that *)
(* was interrupted, each reported change is in one column and each commit  *)
(* is counted once in its group, however many of its files changed.        *)
ReportIsComplete ==
  phase = "ok" => \A role \in Roles :
    LET I == ToReport(role)
        Before(i) == Truth(history[i].sides[1])
        After(i) == Truth(history[i].sides[2])
        unknown == {i \in I : Incomplete(Before(i), After(i))}
        added == {i \in I \ unknown : history[i].sides[1].kind = "none"}
        deleted == {i \in I \ unknown : history[i].sides[2].kind = "none"}
        t == totals[role] IN
    /\ t.commits = Cardinality({history[i].commit : i \in I})
    /\ t.incomplete = Cardinality(unknown)
    /\ t.additions = Cardinality(added)
    /\ t.deletions = Cardinality(deleted)
    /\ t.expressions = Cardinality({i \in I \ (unknown \cup added \cup deleted) :
                                     Before(i).expressions # After(i).expressions})

Columns ==
  {"commits", "expressions", "additions", "deletions", "incomplete", "spdxAdded",
   "spdxRemoved"}

(* What a table of months counts in a column for a group, one by one.      *)
Tallies(table, role, column) ==
  UNION {{k} \X (1..table[k][column]) : k \in {k \in DOMAIN table : k[2] = role}}

(* The monthly table and the totals are two views of the same changes:     *)
(* every column of a group adds up over its months, commits included.      *)
MonthsAddUp ==
  \A role \in Roles, column \in Columns :
    totals[role][column] = Cardinality(Tallies(months, role, column))

(* --details prints the heading of a commit once.                          *)
HeadersOnce == \A i, j \in DOMAIN headers : headers[i] = headers[j] => i = j

(* After a completed scan an object that the index lacks is one in which   *)
(* the matcher found nothing (the comment on index.put in main.go): a      *)
(* comparison never takes an object that was not examined for an empty     *)
(* one.                                                                    *)
AbsentMeansEmpty ==
  phase = "replay" =>
    \A i \in DOMAIN spool, s \in 1..2 :
      spool[i].sides[s].kind = "file" /\ spool[i].sides[s].object \notin DOMAIN index
        => Holds[spool[i].sides[s].object] = Empty
=============================================================================
