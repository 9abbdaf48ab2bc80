------------------------------- MODULE GitLog -------------------------------
(***************************************************************************)
(* walkChanges of history.go with the git backend: a git log child prints  *)
(* the raw history as fields that end in NUL, and readChanges takes them   *)
(* apart.  A commit has four fields, of which only the first is marked; a  *)
(* change has two, of which only the first is.  What a field means depends *)
(* on those before it, and the end of the output says nothing of how the   *)
(* child ended.                                                            *)
(***************************************************************************)
EXTENDS HistoryChanges, ChildProcess

CONSTANTS
  Log          (* The child.                                               *)

ASSUME GitLogAssumption == Children = {Log}

VARIABLES
  parser,      (* Program counter of walkChanges: the field it is to read. *)
  current,     (* c of readChanges.                                        *)
  readErr      (* readChanges returned an error.                           *)

parserVars == <<parser, current, readErr>>
logVars == <<childVars, parserVars>>

NoChange ==
  [commit |-> None, date |-> None, subject |-> None, path |-> None, old |-> Absent,
   new |-> Absent, merge |-> FALSE]

GitLogInit ==
  /\ ChildInit
  /\ parser = "start"
  /\ current = NoChange
  /\ readErr = FALSE

-----------------------------------------------------------------------------
(* What git log prints.  git itself leaves out merges and stops at the     *)
(* boundary, where commits have no parents.                                *)

Field(kind, value) == [kind |-> kind, value |-> value]

ChangeFields(c) == <<Field("raw", <<c.old, c.new>>), Field("path", c.path)>>

CommitFields(c) ==
  LET changes == ChangesOf(c) IN
  <<Field("commit", c), Field("date", c), Field("parents", Len(ParentsOf(c))),
    Field("subject", c)>>
  \o FlattenSeq([i \in DOMAIN changes |-> ChangeFields(changes[i])])

(* A field that is cut: its NUL is missing, and perhaps all but the line   *)
(* feed before a raw change.                                               *)
Cut(kind) == Field(kind, None)

LogStart ==
  /\ parser = "start"
  /\ \E order \in Orders :
       Start(Log, FlattenSeq([i \in DOMAIN order |-> CommitFields(order[i])]))
  /\ parser' = "field"
  /\ UNCHANGED <<historyVars, current, readErr>>

LogStartFails ==
  /\ Faults
  /\ parser = "start"
  /\ readErr' = TRUE
  /\ parser' = "returned"
  /\ UNCHANGED <<historyVars, childVars, current>>

-----------------------------------------------------------------------------
(* readChanges.                                                            *)

(* The kinds of the fields that the pipe holds.                            *)
Unread == [i \in DOMAIN pipe[Log] |-> pipe[Log][i].kind]

(* The next field, whole and read, is f.                                   *)
Reads(pc, f) ==
  /\ parser = pc
  /\ pipe[Log] # <<>>
  /\ f = Head(pipe[Log])
  /\ f.kind \notin {"cut", "blank"}
  /\ ReadFrom(Log)
  /\ UNCHANGED <<fixedVars, child, script, readErr>>

ReadCommit(f) ==
  /\ Reads("field", f)
  /\ f.kind = "commit"
  /\ current' = [current EXCEPT !.commit = f.value]
  /\ walked' = Append(walked, f.value)
  /\ parser' = "date"
  /\ UNCHANGED visitVars

ReadDate(f) ==
  /\ Reads("date", f)
  /\ current' = [current EXCEPT !.date = f.value]
  /\ parser' = "parents"
  /\ UNCHANGED <<walked, visitVars>>

(* Mutant of ReadParents: a merge is noted, anything else is not.          *)
ReadParentsSticky(f) ==
  /\ Reads("parents", f)
  /\ current' = [current EXCEPT !.merge = (@ \/ f.value > 1)]
  /\ parser' = "subject"
  /\ UNCHANGED <<walked, visitVars>>

ReadParents(f) ==
  /\ Reads("parents", f)
  /\ current' = [current EXCEPT !.merge = (f.value > 1)]
  /\ parser' = "subject"
  /\ UNCHANGED <<walked, visitVars>>

ReadSubject(f) ==
  /\ Reads("subject", f)
  /\ current' = [current EXCEPT !.subject = f.value]
  /\ parser' = "field"
  /\ UNCHANGED <<walked, visitVars>>

ReadRaw(f) ==
  /\ Reads("field", f)
  /\ f.kind = "raw"
  /\ current.commit # None
  /\ current' = [current EXCEPT !.old = f.value[1], !.new = f.value[2]]
  /\ parser' = "path"
  /\ UNCHANGED <<walked, visitVars>>

ReadPath(f) ==
  /\ Reads("path", f)
  /\ current' = [current EXCEPT !.path = f.value]
  /\ Visit(<<current'>>)
  /\ parser' = "field"
  /\ UNCHANGED walked

(* io.EOF with nothing but white space before it, where a commit or a      *)
(* change may begin.                                                       *)
ReadEnd ==
  /\ parser = "field"
  /\ Ended(Log)
  /\ Unread \in {<<>>, <<"blank">>}
  /\ parser' = "reap"
  /\ UNCHANGED <<historyVars, childVars, current, readErr>>

(* Mutant of StopLog: the child is left alone.                             *)
StopLogNoKill ==
  /\ readErr' = TRUE
  /\ parser' = "reap"
  /\ UNCHANGED <<historyVars, childVars, current>>

(* readChanges returns an error and the child is killed.                   *)
StopLog ==
  /\ readErr' = TRUE
  /\ Kill(Log)
  /\ parser' = "reap"
  /\ UNCHANGED <<historyVars, current>>

(* The output ends within a field, or where a field is due.                *)
ReadCut ==
  /\ parser \in {"field", "date", "parents", "subject", "path"}
  /\ Ended(Log)
  /\ Unread \in IF parser = "field" THEN {<<"cut">>} ELSE {<<>>, <<"cut">>, <<"blank">>}
  /\ StopLog

(* The pipe cannot be read.                                                *)
ReadFails ==
  /\ Faults
  /\ parser \in {"field", "date", "parents", "subject", "path"}
  /\ StopLog

(* Mutant of LogReap: the end of the output is taken for the end of the    *)
(* history.                                                                *)
LogReapUnchecked ==
  /\ parser = "reap"
  /\ Ended(Log)
  /\ parser' = "returned"
  /\ UNCHANGED <<historyVars, childVars, current, readErr>>

(* cmd.Wait; the error of either is that of the walk.                      *)
LogReap ==
  /\ parser = "reap"
  /\ Ended(Log)
  /\ parser' = "returned"
  /\ readErr' = (readErr \/ child[Log] = "died")
  /\ UNCHANGED <<historyVars, childVars, current>>

ParserStep ==
  \/ LogStart
  \/ \E f \in ToSet(pipe[Log]) :
       \/ ReadCommit(f)
       \/ ReadDate(f)
       \/ ReadParents(f)
       \/ ReadSubject(f)
       \/ ReadRaw(f)
       \/ ReadPath(f)
  \/ ReadEnd
  \/ ReadCut
  \/ LogReap

LogChildStep ==
  /\ Prints(Log) \/ Exit(Log)
  /\ UNCHANGED <<historyVars, parserVars>>

LogChildDies ==
  /\ Faults
  /\ \E part \in {<<>>, <<Cut("cut")>>, <<Cut("blank")>>} :
       /\ part = <<Cut("blank")>> => script[Log] # <<>> /\ Head(script[Log]).kind = "raw"
       /\ Die(Log, part)
  /\ UNCHANGED <<historyVars, parserVars>>

GitLogStep == ParserStep \/ LogChildStep
GitLogFault == LogStartFails \/ ReadFails \/ LogChildDies

GitLogTypeOK ==
  /\ child[Log] \in {"none", "running", "exited", "died"}
  /\ Len(pipe[Log]) <= PipeCap
  /\ parser \in {"start", "field", "date", "parents", "subject", "path", "reap", "returned"}
  /\ current \in [commit: Commits \cup {None}, date: Commits \cup {None},
                   subject: Commits \cup {None}, path: ToSet(Paths) \cup {None},
                   old: Side, new: Side, merge: BOOLEAN]
  /\ readErr \in BOOLEAN
=============================================================================
