# A verification of git-spdx in TLA+

git-spdx finds the licences in every blob of a git repository (`scan`) and
reports how they changed over its history (`log`). It does so with a handful of
goroutine pipelines over an object store read through git child processes or
through the go-git library. Most of what can go wrong in it is not in the
matching, which a library does, but in the pipelines: a goroutine that fails
while others wait for it, a blob dropped on the way to the matcher, results that
arrive in another order than they were asked for. These modules model the
pipelines, the conversations with the children and the parsers behind them; the
runs check them with TLC on small instances, and the proofs carry the most
important results of some of them to every size.

## 1. The system

### Components, their state and their operations

| Component | Source | State | Operations |
| --- | --- | --- | --- |
| Blob scan | `main.go` 179-265, 347-429, 586-600, 706-714 | `jobs` channel, matcher goroutines, `index` (blobs, skipped), `scanStats` | start the matchers, run a feeder, close `jobs`, wait, return; `index.put`, `get`, `lookup`; `skip` |
| Feeder, git backend | `main.go` 455-517, 602-643 | `blobs` and `errs` channels, context, one child that lists, one child per reader | list, filter by size, offer, read, send a job, fail, cancel |
| Feeder, gogit, several readers | `gogit_tuning.go` 66-257 | channel of batches, `once`/`readErr`, context | enumerate, fill and offer batches, read, send, fail, close |
| Feeder, gogit, one reader | `main.go` 526-584 | a batch and its weight | enumerate, read, add, flush |
| History walk, gogit, several workers | `gogit_history_stream.go` 106-322 | window of pending tasks, `tasks` channel, one result channel per task, tree cache | fill, send, diff, receive, visit, release; `load` and `release` of the cache |
| History walk, gogit, one worker | `gogit_history_stream.go` 186-200 | tree cache | the same in one loop |
| Legal blobs, gogit | `gogit_history_stream.go` 324-804 | stack of commits, batch of trees, `tasks` channel, claims, `legal`, `firstErr`, context | visit commit, enqueue, claim, descend, add, fail |
| Reading of tree objects | `gogit_history_stream.go` 345-347, 470-531, 629-707 | a pooled buffered reader and slices of it | read the mode, the name and the id of an entry; or take them from memory |
| Legal blobs, git | `history.go` 120-141 | `legal` | record the legal sides of each change |
| Log command | `history.go` 143-293 | index, totals per group, totals per month and group, last heading | spool, scan, replay, compare, record, print |
| Spool | `history_spool.go` | temporary file, buffered writer, sticky error | write, ready, replay, close |
| git log child and its parser | `history.go` 33-108 | position in the stream | read a commit header, read a change |
| Protocol with `cat-file --batch` | `main.go` 645-704 | position in the stream | ask, read the header, read or discard the body |
| Roots and commit order | `gogit_history.go` 16-104, `gogit_history_stream.go` 23-104 | queue of the library's iterator | resolve references, peel tags, hide the parents of shallow commits |
| Opening and tuning | `gogit_history.go` 116-153, `gogit_tuning.go` 38-64, `gogit_zlib.go` | none of its own | refuse what go-git does not support, set caches and pools |
| Command line and reports | `main.go` 46-177, 268-345, 728-767; `history.go` 229-239, 271-293 | options | parse, validate, print |

### How they interact

- `scan` finds the legal blobs, then runs a blob scan with them, then prints.
- `log` walks the history once, which fills the spool and the set of legal blobs,
  runs a blob scan with that set, and replays the spool against the index. The
  walk, the scan and the replay follow each other; each is concurrent inside.
- A feeder and the matchers share the `jobs` channel, the index and the counters.
  The feeder runs in the goroutine of the scan, and its return is the signal to
  close `jobs`.
- The lister and the readers of a feeder share a bounded channel and a context; a
  reader tells the lister of its failure only by cancelling the context.
- The workers of the history walk share the tree cache with each other and with
  the caller, which releases from it; a worker may run ahead of the caller by the
  window.
- The workers of the legal collection share the set of claims and the set of
  legal blobs.

### What is hard about it

1. *Somebody dies while others wait.* Each pipeline has bounded channels and a
   failure path that leaves without draining them. It must still return.
2. *An error must not look like success.* The index stores no empty results, so
   a lost blob and a blob without a licence are the same to every reader of the
   index. Only the error channels stand between the two.
3. *Sends and closes.* A send on a closed channel panics.
4. *Order.* The report counts commits by comparing neighbours, so the parallel
   walk must restore the order, and the spool must keep it.
5. *Sharing of work.* A tree is loaded once although several workers need it at
   the same time, and descended into once although many commits hold it.
6. *Two views of one object.* Its size is read at listing and at reading; its
   name comes from the object store and from the history. They may disagree.

### What makes each component correct

- Blob scan and feeders: success means that each blob of the store has the
  answer that its bytes, its size and its limit determine, and is counted once;
  the jobs channel is closed after the last sender has left; the scan returns.
- History walk: commits are visited in order, once, and success means all; each
  tree is loaded once and forgotten when it is no longer needed; it returns.
- Legal collection: success means exactly the blobs that some reachable commit
  holds under a legal path; it returns.
- Children: an answer is the one to the question; a child that died never passes
  for one that was done; nobody waits for a child that is stuck on a full pipe.
- Roots, order, parsers: both backends show the changes that git shows, and the
  legal blobs found from changes are those found from trees; a tree that is cut
  short is never taken for a shorter one.
- Log: a printed report accounts for every change of the history; totals and
  months agree; a comparison with an unknown side is marked as such.

## 2. The modules

| Module | Models | Runs, proofs |
| --- | --- | --- |
| `BlobScan` | abstract: what any blob scan promises its caller | property of the three scans; `Refinement` |
| `ScanCore` | jobs channel, matchers, index, counters, return | extended by the three feeders |
| `CatFileScan` | the git feeder over `ScanCore` | `CatFileScan`; `CatFileScanProofs` |
| `GoGitScan` | the parallel gogit feeder, both variants | `GoGitScan`; `GoGitScanProofs` |
| `GoGitSerialScan` | the gogit feeder with one reader | `GoGitSerial`; `GoGitSerialScanProofs` |
| `ChildProcess` | a git child behind a bounded pipe, as os/exec shows it | extended by the next and by `GitLog` |
| `FeedChildren` | what the git feeder says to its children, to the byte | `FeedChildren`; `FeedChildrenProofs` |
| `HistoryWalk` | abstract: what a walk promises the function it calls | property of `HistoryStream` |
| `HistoryStream` | the parallel history walk with the tree cache | `HistoryStream`; `WalkProofs` |
| `HistoryChanges` | a history with its trees, what a walk of it visits, the legal blobs recorded from changes | extended by the next two |
| `GitLog` | `git log` and the parser of its output | composed by `WalkChanges` |
| `CommitWalk` | roots, shallow boundary, the iterator, the walk with one worker | composed by `WalkChanges` |
| `WalkChanges` | `walkChanges` with either backend | `WalkChanges`, `ShallowWalk`; `WalkProofs` |
| `LegalTrees` | the collection of legal blobs from trees | `LegalTrees`; `LegalTreesProofs` |
| `TreeReader` | the bytes of a tree, through the pooled buffer or from memory | `TreeReader`, `TreeNames`; `LegalTreesProofs` |
| `HistoryLog` | the log command: walk into the spool, scan, replay | `LogReport`, `LogPartialClone`; `HistoryLogProofs` |
| `ScanCoreProofs`, `CatFileScanProofs`, `GoGitScanProofs`, `GoGitSerialScanProofs`, `FeedChildrenProofs`, `WalkProofs`, `LegalTreesProofs`, `HistoryLogProofs` | lemmas and theorems | |
| `MC*` | values for the constants of the runs | |

### How state and actions correspond to the code

*Processes.* Every goroutine is a program counter in a function indexed by its
name (`worker`, `reader`), the calling goroutine the variable `main`. An action
takes a goroutine from one point at which others can see a difference to the
next: a channel operation, a lock, a call into the store. What lies between two
such points touches only what the goroutine owns.

*Channels.* A buffered channel is a sequence with a capacity; a send waits for
room, a `range` ends when the sequence is empty and the channel closed. The
unbuffered channel of `feedBlobsGoGitParallelObjects` hands the object to an idle
reader in one step (`Deliver`). A result channel that holds one result is a
function from commits to results. A `select` is two actions, so if both cases
are ready either may happen, as in Go.

*Contexts.* `cancelled` is the context. In the git feeder it also kills the
listing child, whose death is `ListFails` if the lister waits for the child and
`OfferCancelled` if it waits for the channel.

*Children.* A child of `ChildProcess` has a script, what it has still to print,
and a pipe that holds `PipeCap` tokens. It blocks while the pipe is full, exits
when the script is out, or dies anywhere with the rest unprinted. `cmd.Wait` needs
it to have ended; what is in the pipe outlives it. In `FeedChildren` a question
puts the answer on the child's script: a header, one token per byte of the body,
a line feed. A byte of a body may be one that reads like a header. In `GitLog` a
token is a field between two NULs.

*Mutexes.* `index.put` and the counters each take a mutex, and nobody reads either
before all goroutines have been waited for, so one action does both. What
`TallyOnSuccess` finds is therefore a blob counted twice, not at all or under the
wrong heading; that one update is not lost to another is what the mutexes are
there for, and is taken for granted. The mutex of the tree cache is held only over
the lookup, and `CacheLookup` is that section; the load happens outside it
(`LoadTree`), and so does the wait (`Await`). `errMu` covers `firstErr` and the
cancellation, which `ReadFails` sets together.

*Failures.* Whatever asks the store, a child or the disk may fail at any time:
`ReaderFails`, `ListFails`, `OpenFails`, `ReaderCloseFails`, `StreamFails`, `IterFails`,
`WorkFails`, `LoadTree(w, "err")`, `CommitFails`, `DescendFails`, `ReadFails`,
`Fails`, `RootsFail`, `VisitFails`, `ChildDies`, and the failing write of
`WalkOne`. In `WalkChanges` the constant `Faults` can switch them off, for the
question whether a walk of a sound store succeeds.

*Data.* A blob is its name; an `Entry` of the store says its type and size as
listed and as served, whether a legal path leads to it, and the four facts about
its bytes that `matchBlob` acts on. In `HistoryStream` a commit is its position
in the walk; in `HistoryChanges` it has parents and a tree of a few paths. In
`LegalTrees` a name is legal or not, in the log a change is its commit, its path
group and its two sides. `stats.total`, which the feeder counts and returns, is
counted in place.

*Recursion.* `collectLegalTreeRaw` calls itself on subtrees. `todo` of a worker
is what all its pending calls have left, the innermost first. Without workers the
caller descends itself; it is the process `Caller` then.

*Buffers.* In `TreeReader` a name is what it is in the code, a place in the
buffer, and `Fill` moves and overwrites what is there. Module `LegalTrees` has
the whole reading of a tree as one step, with the right result.

*Options.* The variants of one feeder are one module: `GoGitScan` has a variable
`options`, fixed for the run, that says whether object infos are batched, how
large a batch is and how many the channel holds; `crew` and `batchSize` are the
same in `LegalTrees`, `backend` in `WalkChanges`.

*A range of the source in the map* may cover both readings of one thing: the two
parallel gogit feeders are one module, as said.

### What comes from outside

git, go-git and bufio are not part of the source. The modules assume of them what
the code uses: a listing names every object of the store once, in any order; a
child that is asked answers or fails; `git log` yields a commit before its
parents, and so does the date-order iterator, which meets the commits by way of
the nodes it is given; a node of the library gets its parents from the index
embedded in it, whatever index wraps that one; go-git serves an object under the
type it enumerated; `bufio.Reader` fills its buffer in pieces of any size and
moves what is unread to the front before it does.
That refs/replace can make `cat-file --batch` serve another object than was
listed is in the models of the git feeder; the gogit backend refuses such
references.

## 3. The runs

| Run | Instance | Question |
| --- | --- | --- |
| `CatFileScan` | 3 objects of 7 kinds, 2 readers, 1 matcher, channels of 1 | Do failures, cancellation and full channels ever lose, repeat or miscount a blob in a successful scan? Is `jobs` ever closed under a sender? Does the scan implement `BlobScan`, and return? |
| `GoGitScan` | 3 objects of 6 kinds, 2 readers, 1 matcher; batches of 2 with one buffered, batches of 3 unbuffered, single objects | The same for batches, with sizes that change, and for an interrupted offer that is dropped |
| `GoGitSerial` | 3 objects of 6 kinds, batches of 2 blobs and weight 1 | Does a flush lose a job or the blob that waits for it? Is the batch bounded? Does the scan implement `BlobScan`? |
| `FeedChildren` | 2 objects, small, empty, large, replaced, lost or no blob; 2 readers; pipes and channel of 1 | Is every answer the answer to the question? Can a child that died pass for one that was done? Does anybody wait for a child that is stuck on a full pipe? |
| `HistoryStream` | every history of 4 commits, merges skipped, 2 workers, window 2 | Is each tree loaded once and forgotten in time? Does anybody wait for a load nobody does? Are commits visited in order, and does the walk return? |
| `WalkChanges` | 120 histories of 3 commits with tags, stray and replacing references, links and submodules, and 3 shallow clones; both backends, merges or not | Do both backends visit the changes git shows? Are the recorded legal blobs those that the trees hold? Does the walk return, with no child left? |
| `ShallowWalk` | clones of depth two, a store without faults | Do the commits of the boundary show every file as added? |
| `LegalTrees` | 12 repositories of 4 commits and 3 trees, no worker, 1 or 2, batches of 1 or 2 | Is the collected set the set of legal blobs? Can a cancelled enqueue return no error? Does the collection return? |
| `TreeReader` | trees of up to 2 entries, cut after any byte or whole, a buffer of 8, ids of 2 bytes | Are entries told apart right, and is a tree cut within an entry ever taken for a shorter one? |
| `TreeNames` | the same | Is a file with a legal name always collected? |
| `LogReport` | every history of up to 3 changes, 6 pairs of sides, 3 groups, 3 commits | Does a printed report account for the whole history? Do months and totals agree? |
| `LogPartialClone` | a history that names an object the store lacks | Does `lookup` ever take an object that was not examined for an empty one? |

### Why these bounds

*Scans.* With channels of capacity one, three blobs are enough to fill the
channel from the lister, the hands of a reader and the `jobs` channel at once, so
every goroutine can be blocked in turn and all at the same time. Two readers are
the fewest with which one can fail while the other works, both can fail, and the
error channel can be too small. The kinds of object differ in the way through
the scan: listed as something else, over the limit, within the legal limit only,
served larger, served as something else, with and without a licence. Batches of
two leave a partial batch when one or three blobs are read and none when two are;
a batch of three is never full before the end unless all three are. In
`GoGitSerial` the weights make one blob alone too heavy and two together too
heavy. Stores that differ only in which blob has which kind behave alike, as no
code looks at a name, so the runs start from stores in the order of kinds
(`InKindOrder`), which halves them several times over and needs no symmetry
reduction; all runs are checked without it, the temporal properties therefore
soundly.

*Children.* A pipe of one token makes a child block on every token it prints
while nobody reads. Two objects make a reader ask twice, so that what it leaves
of the first answer meets the second question.

*History.* Four commits with any first parents and any merges hold lines, forks
and joined branches; a window of two forces the caller to receive before it
sends. Two workers are enough for one to wait for the load of the other, and for
results to arrive out of order. In `WalkChanges` three commits are the fewest
with a merge whose second parent is also reached otherwise, and with a boundary
that is neither root nor oldest; two paths, one legal, are enough for a commit
with no, one or two changes.

*Legal trees.* The repositories share a subtree that is legal on one path and not
on another, hold a symbolic link with a legal name, a merge that reaches a commit
twice, roots that overlap, and a boundary that hides a commit. Two workers meet
on the shared subtree.

*Trees.* A buffer of eight bytes holds one entry and a part of the next, so each
field of the second can be cut at each place; one name does not fit at all.

*Log.* Three changes are the fewest with two commits of which one has two
changes, in one group or in two; a write can fail at any of them; one commit is
a merge, two share a month.

All runs check for deadlock; the only state without another step is one in which
the command has returned, and `Done` (`WalkDone`) names it.

### Fairness

The scans assume weak fairness of each goroutine, and of nothing else: the Go
scheduler keeps running a goroutine that can run. `HistoryStream`, `LegalTrees`,
`FeedChildren` and `WalkChanges` assume less, that some goroutine or child goes on
as long as one can: there every step uses something up that is not refilled
without end, so that is enough. Successful answers of the store and of children
are among the fair steps, which says that a child or the library answers at some
time or fails; failing steps are not fair, so no property rests on a failure
happening. Weak fairness is enough since a goroutine waiting on a channel is
served, or its wait is ended by the context, whatever the others do after.

### What the runs show

All safety, refinement and liveness properties of the passing runs hold on these
instances. Each of them fails when a definition is replaced by one of the mutants
kept beside the definitions, each a slip that the code could plausibly have: an
error channel of one, a reader that continues after a skip, a batch that is not
replaced, a body that is not discarded, a child that is waited for but not killed,
a claim that forgets the role, an object id that is taken before all of it has come.

Three runs end in a violation.

`LogPartialClone`, a difference between what the source says and what it does.
The comment on `index.put` (`main.go` 242) says that empty results are implicit
after a completed scan, and `README.md` 117-119 that a comparison with a side that
was not examined is marked incomplete. In a clone made with a blob filter,
`cat-file --batch-all-objects` does not list the blobs that were not fetched, so
the scan completes without them, while `git log --raw` names them; `lookup`
(`main.go` 713) then gives the empty result. The log counts such a change as an
expression change, an addition or not at all.

`ShallowWalk`, a difference of the same kind. For a shallow clone `log` warns that
grafted commits will show every file as added (`history.go` 168). With the gogit
backend that is so where the boundary commit is a root, as in the clones of depth
one that the tests make. The nodes of the boundary are wrapped by
`shallowCommitNodeIndex.Get` (`gogit_history_stream.go` 87), and only the roots are
got by it: any other commit the iterator gets from the node of its child, whose
index is the embedded one. In a clone of depth two the boundary commit keeps its
parents, the walk asks for one that is not stored and ends in an error.

`TreeNames`, an error in the code. `collectLegalTreeRaw` keeps the slice that
`ReadSlice` returned for a name (line 661) over the `Peek` for the object id (line
669) and looks at it afterwards (lines 682 and 687). If the id is not yet in the
8 KiB buffer, `Peek` moves and refills it, and the slice shows other bytes. A legal
file or directory whose name ends within the last bytes buffered is then passed
over (or another taken for a legal one), and its blob has the limit of ordinary
blobs instead of that of `--max-legal-blob-size` (`main.go` 138). It takes a tree
larger than the buffer, or one that arrives in pieces, and one that the library
does not hold in memory. `TreeReader` shows, and `EntriesRead` proves, that
everything else read from the buffer is right: modes, ids, the end of the tree.

## 4. The proofs

TLC answers for the instances above; the theorems hold for every value of the
constants: stores, histories and trees of any size, any number of goroutines and
any capacity.

| Module | Theorems |
| --- | --- |
| `CatFileScanProofs` | `TypeCorrect` (`TypeOK`), `NoSendAfterClose` (`ClosedAfterSenders`), `NoBlobLost` (`NothingLost`), `CompleteScan` (`CompleteOnSuccess`), `OneHandAtATime` (`OnePlace`), `CountedScan` (`TallyOnSuccess`), `Refinement` (the safety part of `BlobScan`) |
| `GoGitScanProofs` | `TypeCorrect`, `NoSendAfterClose`, `NoBlobLost`, `OneHandAtATime`, `CountedScan`, `Refinement` |
| `GoGitSerialScanProofs` | `TypeCorrect`, `NoBlobLost`, `HeldInBounds` (`BatchBounded`), `Refinement` |
| `FeedChildrenProofs` | `AnswersRight` (`AnswersWhatWasAsked`), `TypeCorrect` (`TypeOK`), `CompleteFeed` (`FeedIsComplete`) |
| `WalkProofs` | for `HistoryStream`, `TypeCorrect`, `NoSecondLoad` (`LoadedOnce`), `NoOrphanedWait` (`AwaitHasLoader`), `CacheForgets` (`CacheIsFrontier`), `Refinement` (the safety part of `HistoryWalk`); for `WalkChanges`, `WalkTypeCorrect` (`WalkTypeOK`), `HistoryWhole` (`WholeHistory`), `LegalCollected` (`LegalAsInTrees`) |
| `LegalTreesProofs` | `TypeCorrect`, `BatchNeverOverrun` (`BatchFits`), `Complete` (`CompleteLegal`); for `TreeReader`, `ReaderTypeCorrect` (`ReaderTypeOK`), `EntriesRead` (`EntriesInStep`) |
| `HistoryLogProofs` | `TypeCorrect`, `CompleteReport` (`ReportIsComplete`), `MonthsAgree` (`MonthsAddUp`), `OneHeading` (`HeadersOnce`) |

Each rests on a theorem `Invariance`, `Spec => []Inv` (for the last two of
`FeedChildrenProofs` on `FeedInvariance`, for those of `TreeReader` on
`ReaderInvariance`, for those of `WalkChanges` on `WalkInvariance`), with an invariant that is
inductive, which none of the properties is alone. The assumptions are those the
modules state of their constants (`ScanAssumption`, `CatFileAssumption`,
`GoGitAssumption`, `SerialAssumption`, `FeedAssumption`, `StreamAssumption`,
`LegalAssumption`, `TreeAssumption`, `LogAssumption`, `ChildAssumption`,
`HistoryAssumption`, `GitLogAssumption`, `BackendAssumption`): types, at least one reader, matcher or worker where the
options demand one, capacities that are not zero where the code's are not, a
history in which a commit comes before its parents or, in `HistoryChanges`, whose
commits have ages that grow toward the parents, which is to say no cycle (the name
of a commit is a hash over those of its parents).

### The scans

`Inv` is the conjunction of `TypeOK`, `CoreInv`, `Routed`, `Control` and
`Accounted`, and in the two scans with several readers of `Apart` and `Tallies`. A state in which a
reader holds an oversized blob that it is about to send satisfies every property
of the run, and the next step records a wrong answer; so the invariant adds:

- `CoreInv` and `Routed`: what is in a channel or a hand may be there. A blob past
  the size tests is one the scan owes a match, and an answer in the index is the
  reference answer.
- `Control`: which hand is full at which program counter, that closing happens in
  order, that a goroutine that is done left an empty channel behind it unless an
  error is on record. In `GoGitScan` a goroutine drops what it holds when the
  context is done, so there it also says that whoever cancelled has put the error
  on record before.
- `Accounted`: unless an error is on record, each blob is in one of the named
  hands, batches and channels or has its reference answer.
- `Apart`: no blob is in two of these places, or twice in one channel. `OnePlace`
  says the same and is not inductive: whether the next read finds a blob that is
  in hand already depends on what the lister has still to list.
- `Tallies`: what the counters hold is the number of the blobs that have passed
  the point where they are counted. It is stated with the set of those that
  have not (`Owed`, `SkipsOwed`), so that a step which moves a blob through that
  point takes one element from the set and adds one to the counter. For that
  `Apart` is needed: a blob in two places would be counted twice and leave the
  set once.

`ScanCoreProofs` has the part that does not depend on the feeder. A step of a scan
is one of seven kinds (`CoreStep`: a matcher moves, an answer is recorded,
something is counted, a job is sent, the channel is closed, the scan returns, the
shared part is left alone); for each it says what becomes of `CoreInv` and of the answers (`CoreKeeps`), and which
steps of `BlobScan` they are (`PromiseStep`). A feeder has to show of which kind
its actions are. Completeness then needs no induction: when the scan has
returned success all channels are empty, all hands free and no error is on
record, so each blob is settled (`ThroughIsComplete`).

### The conversation with a child

Nothing in the stream of a child marks where an answer ends, so the proof cannot
look at what a token is like. `InSync` says that what is in the pipe, followed by
what the child has yet to print, begins what its reader has yet to hear (`Rest`):
the whole answer before the header, as many bytes as are left and the line feed
in the body, nothing between two questions. A child that dies makes it a shorter
beginning, never another one. `Kept` says that the header in hand is that of the
object asked for and that the bytes kept are the first bytes of its body.

Completeness (`FeedInv`, which presumes `InSync`) follows what becomes of the
blobs. `Listing`: the lines in the pipe of the listing child and those it has not
yet printed name each object that has not been heard of exactly once, so what
remains of the listing and what the feeder has made of it are two halves of the
store. `Accounted`: unless something went wrong, a blob is unheard of, in a named
queue or hand, or settled, and the counts are those of the settled ones.
`Control`: whatever went wrong is on record before the feeder returns, and a
goroutine that has ended left its queue and its hand empty. A feeder that returns
success has therefore nothing left but settled blobs.

### The history walk

The commits in the window and those in the `tasks` channel are consecutive
(`Ordered`), so that "not yet visited" and "already taken" become comparisons with
two numbers. Each commit between the two is with exactly one worker or has its
result (`Assigned`); a worker wants the tree of its commit or of an older ancestor
still ahead in the walk (`Wanting`). As nobody works on a commit that was visited,
no tree is asked for after it was released, and the cache holds exactly what was
loaded of the commits ahead (`Cached`).

For the refinement the walk to be visited is a sequence without recursion: the
commits that are not left out, each at its rank among them (`Walk`, `Rank`). The
lemmas on ranks say that they are one to one and onto, and that the rank grows by
one at each of these commits. `Visiting`, that what was visited is the walk as far
as the rank of the commit before the oldest, then makes a visit the next `Visit` of
`HistoryWalk`, a merge that is left out no step, and a success one after the last
commit, as by then (`Closing`) the window is empty and the iterator exhausted.

### The history from git or from go-git

`WholeHistory` compares what was passed to the caller with a standard, the history
as git shows it (`Orders`, `ChangesOf`). The standard is not computed: what a tag
leads to, what is reachable and what the iterator meets are least closed sets,
stated with a quantifier over all closed ones, and the changes of a commit are
joined from one sequence for each path, empty if nothing differs there. Of joined
sequences the proofs use where each piece begins (`Upto`, `UptoAt`, `UptoFrom`).

*git.* The parser knows what a field means from those before it only, so the
invariant says which fields those are. `Printed` lays out the whole output of the
child: for each commit a place, four fields from there, and two for each change.
`InStream` says that what the pipe holds and what the child is yet to print are the
rest of it after the fields read, or, of a child that died, that the pipe holds a
part of the rest, perhaps with a field that is cut. `Place` says that the parser is
at its k-th commit and has passed j of its changes, what `current` holds of that
commit at each program counter, and that what was passed is the changes of the
commits before and the j of this one. Where a commit or a change may begin, the next field is
the one or the other, as the place says (`AtField`), and no field is left only
behind the last change of the last commit. That the parser returns success with
fields outstanding is excluded by `cmd.Wait`: a child that exited has printed all.

*go-git.* `RootsFound`: what the roots found and the object being peeled lead to is
what HEAD and the references begun lead to. `Frontier`: the nodes that are ready
are those of the commits met that were not yielded, but all of whose children
were, one node each. If none is ready all commits met are yielded, since otherwise
the youngest of those that are not would be ready. `Fit`: each node yielded has
the parents that git shows, so the commits met are those of the history. It is the
one place where a hypothesis is needed, `CutOff`: a commit of the shallow boundary
that is the parent of another commit of the history has no parents, or one that is
not in the store. Its node is not wrapped (see `ShallowWalk` above); if its parents
are missing the walk fails, and if they are all in the store the walk goes on past
the boundary and succeeds with commits that `git log` does not show. That takes a
clone whose store has more than its history, after `git fetch --depth` for example.
The theorems state it as a condition on the repository of the run (`backend = "git"
\/ CutOff => ...`); the repositories of the run `WalkChanges` meet it.

*The legal blobs.* Those recorded from changes are sides of changes, and a side is
in the tree of a commit or of its first parent. Conversely a legal file of a commit
is in its first parent under the same path, or the commit has a change that adds it;
the oldest commit that has the file cannot have it from its parent.

### The legal collection

`CompleteLegal` compares the result with a set defined as a least fixpoint, the
blobs that some visible commit holds under a legal path. The proof uses of it
only what every closed set has: `Within`, that the work stays within each set
closed under the steps of the collection, gives that nothing else is found;
`Owed`, that the set of claims is closed up to what still waits in some batch,
channel or call, gives that all is found, once nothing waits. `Flow` ties the
goroutines to the channel and says that work is dropped only with an error on
record.

### The bytes of a tree

A tree of `TreeReader` carries its bytes and the places where its entries begin,
which `LaidOut` ties together entry by entry, so that nothing is computed by
recursion over the entries. `EntriesInStep` looks back at what was taken; that the
next field will be read right depends on what is in the buffer and on what is
still to come. The inductive invariant `ReaderInv` therefore says where the
reading is (`InPlace`): the unread part of the buffer, followed by the bytes the
library has not delivered, is the tree from the first byte of the field that is
due up to the cut. `MidEntry` keeps the mode of the entry being read, and
`WholeInMemory` that a tree in memory never meets the buffer, so one predicate
(`Window`) serves both ways.

A fill leaves the window as it is (`WindowFill`), a field consumed moves it
(`WindowMove`). What makes a field end where it should is that the first space of
an entry is its second byte (a mode is one token of the model, and none is a
space), and that a name holds no NUL: `ModeField`, `NameField` and `OidField` say
what a search for the delimiter finds in a window, also where the cut or the end of
the buffer lies within the field. Object ids may hold any byte, delimiters included.
The slice kept for a name is in no part of the invariant but the types, as nothing
right can be said of what it shows: see `TreeNames`.

A tree that is cut exactly where an entry ends does pass for a shorter one
whichever way it is read; that is a matter for the library, which knows the size of
the object. `EntriesInStep` says that this is the only cut that does.

### The log command

The spool is a copy of the history without the merges: `Copied` says that there is
a map from its positions onto those of the history that are not of merges, which
keeps the order. What is counted over the one is then as many as what is counted
over the other (`CopyCounts`), which relates the two passes without an induction.

The counters remember one commit, the last. That a commit that differs from it is
a new one holds because changes come in the order of the walk (`Ordered`, of the
history and so of the spool): `Latest` says that the last commit counted is the
latest of those reported in the group, `Monthly` that the month of that commit has
it as its last, too. So totals and months count a commit at the same change, and
the columns agree after each record (`Summed`). `MonthsAddUp` is stated with a set
that has one element for each thing a month counted (`Tallies`). The headings are
rising (`Rising`), hence different.

That the changes of a commit come in one run is part of `Init`: the walks of
`HistoryChanges` deliver them so.

### What is only model-checked

- Liveness, and with it the halves of `ImplementsPromise` and `ImplementsWalk` that
  speak of it; it is out of the prover's reach.
- The standards themselves, which are definitions: that the least closed sets of
  `HistoryChanges` are what `git log` shows is read off the documentation of git.

## 5. Left out

- Opening and tuning of a go-git repository (`gogit_history.go` 116-153,
  `gogit_tuning.go` 38-64, `gogit_zlib.go`): calls into the library in a straight
  line, whose failure is one action of each module that needs the repository.
- The header lines of commit objects (`readCommitTreeAndParents`): each line is
  parsed before the next is read, so nothing of what makes trees hard applies.
  `LegalTrees` has the outcome, a tree and parents or a failure.
- The names of legal paths: tests on strings without state, which have to agree
  with a library. The models carry their verdict, one bit for a name.
- The command line, options and printing. What validation demands of an option
  is an assumption on a constant. `--monthly` and `--details` exclude each other;
  `HistoryLog` keeps both reports in every run, as neither reads the other.
- The encoding of a record in the spool and the removal of its file. A process
  that is killed leaves the file behind (`history_spool.go` 91), which nothing
  reads again.
- The matcher: its verdict is part of the store. `idx.err`, which needs an object
  name that neither backend can list. String interning, byte counters, progress
  output, profiles and timings.
- Tags that point at each other in a cycle: their names would have to be hashes
  of each other.

One hazard is left to a look at the code. The capacity of the channel of batches
(`gogit_tuning.go` 91) is computed from an option that could be out of any
sensible range.

## 6. Plan

Done: the scans with every feeder and the conversation with the children; the
history walk with one worker and with several, from git and from go-git, with its
order, roots and boundary; the legal blobs on every way they are found; the bytes
of trees; the log command; proofs of every safety invariant of the passing runs:
of the scans, the conversation, the walks of both backends, the collection, the bytes
of trees and the log command. What would add most next:

1. A run of `WalkChanges` with a second boundary commit and a history of four
   commits, too large for one run with both backends. The proofs cover these sizes;
   the run would be for liveness.
