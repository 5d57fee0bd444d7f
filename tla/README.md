# Verification of edtech-lms-api

TLA+ specifications of the central LMS API (NestJS, Sequelize, MySQL), model-checked with TLC
and, for the parts that matter most, proved with TLAPS. All paths below are relative to the
repository; the code is under `src/src/`.

- [The system](#the-system): components, state, operations, interactions, what is hard
- [The modules](#the-modules): how each corresponds to the code
- [The runs](#the-runs): what TLC checks, with which bounds, and what each run shows
- [The proofs](#the-proofs): what TLAPS proves, from what, along which argument
- [What disagrees](#what-disagrees): four places where code and documents differ
- [What is not modelled](#what-is-not-modelled) and [the plan](#the-plan)

## The system

One central Node.js process serves editors and administrators of several organisations over one
MySQL database (InnoDB, REPEATABLE READ, a pool of five connections). Learners never read the
live tables: they are served by a separate *student server*, to which central sends, per
organisation, the content that was *published*.

| Component (code) | State | Operations | Interacts with | Hard because |
|---|---|---|---|---|
| Curriculum publication (`business/curriculum-publication.ts`, `publication-withdraw.ts`) | rows of `curriculumpublications`: payload, summary, status, time | publish, retire | locks the `curriculums` row; reads every content table first | reads before the lock, retention, time as order |
| Initial publication (`business/initial-publication.ts`) | the same rows | publish all that was never published, all or nothing | the same locks, several at a time | plan older than its locks, lock order, partial failure |
| Curricula (`business/curriculum.business.ts`) | `curriculums.isdeleted` | delete (withdraws in the same transaction) | the same lock | races with a publish already reading |
| Publish push (`business/publish-push.ts`, `cloud-push.ts`) | `lanes`, in memory; promises | one push at a time per organisation; one shared later push | commits of the above; the student server | interleaving, timeouts, restarts, late imports |
| Published content (`business/published-content.ts`) | none | three queries, merge, confine | reads publications; feeds both sync routes and the push | no transaction around the queries; shared rows |
| Content export (`business/organisation-content-export.ts`) | none | reads the live tables one by one; `confine` | every content table | torn reads |
| What a publish answers (`summarise`, `sharedRows`, `movedAway` in `curriculum-publication.ts`) | none; it compares stored publications | computed by each publish | the publications of all curricula; the trees and links as they are now | rows that move between curricula, copies of different ages |
| Curriculum tree and lessons (`grade`, `level`, `lesson*.business.ts`, `reorder-children.ts`) | rows with an order under a parent; points of items, lessons, levels, grades | create, edit, move, switch, delete, reorder; points counted again after each | read by the export | sums read in one query and saved in another, no transaction, saves not awaited; check outside the transaction that writes |
| Question and document bank (`question`, `document`, `*tag.business.ts`) | rows; tag lists inside a row | create, edit, soft delete, tags | read by the export | read-modify-write of a list |
| Schools, learners, logins (`school`, `school-identity`, `student`, `schooluser`, `teacher`) | rows that carry their school's id and name | create, rename (cascades), import | shared lock on the school row | rename against insert |
| Staff accounts and sessions (`user`, `auth`, `token`, `session-revocation`) | `tokens`, roles | sign-in, refresh, sign-out, role change | organisations, roles | delete-then-create outside a transaction |
| Roles, organisations, ownership (`role-permission`, `organisation`, `content-owner`, `*-scope`) | rows | decision rules and CRUD | every request | rules, not interleavings |
| Log import, reports, HTTP layer | progress rows | bulk upsert; reads | student server | volume, not ordering |

What makes each modelled component correct:

- **Publication.** The newest publication of a curriculum is never an older read than the one
  before it; "the latest" is never a tie; the latest two keep their payload; a stored payload is
  closed; a withdrawn curriculum has no published row; a deleted one neither; the initial run is
  all or nothing; every request ends; history is never rewritten.
- **What a publish answers.** The rows it takes from learners of another curriculum are named, and
  what it names is taken; the shared rows whose new copy reaches other learners are listed.
- **Curriculum tree.** A request that had its branch of the tree to itself leaves the points right,
  whatever spoilt them before; reorders that overlap end as one of them.
- **Push.** One push in flight; an act is answered only with a push that carries it; at most two
  pushes between an act and its answer; every act is answered; learners go back to an older set
  only by a request central gave up on.
- **Published content.** A read carries what was committed before it; it is refused only when a
  publication was pruned under it; it serves all that an initial run published, or none of it; the merge takes each row whole from the newest publication
  that holds it, whatever the order, and the result is closed.
- **Schools.** Every copy of a school's name agrees with it, whatever overlaps a rename; a row that
  is written for a school given by name is written for a school of that name; a learner and the
  learner's login stay together; only moves can deadlock with anything, but for refreshes with each other; every request ends.

## The modules

| Module | Models | Extends / uses |
|---|---|---|
| `CurriculumPublication` | publish, retire, delete, initial run and editors on one store | |
| `ContentDelivery` | the three queries of a read, composed with all of the above | `CurriculumPublication` |
| `PublishedMerge` | merging the publications a read returned, then `confine` | |
| `PublishPush` | the lane of one organisation, the student server, restarts | implements `PushContract` |
| `PushContract` | what the push promises, without lanes or promises | |
| `PublicationSummary` | what a publish answers, against what learners get | |
| `CurriculumTree` | every request that changes points or an item's order, query by query | |
| `SchoolNames` | a rename and its cascade, the writers of learners, logins, classes and fees rows, deleting a school | |
| `ContentDeliveryProofs`, `CurriculumPublicationProofs`, `CurriculumTreeProofs`, `CurriculumTreeTotals`, `PublicationSummaryProofs`, `PublishedMergeProofs`, `PublishPushProofs`, `SchoolNamesProofs` | theorems | the module they are named after (`CurriculumTreeTotals`: `CurriculumTree`) |
| `MC...` | constants and symmetry for TLC | |

**CurriculumPublication.** A request is a process (`pc`) that runs once; one action is one awaited
query, or a group of queries that no other step can tell apart. `lock` is the InnoDB row lock of
`SELECT ... FOR UPDATE`, held to the end of the transaction. Content is abstracted to versions:
`bank` counts the changes to questions and documents, `tree[c]` those to the rows under curriculum
`c`; a tree at version `v` names bank rows up to version `v`, which is what an editor can do, for
a link row names a question that exists and questions are only soft-deleted. So a copy is closed
exactly when its tree is not ahead of its bank (`Closed`). Subjects are not modelled: which curricula
a subject refuses (a deleted one, or another organisation's) is an input of the build, `placed` (`Publishable`). `readCurriculumContent` reads the questions first
and the rest after: `ReadBank`, then `ReadTree` (the documents are read after the curricula; as
they too only grow, one group is enough for closedness to be at risk). A publication is its request,
its time, its status, the versions it was built from, and whether payload and hashes are kept.
The clock is any reading in `0 .. MaxClock` at any moment: it may stand still or step back.
`Fail` is any query failing: the transaction rolls back and its locks are released. The
transaction's snapshot is established after the lock is granted, so reads under the lock see every
commit before it (the first statement of the transaction is the locking read).

**ContentDelivery.** `ReadHistory`, `ReadLive`, `ReadPayloads` are the three queries of
`readPublishedSets`, with what is computed between them; every action of
`CurriculumPublication` may come in between. `stood` records the store as the read began.
`InitialIsServedWhole` excepts a curriculum that stood withdrawn when the read began, since a retire
may follow the run; `delivery` has no retire, so that case is reached by the proof only.

**PublishedMerge.** A publication is a function from the rows it holds to a copy: the row it hangs
from, the rows it names. `PublicationsAssumption` says of it what `confineCurriculumTables` made
sure of when it was stored (and `StoredIsClosed` checks): parents and references are in the
copy. `Visit` is one turn of the winner loop in any order; `Emit` the second loop; `Confine` the
check that follows. Tables are abstracted away: a key is a table and an id. `Confined` is the
greatest set of rows closed under "my parent is here", which is what dropping rows parents-first
leaves.

**PublishPush.** An act is a publish, retire, delete or manual re-push of one organisation; lanes
of different organisations share nothing. `serving` and `waiting` are the lane (`serving = None`:
no lane); a shared promise is named after the act that made it. The act that asks, the end of a
push, and the resumption of `serveWaiting` are separate steps, as they are separate turns of the
event loop. The student server is external: it imports, answers, refuses, hangs, or finishes an
import central has given up on. `Restart` loses the lanes and not the requests under way.

**PushContract.** Pushes go one at a time and an act is answered only by a push whose set was
built after the act committed. `PublishPush` maps to it by `flight` (the push that is building or
sending), `asking` and `answered`.

**SchoolNames.** A request is a process that runs once; a step is a query, or one row of an `UPDATE`
that touches several, since that is where two transactions can each hold what the other wants. What
a transaction wrote is in `draft[p]`, which is at once its row locks and what nobody else sees; its
commit lays it over `row`. `sharing` and `renaming` are the shared and the update lock on a school's
row. A writer's request is a list of lines, each a school (by id, or by name when the request is a
hiring or a move) and the rows to be written for it: `Enrollers` (`student.controller.createall`),
`Hirers` (`teacher.controller`), `Movers` (`updateStudents`, which first looks for every learner,
`Known`, and checks every line, then writes the learner and the login line by line), `Classers` (`standard.business`). `Candidates` is
`sameNameCandidates`, an unlocked read in the snapshot `seen`, fixed by the transaction's first plain
read; `Resolved` is the second look at the locked row. A name is a member of `Texts`, and two texts
name one school when `Normal` (trim, NFC, lower case) maps them to one, so a school can be renamed to
another spelling of its name. `LockSchool`, `Cascade`, `CascadeNext` and `Commit` are
`updateschoolName`. A fees row is made by one insert without a transaction, which waits for the
school only through its foreign key. A refresh shares the school and reads its name (`ShareForRefresh`), reads
the school's fees rows (`FindFees`) into `found`, and saves them one after another, each under its row lock
(`RefreshFee`). The query has no `ORDER BY`, so `found` is the rows in any order. `Rings` are the cycles InnoDB looks for, `Victim` the rollback
of one of the ring. `NothingToSave` is Sequelize's `save`, which sends no query for a row that equals
what was read.

**PublicationSummary.** The rows are the three tiers under the curricula and the bank. `up` is what
a row hangs from, `uses` the bank rows it is linked to, `gone` what has `isdeleted`, `says` the
content of a bank row. A publication keeps, for each row picked, its `Hash`: the columns that are
told apart here (parent and deletion of a row, text of a bank row). `Summarise` is the part of
`summarise` that is about other curricula: `SharedRows` and `MovedAway` over `DiffHashes` with the
curriculum's own latest publication, if published, and `PublishedHashesOf` the others. A publish is
one step: the plan is read under the lock that also orders it, and `CurriculumPublication` has the
interleavings. Editors move rows under any parent of the right tier (a deleted one too, as
`updateGrade` and its kin do not look), delete, link, unlink and edit; curricula are retired and
deleted. `Got` is the copy learners get, as `PublishedMerge` shows it, `Lost` the live rows of
another curriculum that a publish takes from them. The exceptions in the properties are real, each found by a
counterexample: a row put under a root after that root had left and been published elsewhere
(`summary_loss`); a third curriculum a row passed through and that still carries it; a curriculum
that publishes the same copy as the last time, which becomes the newest again, and is not in its
own diff.

**CurriculumTree.** `todo[p]` is what is left of request `p`: one awaited query after another, each
with its row; `mem[p]` the rows and numbers it holds as read. `FirstSteps` is the handler, and a
step may put others before the rest (`Continue`): `Regrade`, `Resum`, `Respread` are
`updateGradePoints`, `updateLevelPoints` and `updatelearningpracticequiz`. The saves the code does
not await (`forEach` with an async body, a `save` without `await`) are in `unsaved`; each lands at any time, or is lost without
anyone being told (`LoseSave`). A save of a row that equals what was read sends nothing. `reorder` checks
outside and writes inside a transaction: `draft[p]` is what it wrote and the row locks it
holds; two that hold what the other waits for are a deadlock, and one fails. The list is refused when an item of the
lesson is missing from it (`ListChildren`); a learning's list is compared both ways, while a practice or a quiz that left the lesson
after it was checked (`CheckChild`) goes unseen, and its update then matches no row (`Place`). The model has the items
of a lesson; reordering lessons and levels is the same function on another table.
`reach` and `clean` are history variables: the branch a request was on, and
whether anybody else was on it, or a save of its own failed. The branch grows when a row on it comes under another
(`Joined`): a request that has read a level still counts the grade it was under, and one that counts after the
move counts the new grade, so both are on both. Requests name rows that are there, or ids nobody has
(`AsksAssumption`: the scope checks before the handlers, the foreign keys, `uuidv4`), and every row's parent is there.

## The runs

| Run | Instance | Shows |
|---|---|---|
| `publish` | 3 publishes, a retire, a delete, 1 curriculum, 1 edit, 2 clock readings | type, order, retention, withdrawal, deletion, closedness, history |
| `initial` | 2 initial runs, a retire, 2 curricula, 1 edit, fair | all or nothing; every request ends, with no ring of locks |
| `delivery` | 2 publishes, a delete, an initial run, a read, 2 curricula, no edit | a read carries earlier acts, survives one publish, serves no deleted curriculum, serves an initial run whole |
| `published_merge` | 3 curricula, 6 rows of which a grade and a question are shared, 2 times, 1 language | newest copy, translations, closedness |
| `push` | 2 acts, a manual re-push, 1 restart, fair | one in flight, carries the act, learners have it, at most two pushes before an answer, every act is answered, going back, refinement of `PushContract` |
| `summary` | 3 curricula, 2 grades, a level, a lesson, a question in baselines and practices; 3 edits, 3 publishes | losses are named, what is named is lost, the reach of shared rows is listed |
| `tree` | 2 grades, 3 levels, 3 lessons, 5 items, 2 quiz questions; 19 scenarios of 2 or 3 requests, 1 failure | an undisturbed request leaves its branch right; reorders are not mixed |
| `schools` | 2 schools, 3 spellings of 2 names, 7 scenarios of 2 to 4 requests, fair | type, names agree, put where named, a learner and login together, rings need a move (or are of refreshes), every request ends |
| `deleted_published`, `moved_twice`, `summary_loss`, `tree_points` | the smallest that show it | [what disagrees](#what-disagrees) |

**Bounds.** Three publishes are the fewest for retention to prune (the third prunes the first) and
for a conflict to follow a conflict; one edit separates an older read from a newer one; two clock
readings give a clock that moves, stands still and steps back. Two curricula are the fewest for
an initial run to lock in a ring or to publish a part. Two publishes and an initial run give one
curriculum the three publications that a read needs to begin with one and lose it to two.
Three acts are the fewest for one push in flight, one shared, and one act joining the shared one.
The scenarios of `schools` (`MCSchoolNames`) are the sets of requests that can touch one another: a
rename with an enrolment, a hiring and a move (`RenameAndWriters`); two renames that swap names with
two moves of the same two learners both ways (`RenamesAndMoves`); two edits of one school, one that
keeps the name (`TwoRenames`); a rename and a deletion with an enrolment and a class
(`RenameAndDelete`); an enrolment with a move that names the new learner (`EnrolAndMove`); the fees
requests with both (`FeesAndRename`), over two fees rows of one school; two refreshes of these with a rename
(`TwoRefreshes`). A request whose ask is `None`
is not made in that scenario. One school has rows and the other none, or gets them by a move; two
learners are the fewest for two moves to lock in a ring, and two fees rows for two refreshes.
One restart suffices: a second finds the same states.
Three curricula in `summary` are one that loses a row, one that gets it and one it passed through;
three publishes give each its own or one of them a diff with its own; three edits are a move, a
second move and a change. The scenarios of `tree` (`Pairs`, `Triples` in `MCCurriculumTree`) are the
pairs of requests that touch one branch, two triples in which two overlap and a third mends it, and one
in which a request moves a row that another has read, to where a third is;
a total of 5 over three items leaves a remainder, which is where the shares are saved twice. One
failure is any query or save of one request.
`MaxVersion`, `MaxClock`, `MaxRestarts`, `MaxFailures`, `MaxEdits` and `MaxPublications` are the
only bounds, each in the guards of the actions it counts, and the proofs hold for all their values. `CHECK_DEADLOCK FALSE` is set since requests run once and then the
system may rest.

**Symmetry** is over the publishing requests of one kind, and in `summary` over curricula, grades and texts;
where curricula are locked in order they are not symmetric. No liveness run uses it.

**Fairness.** `CurriculumPublication!FairSpec`: weak fairness of each request's steps: a query is
answered, and a lock that stays free is granted (InnoDB queues waiters; with at most one holder a
waiter's step stays enabled once the holders have ended, which is all that is used). Neither
edits nor failures are owed. `PublishPush!FairSpec`: weak fairness of the whole
of `Progress`: as long as a promise can resume, a build or a send can end, one of them does; a send
ends because of `PUSH_TIMEOUT_MS`, and nothing is asked of the student server.
`SchoolNames!FairSpec`: weak fairness of the whole of `Progress`, which is less than fairness of each
request: as long as some query can be answered, some lock granted or some ring broken, one is. It
is enough since no step can be repeated for ever, so no request can be passed over for ever.

**Mutants.** Each module holds, next to a definition, a variant that a plausible mistake would
make of it (`RetainedOne`, `StartOwnAlways`, ...). They are not used by any specification; each
shows, put in place of its original, that a property would notice.

## The proofs

TLC checks small instances; these hold for every value of the constants.

`CurriculumPublicationProofs`: `Spec => []TypeOK`, `[]NewestReadIsNewest`,
`[]LatestIsNeverATie`, `[]StoredIsClosed`, `[]WithdrawnTogether`, `[]LatestTwoAreWhole`,
`[]InitialIsAllOrNothing`, `HistoryIsKept`, and
`[]DeletedNotPublished` when `Initials = {}` (with an initial run it is false). All follow from one
inductive invariant `IInv`. `NewestReadIsNewest` is not inductive: it says nothing of the copies
still in the hands of waiting requests. `IInv` adds to it, in named parts, that what a request has
read is no newer than what is live, that a request that noted publication `p` has, once it has
read, read no less than `p` carries as long as `p` is still the latest, that a request in its
critical section holds its lock, that rows an initial run has pending are for curricula it has
locked and found unpublished, and that times order the rows of a curriculum strictly. The step that
matters is `CommitPublish`: `Unmoved` turns "no less than the publication noted" into "no less
than the latest". Retention is by position; for it the invariant says instead that a publication keeps
its payload exactly while at most one of its curriculum is later, which a step can be checked against one row
at a time. For the initial run `PlanFacts` says that every curriculum it found live is in its plan or has a
publication, which it keeps for ever; the commit publishes the whole plan at once.

`ContentDeliveryProofs`: `[]ReadersTypeOK`, `[]DeletedIsNotServed`, `[]CarriesEarlierActs`,
`[]OnePublishIsSurvived`, `[]InitialIsServedWhole`, for any number of readers. Reads write nothing, so the store under them is a
behaviour of `CurriculumPublication` and its theorems hold in `ContentDelivery` (`StoreIsUndisturbed`). `DInv` says, per
read, that what stood when it began is still there, for history is kept and deletions are final (`Kept`); what its
light query found is of the latest publication then (`Found`); nothing that stood published is passed over unless deleted
(`Covered`). A read is refused for a payload that is gone: the publication it found was among the latest two
when found, so two later ones stand between (`Overtaken`), which `OnePublishIsSurvived` counts. A publication that is served
stood when the read began (`Traced`); an initial run of which any row stood then was over, and whatever it had found live
stood published or withdrawn (`WholeStood`, from the store's own invariant), so it is served unless deleted.

`CurriculumTreeProofs`: `[]ListsAreNotMixed`, for any tree, items and requests. What a reorder has placed is locked, of the
lesson and kind it is to reorder, and at its place in that list (`Drafted`); what a committed list still
names is of that list's lesson and kind (`Listed`), so a reorder of other items cannot touch it. Counting points
again writes the same rows without a list; that it never holds orders is said of what is left of every request (`Todos`).
Also `[]TypeOK`, from `TInv`. A save writes what its request holds from earlier reads, so `TypeOK` alone is not inductive:
nothing in it says that the sum about to be saved is a number. `Steps` says that what is left of a request is a chain, in which a
step that uses a read comes right after it, of the same row (`Follows`), and that each step is of a row that is there
(`Apt`); `InHand` says what the request holds at the step it is about to take (`HoldsAt`): the row it read, of the table its request is about, the lesson it
counts for, the level and the sum it saves; `Rooted` are the foreign keys, which nothing breaks since rows of lessons and levels are never
removed, only marked deleted. Each action takes the next step of the chain or puts sound steps before the rest (`GoesOn`, `GoesTo`).
That a sum of points is a number is proved from the definition of the fold: among the sets on which it is not there would be a
smallest one (`SmallestSet`, from the well-foundedness of subsets of a finite set), and the fold takes an element off it.

`CurriculumTreeTotals`, with the last part of `CurriculumTreeProofs`: `[]RightWhenUndisturbed`, for any tree, requests and number of
failures. The property speaks of the end of a request only; the invariant has two halves.
`BInv` is of all requests. What a request is about, what it holds, what is left of it and what it has sent to save is on its
branch (`Inside`, `SaveOn`); a branch goes up to the grades (`Closed`) and grows when a row of it is moved (`Joined`), which
is why `reach` is recorded; so a step changes rows of its own request's branch only (`Acts`, proved of every
action), and who is clean shares its branch with nobody who has anything to do (`Alone`). Hence whatever the
others do, the rows of a clean request's branch are as it left them (`OthersStill`, `OthersClean`).
`Cleans` is of the clean ones. What it has read is as it is in the tables (`Knows`): the lesson it spreads and the items
counted so far, the level and the sum it is to save; what it is to read again is as it was listed
(`Ahead`); and every row it counts is right, or a step that counts it is left (`Owing`). A step that writes
must leave one behind for what it spoils: a lesson's total spoils its level, a level's points its grade. No
lesson is counted again after it was counted, quiz points are set before any lesson is (`Once`), and once its items are counted a
lesson is spread over them up to the last (`Leads`). At the end no step is left, so
all it counts is right. A lesson is the hard case, for its last saves are not awaited: `Done` says which of
the shares' save, the remainder's and the last item's are still under way and what the row has of those that landed,
in either order. When all have landed, the items of a kind are worth the share or the share and the remainder, and
together the lesson's total; the sums are counted by kind (`SameForEach`, `OneHasMore`, `ItemsNum`).

`PublicationSummaryProofs`: `[]TypeOK`, `LossesAreNamed`, `NamedIsLost`, `ReachIsListed`, for any trees, curricula,
bank and bounds. The invariant is the type and that publications are records (`Shape`); the argument
is in the one step. A row that is lost was sent by the publishing curriculum only, so it is in its base
and not in its copy: removed. It hangs from a chain of at most three rows, in a curriculum that does not
send it; the topmost removed row of the chain is a root of what was removed, and either it is named, or
the other curriculum carries it and it is still sent. The cases go tier by tier.

`PublishPushProofs`: `[]TypeOK`, `[]OneInFlight`, `[]PushCarriesAct`, `[]LearnersHaveIt`,
`[]AtMostTwoPushes`, `OnlyAbandonedGoesBack`, and that `PublishPush` implements `PushContract`
(`LanesKeepTheContract`), for any acts and any number of restarts. `IInv` has five parts beside the type. `Lane`: what is
in flight is what the lane serves, what waits is what it keeps, and a push is kept only behind one
that is served; so the next to start never meets another. `Asked`: an act before its turn has no push, so a
push started for it was never used. `Versions`: nothing is newer than the store, and a set that is sent is
no older than what its acts committed. `Server`: the set being sent is the newest the student
server has seen or still imports, and each request it still has is that one or was given up on, so only these can take
learners back. `Endings`: an act behind a push in flight has seen no other end. The refinement maps each end of a
push to `Settle` with the acts that joined it, of which there is one at least (the act it is named after), and
a turn to `Ask`, with the start of the push when there was no lane.

`PublishedMergeProofs`: `[]TypeOK`, `[]NewestCopyWins`, `[]TextsFollowTheirRow`, `[]ConfineFindsNothing`, from
`MInv`: the winner of a row is the newest *visited* publication that holds it. For the last, a row's
parent and references are in the winner's copy, hence held by some publication, hence won by
one, hence merged; so every merged row is in the greatest rooted set, and nothing dangles.

`SchoolNamesProofs`: `[]TypeOK`, `[]NamesAgree`, `[]PutWhereNamed`, for any schools, spellings,
`Normal`, rows and requests. `NamesAgree` speaks of committed rows only and is not inductive. `IInv`
adds what makes a commit safe: a request that has a copy in hand or in its draft still shares the
copy's school, nobody shares a school that is being renamed (`Locking`), so a copy in hand is current
(`Copying`); and while a rename is in its cascade each row of its school is in its draft, or in a table
the cascade has yet to finish (`CascadeReaches`). Fees rows made meanwhile are left out of `NamesAgree` and of these parts: they are
inserted with the name the client was shown, under no lock. At a rename's commit the last leaves no row out,
and the first two say that no other request holds a copy of the name that changes; at a writer's
commit they say that no row is added to a school under a rename.

The same module: `[]RingsNeedAMove`, and `[]LoginFollowsLearner` if no move names a learner twice
(`MovesNameOnce`). Both rest on `RowsKept`, which says of every request which rows its transaction holds and
why nobody else can hold them. A request that has written nothing yet has no draft (`OneDraft`,
`Stations`); what a create writes is a row that is not there, of no other request (`StillNew`, `OthersDraft`), so nobody
waits for it; a rename and a refresh of fees rewrite rows that are there, of a school they have locked
(`RewritesRows`, `RenamesAlone`); a refresh saves rows it found there, of the school it shares (`RefreshesOwn`). So only two
refreshes of one school meet on a row, each having saved what the other is to save, and they wait for nobody else. Any other
ring without a move would be of requests that wait for schools only, and whoever holds a school in such a ring waits for nothing. For the second, a learner
and its login are followed to the commit: an enrolment writes the login first and both in one
commit (`EnrolsBoth`); a move that is between the two rows has the learner in its draft (`HalfMoved`), keeps both at once
after that (`Followed`, `MovesBoth`), and what it leaves unsaved (`NothingToSave`) is as it is to be,
because the learner's row that it holds keeps other moves of the learner out. The hypothesis cannot be
dropped: `moved_twice` is a file that names a learner twice, and there the property is false.

Assumptions are the named ones of the modules: the kinds of request are disjoint, curricula are a
finite set of naturals (their order is the lock order), publications are closed copies,
a request by name names a text and a request by id a school, fees rows are finitely many. `RowsAssumption` says which rows a request
of `SchoolNames` names: a create, and a fees row, one of an id that is nowhere (`uuidv4` in the handler); an enrolment the
login in an earlier line than its learner, all of one school (`createall`); a move a learner and then its login;
and that learners there at first have a login of their school, as every create leaves them.
Those of `CurriculumTree` are its types, finite tables and the ones its paragraph above names. TLC evaluates all of them in every run.

Every invariant and every action property a passing run checks is proved. Liveness (`EveryRequestEnds`,
`EveryActIsAnswered`) is beyond the prover, which has no `ENABLED`, and stays with TLC; so does induction over
data.

## What disagrees

Each is a run that TLC is expected to refute (`PROJECT.json`, `findings`).

- `deleted_published`: `publishInitial` locks the curricula without looking again at `isdeleted`; a
  delete in between leaves a deleted curriculum `published`. Learners are not affected
  (`DeletedIsNotServed` in `delivery`).
- `moved_twice`: one file moves a learner and, in a later line, moves the learner back. The second
  time the login is read as committed, equals what is to be saved, and is not written: learner and
  login part.
- `tree_points`: `level.business.ts` says that a level's points are the sum of its lessons'. Two
  lessons of a level switched at once each count and then save; the one that counted first may save
  last, and the points are what no state of the lessons gave, until something counts again.
- `summary_loss`: a publish says which subtrees it takes from learners because they live in a
  curriculum that does not carry them. A grade moves to B, B is published, then a level of A is put under that grade.
  A's publish removes both; the grade is skipped, for B carries it, and the level is skipped, for its parent was
  removed too; B's publication has no such level, and learners lose it unannounced.

Four more disagreements or gaps have no run of their own (`hazards` in `PROJECT.json` has each): a new fees row keeps the name its client was shown when a
rename commits in between; a school deleted between the count of its learners and the delete keeps
a learner enrolled then; a publish that began before a retire and commits after it publishes the
curriculum again; two publishes between the queries of a read make it report a broken store
(`OnePublishIsSurvived` says how far reads go).

## What is not modelled

`PROJECT.json` lists every component with the reason. In the modelled ones: the counts and names of the
publication summary, the comparison with what was withdrawn and the overview that reads it; the
connection pool; the live tables a read adds to the published ones, and the language filter of
the translations; the wording of outcomes. A payload is read table by table, so it need not be the
content of any one moment; it is closed (`StoredIsClosed`), and no more is claimed. Of schools: their
creation, labels and branding; which organisation may name which school (`Candidates` is among the
caller's own); a learner's class, curriculums and soft deletion; InnoDB's gap locks and the order of
its lock queues (any waiter may be next). Of the tree: texts, status and the rows no points hang on. Restoring a deleted curriculum has no operation in the
code.

Most of the code is outside every module: reports (queries that read), controllers and route policies
(validation and mapping of one request), generated models and migrations, scripts that build content,
CRUD of single rows. They keep no state of their own across requests, or are decisions over one request;
a model would restate them.

## The plan

1. Done: publication, delivery, merge, push and its contract, schools and the copies of their names, the curriculum
   tree, what a publish answers; their proofs as listed.
2. The bank: tag lists and the deletion of a tag in use; attach rows.
3. A composition of `PublishPush` with `ContentDelivery` in place of its atomic `Build`.
