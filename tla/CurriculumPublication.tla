------------------------ MODULE CurriculumPublication ------------------------
(***************************************************************************)
(* The publications of an organisation's curricula: publishing, retiring,  *)
(* deleting and the initial publication of a deployment, as they run       *)
(* concurrently against one MySQL store                                    *)
(* (src/src/business/curriculum-publication.ts, publication-withdraw.ts,   *)
(* initial-publication.ts, curriculum.business.ts).                        *)
(*                                                                         *)
(* A request is a process that runs once, one action per awaited query (or *)
(* per group of queries that cannot be told apart).  Requests interleave   *)
(* with each other and with the editors of the live content.  Content is   *)
(* abstracted to versions: `bank` counts the changes to the questions and  *)
(* documents, tree[c] those to the rows of curriculum c, and a tree at     *)
(* version v names bank rows up to version v.  So a copy of the content is *)
(* closed (it names no row it lacks) exactly when its tree is not ahead of *)
(* its bank.                                                               *)
(***************************************************************************)
EXTENDS Naturals, FiniteSets

CONSTANTS
    Publishers,    \* publish requests
    Retirers,      \* retire requests
    Deleters,      \* delete requests
    Initials,      \* runs of publish:initial
    Curricula,     \* the organisation's curricula, named by their order of id
    MaxVersion,    \* bound: how often the editors change the live content
    MaxClock,      \* bound: the readings of the wall clock
    None           \* no publication noted, nobody holding a lock

Requests == Publishers \cup Retirers \cup Deleters \cup Initials
Versions == 0 .. MaxVersion

ASSUME BoundsAssumption == MaxVersion \in Nat /\ MaxClock \in Nat

ASSUME CurriculaAssumption == Curricula \subseteq Nat /\ IsFiniteSet(Curricula)

ASSUME RequestsAssumption ==
    /\ None \notin Requests
    /\ Publishers \cap Retirers = {}
    /\ Publishers \cap Deleters = {}
    /\ Publishers \cap Initials = {}
    /\ Retirers \cap Deleters = {}
    /\ Retirers \cap Initials = {}
    /\ Deleters \cap Initials = {}

VARIABLES
    bank,          \* version of the live questions and documents
    tree,          \* version of the live rows of each curriculum
    deleted,       \* curricula whose row says isdeleted
    publications,  \* rows of curriculumpublications, by curriculum
    lock,          \* the transaction that holds each curriculum row FOR UPDATE
    pc,            \* where each request stands, or how it ended
    target,        \* the curriculum a publish, retire or delete names
    noted,         \* the publication a publish noted before it began to read
    got,           \* the content a publish or an initial run has read
    wanted,        \* the curricula an initial run has built payloads for
    base,          \* the clock reading an initial run dates its rows from
    pending        \* rows an initial run has written and not committed

content == <<bank, tree>>
store   == <<deleted, publications>>
vars    == <<bank, tree, deleted, publications, lock, pc, target, noted, got,
             wanted, base, pending>>

(***************************************************************************)
(* Rows of curriculumpublications                                          *)
(***************************************************************************)

Publication ==
    [ id : Requests,                       \* the request that made it
      at : Nat,                            \* publishedat
      status : {"published", "withdrawn"},
      bank : Versions, tree : Versions,    \* what its payload was built from
      payload : BOOLEAN,                   \* the payload is kept
      hashes : BOOLEAN ]                   \* the summary's hashes and names are kept

\* The first row of a read ordered by publishedat, descending.
Latest(S) == CHOOSE p \in S : \A q \in S : q.at <= p.at

LatestId(S) == IF S = {} THEN None ELSE Latest(S).id

StateOf(S) == IF S = {} THEN "never" ELSE Latest(S).status

\* What retention leaves of a publication: the row, and a slim summary.
Slimmed(p) == [p EXCEPT !.payload = FALSE, !.hashes = FALSE]

(***************************************************************************)
(* Plausible mistakes, each a variant of the definition it is named after: *)
(* what the properties below are there to catch.                           *)
(***************************************************************************)

NextTimeTies(S, now) ==
    IF S # {} /\ now < Latest(S).at THEN Latest(S).at ELSE now

NewDraft(r, c, at) ==
    [ id |-> r, at |-> at, status |-> "draft",
      bank |-> got[r].bank, tree |-> got[r].tree[c], payload |-> TRUE, hashes |-> TRUE ]

RetainedOne(S) == { Slimmed(p) : p \in S }

WithdrawnLatest(S) ==
    { IF p = Latest(S) THEN [p EXCEPT !.status = "withdrawn"] ELSE p : p \in S }

WithdrawnRemoved(S) == {}

ClosedUnchecked(copy, c) == TRUE

GoneUnchecked(c) == FALSE

UnmovedUnchecked(r) == TRUE

NextToLockUnordered(r) == wanted[r] \ { c \in Curricula : lock[c] = r }

AllWrittenUnawaited(r) == TRUE

\* Strictly after the latest publication, whatever the clock reads.
NextTime(S, now) ==
    IF S # {} /\ now <= Latest(S).at THEN Latest(S).at + 1 ELSE now

NewPublication(r, c, at) ==
    [ id |-> r, at |-> at, status |-> "published",
      bank |-> got[r].bank, tree |-> got[r].tree[c], payload |-> TRUE, hashes |-> TRUE ]

\* Everything but the row that was the latest loses its payload and hashes.
Retained(S) ==
    { IF S # {} /\ p = Latest(S) THEN p ELSE Slimmed(p) : p \in S }

Withdrawn(S) == { [p EXCEPT !.status = "withdrawn"] : p \in S }

\* confine would neither drop nor refuse a row of the copy.
Closed(copy, c) == copy.tree[c] <= copy.bank

\* `placed` is what the subjects, as they were read, say: the curricula whose
\* subject is a live one of the organisation.  Any other is refused, "names a
\* subject that has been deleted" or is not the organisation's.
Publishable(copy, c, placed) == c \in placed /\ Closed(copy, c)

(***************************************************************************)
(* Row locks                                                               *)
(***************************************************************************)

Free(c) == lock[c] = None

HeldBy(r) == { c \in Curricula : lock[c] = r }

Acquire(r, c) == Free(c) /\ lock' = [lock EXCEPT ![c] = r]

\* The end of a transaction, by commit or by rollback.
ReleaseAll(r) == lock' = [c \in Curricula |-> IF lock[c] = r THEN None ELSE lock[c]]

Goto(r, label) == pc' = [pc EXCEPT ![r] = label]

Ended == { "published", "conflict", "notfound", "refused", "never", "withdrawn",
           "deleted", "nothing", "failed" }

Labels == { "idle", "bank", "tree", "build", "lock", "commit", "write",
            "answer" } \cup Ended

NoContent == [ bank |-> 0, tree |-> [c \in Curricula |-> 0], live |-> {} ]

Init ==
    /\ bank = 0
    /\ tree = [c \in Curricula |-> 0]
    /\ deleted = {}
    /\ publications = [c \in Curricula |-> {}]
    /\ lock = [c \in Curricula |-> None]
    /\ pc = [r \in Requests |-> "idle"]
    /\ target \in [Requests \ Initials -> Curricula]
    /\ noted = [r \in Requests |-> None]
    /\ got = [r \in Requests |-> NoContent]
    /\ wanted = [r \in Requests |-> {}]
    /\ base = [r \in Requests |-> 0]
    /\ pending = [r \in Requests |-> [c \in Curricula |-> {}]]

(***************************************************************************)
(* Editors of the live content                                             *)
(***************************************************************************)

EditBank ==
    /\ bank < MaxVersion
    /\ bank' = bank + 1
    /\ UNCHANGED <<tree, store, lock, pc, target, noted, got, wanted, base, pending>>

EditTree(c) ==
    /\ tree[c] < bank
    /\ tree' = [tree EXCEPT ![c] = @ + 1]
    /\ UNCHANGED <<bank, store, lock, pc, target, noted, got, wanted, base, pending>>

(***************************************************************************)
(* Reading the content table by table, outside any transaction             *)
(***************************************************************************)

ReadBank(r) ==
    /\ pc[r] = "bank"
    /\ got' = [got EXCEPT ![r].bank = bank]
    /\ Goto(r, "tree")
    /\ UNCHANGED <<content, store, lock, target, noted, wanted, base, pending>>

ReadTree(r) ==
    /\ pc[r] = "tree"
    /\ got' = [got EXCEPT ![r].tree = tree, ![r].live = Curricula \ deleted]
    /\ Goto(r, "build")
    /\ UNCHANGED <<content, store, lock, target, noted, wanted, base, pending>>

(***************************************************************************)
(* publishCurriculum                                                       *)
(***************************************************************************)

BeginPublish(r) ==
    /\ r \in Publishers
    /\ pc[r] = "idle"
    /\ noted' = [noted EXCEPT ![r] = LatestId(publications[target[r]])]
    /\ Goto(r, "bank")
    /\ UNCHANGED <<content, store, lock, target, got, wanted, base, pending>>

\* payloadOf: 404 for a deleted curriculum, 400 for a copy that is not closed or
\* whose subject is not there to be published under.
BuildPayload(r) ==
    /\ r \in Publishers
    /\ pc[r] = "build"
    /\ \E placed \in SUBSET Curricula :
         \/ target[r] \notin got[r].live /\ Goto(r, "notfound")
         \/ /\ target[r] \in got[r].live
            /\ ~Publishable(got[r], target[r], placed)
            /\ Goto(r, "refused")
         \/ /\ target[r] \in got[r].live
            /\ Publishable(got[r], target[r], placed)
            /\ Goto(r, "lock")
    /\ UNCHANGED <<content, store, lock, target, noted, got, wanted, base, pending>>

\* What the locked row says.
Gone(c) == c \in deleted

\* The row is locked, or is found deleted and the transaction rolled back.
LockToPublish(r) ==
    /\ r \in Publishers
    /\ pc[r] = "lock"
    /\ \/ Acquire(r, target[r]) /\ ~Gone(target[r]) /\ Goto(r, "commit")
       \/ Free(target[r]) /\ Gone(target[r]) /\ Goto(r, "notfound")
          /\ UNCHANGED lock
    /\ UNCHANGED <<content, store, target, noted, got, wanted, base, pending>>

Unmoved(r) == LatestId(publications[target[r]]) = noted[r]

\* 409: the curriculum was published after this publish noted its latest.
RefusePublish(r) ==
    /\ r \in Publishers
    /\ pc[r] = "commit"
    /\ ~Unmoved(r)
    /\ ReleaseAll(r)
    /\ Goto(r, "conflict")
    /\ UNCHANGED <<content, store, target, noted, got, wanted, base, pending>>

CommitPublish(r) ==
    /\ r \in Publishers
    /\ pc[r] = "commit"
    /\ Unmoved(r)
    /\ \E now \in 0 .. MaxClock :
         LET S == publications[target[r]]
             new == NewPublication(r, target[r], NextTime(S, now))
         IN  publications' = [publications EXCEPT ![target[r]] = Retained(S) \cup {new}]
    /\ ReleaseAll(r)
    /\ Goto(r, "published")
    /\ UNCHANGED <<content, deleted, target, noted, got, wanted, base, pending>>

(***************************************************************************)
(* retireCurriculum                                                        *)
(***************************************************************************)

BeginRetire(r) ==
    /\ r \in Retirers
    /\ pc[r] = "idle"
    /\ Goto(r, "lock")
    /\ UNCHANGED <<content, store, lock, target, noted, got, wanted, base, pending>>

LockToWithdraw(r) ==
    /\ r \in Retirers \cup Deleters
    /\ pc[r] = "lock"
    /\ Acquire(r, target[r])
    /\ Goto(r, "commit")
    /\ UNCHANGED <<content, store, target, noted, got, wanted, base, pending>>

CommitRetire(r) ==
    /\ r \in Retirers
    /\ pc[r] = "commit"
    /\ publications' = [publications EXCEPT ![target[r]] = Withdrawn(@)]
    /\ ReleaseAll(r)
    /\ Goto(r, "answer")
    /\ UNCHANGED <<content, deleted, target, noted, got, wanted, base, pending>>

\* The state in the answer is read after the commit, outside the lock.
AnswerRetire(r) ==
    /\ r \in Retirers
    /\ pc[r] = "answer"
    /\ Goto(r, StateOf(publications[target[r]]))
    /\ UNCHANGED <<content, store, lock, target, noted, got, wanted, base, pending>>

(***************************************************************************)
(* deleteCurriculum                                                        *)
(***************************************************************************)

\* The live row is looked up before the transaction opens.
BeginDelete(r) ==
    /\ r \in Deleters
    /\ pc[r] = "idle"
    /\ Goto(r, IF target[r] \in deleted THEN "notfound" ELSE "lock")
    /\ UNCHANGED <<content, store, lock, target, noted, got, wanted, base, pending>>

CommitDelete(r) ==
    /\ r \in Deleters
    /\ pc[r] = "commit"
    /\ deleted' = deleted \cup {target[r]}
    /\ publications' = [publications EXCEPT ![target[r]] = Withdrawn(@)]
    /\ ReleaseAll(r)
    /\ Goto(r, "deleted")
    /\ UNCHANGED <<content, target, noted, got, wanted, base, pending>>

(***************************************************************************)
(* publishInitial: all the curricula that were never published, in one     *)
(* transaction                                                             *)
(***************************************************************************)

BeginInitial(r) ==
    /\ r \in Initials
    /\ pc[r] = "idle"
    /\ Goto(r, "bank")
    /\ UNCHANGED <<content, store, lock, target, noted, got, wanted, base, pending>>

Unpublished(S) == { c \in S : publications[c] = {} }

\* A payload per live curriculum with no publication; all or nothing.
PlanInitial(r) ==
    /\ r \in Initials
    /\ pc[r] = "build"
    /\ \E placed \in SUBSET Curricula :
         LET plan == Unpublished(got[r].live)
             refused == { c \in plan : ~Publishable(got[r], c, placed) }
         IN  /\ \/ plan = {} /\ Goto(r, "nothing")
                \/ refused # {} /\ Goto(r, "refused")
                \/ plan # {} /\ refused = {} /\ Goto(r, "lock")
             /\ wanted' = [wanted EXCEPT ![r] = plan]
    /\ UNCHANGED <<content, store, lock, target, noted, got, base, pending>>

\* The rows are locked one by one, in the order of their ids.
NextToLock(r) ==
    { c \in wanted[r] \ HeldBy(r) : \A d \in wanted[r] \ HeldBy(r) : c <= d }

LockToInitial(r) ==
    /\ r \in Initials
    /\ pc[r] = "lock"
    /\ \E c \in NextToLock(r) :
         /\ Acquire(r, c)
         /\ Goto(r, IF wanted[r] \ HeldBy(r) = {c} THEN "commit" ELSE "lock")
    /\ UNCHANGED <<content, store, target, noted, got, wanted, base, pending>>

\* Re-read under the locks: a curriculum that gained a publication is left alone.
CheckInitial(r) ==
    /\ r \in Initials
    /\ pc[r] = "commit"
    /\ wanted' = [wanted EXCEPT ![r] = Unpublished(@)]
    /\ \E now \in 0 .. MaxClock : base' = [base EXCEPT ![r] = now]
    /\ Goto(r, "write")
    /\ UNCHANGED <<content, store, lock, target, noted, got, pending>>

Written(r) == { c \in Curricula : pending[r][c] # {} }

AllWritten(r) == wanted[r] \subseteq Written(r)

\* One INSERT, visible to nobody before the commit, dated one after the last.
WriteInitial(r) ==
    /\ r \in Initials
    /\ pc[r] = "write"
    /\ \E c \in wanted[r] \ Written(r) :
         pending' = [pending EXCEPT ![r][c] =
             {NewPublication(r, c, base[r] + Cardinality(Written(r)))}]
    /\ UNCHANGED <<content, store, lock, pc, target, noted, got, wanted, base>>

CommitInitial(r) ==
    /\ r \in Initials
    /\ pc[r] = "write"
    /\ AllWritten(r)
    /\ publications' = [c \in Curricula |-> publications[c] \cup pending[r][c]]
    /\ pending' = [pending EXCEPT ![r] = [c \in Curricula |-> {}]]
    /\ ReleaseAll(r)
    /\ Goto(r, IF Written(r) = {} THEN "nothing" ELSE "published")
    /\ UNCHANGED <<content, deleted, target, noted, got, wanted, base>>

(***************************************************************************)
(* A query fails, the wait for a lock times out, or the process stops: the *)
(* request ends, and an open transaction is rolled back.                   *)
(***************************************************************************)

Fail(r) ==
    /\ pc[r] \notin Ended \cup {"idle"}
    /\ pending' = [pending EXCEPT ![r] = [c \in Curricula |-> {}]]
    /\ ReleaseAll(r)
    /\ Goto(r, "failed")
    /\ UNCHANGED <<content, store, target, noted, got, wanted, base>>

Step(r) ==
    \/ ReadBank(r) \/ ReadTree(r)
    \/ BeginPublish(r) \/ BuildPayload(r) \/ LockToPublish(r)
    \/ RefusePublish(r) \/ CommitPublish(r)
    \/ BeginRetire(r) \/ LockToWithdraw(r) \/ CommitRetire(r) \/ AnswerRetire(r)
    \/ BeginDelete(r) \/ CommitDelete(r)
    \/ BeginInitial(r) \/ PlanInitial(r) \/ LockToInitial(r) \/ CheckInitial(r)
    \/ WriteInitial(r) \/ CommitInitial(r)

Next ==
    \/ EditBank
    \/ \E c \in Curricula : EditTree(c)
    \/ \E r \in Requests : Step(r) \/ Fail(r)

Spec == Init /\ [][Next]_vars

\* A request that was received is run: its queries are answered, and a lock
\* that stays free is granted.  Nobody owes a failure or an edit.
FairSpec == Spec /\ \A r \in Requests : WF_vars(Step(r))

(***************************************************************************)
(* Properties                                                              *)
(***************************************************************************)

\* Every variable keeps its type; a held lock is held by a request.
TypeOK ==
    /\ bank \in Versions
    /\ tree \in [Curricula -> Versions]
    /\ deleted \in SUBSET Curricula
    /\ publications \in [Curricula -> SUBSET Publication]
    /\ lock \in [Curricula -> Requests \cup {None}]
    /\ pc \in [Requests -> Labels]
    /\ target \in [Requests \ Initials -> Curricula]
    /\ noted \in [Requests -> Requests \cup {None}]
    /\ got \in [Requests -> [ bank : Versions, tree : [Curricula -> Versions],
                              live : SUBSET Curricula ]]
    /\ wanted \in [Requests -> SUBSET Curricula]
    /\ base \in [Requests -> Nat]
    /\ pending \in [Requests -> [Curricula -> SUBSET Publication]]

\* "The newest publication is never an older read than the one before it"
\* (curriculum-publication.ts, publishCurriculum): a publication carries
\* nothing older than a publication of its curriculum dated before it, though
\* each was read before its lock was taken and the reads overlap.
NewestReadIsNewest ==
    \A c \in Curricula : \A p, q \in publications[c] :
        p.at < q.at => p.bank <= q.bank /\ p.tree <= q.tree

\* nextTime: no two publications of a curriculum share a publishedat, so
\* "the latest" that publish, retire and the sync go by is never a tie, even
\* when the clock stands still or steps back between two publishes.
LatestIsNeverATie ==
    \A c \in Curricula : \A p, q \in publications[c] : p.at = q.at => p = q

\* Retention of publishCurriculum: the latest two publications of a curriculum
\* keep their payload and hashes and no older one does, whatever order the
\* publishes came in, so the sync always finds the payload it is to serve.
LatestTwoAreWhole ==
    \A c \in Curricula : \A p \in publications[c] :
        /\ p.payload <=> Cardinality({ q \in publications[c] : p.at < q.at }) <= 1
        /\ p.hashes <=> p.payload

\* withdrawPublications: a curriculum whose latest publication is withdrawn
\* has no older publication left `published`, for a retire withdraws them all
\* and so does a delete.
WithdrawnTogether ==
    \A c \in Curricula :
        StateOf(publications[c]) # "published"
            => \A p \in publications[c] : p.status = "withdrawn"

\* deleteCurriculum: "a deleted curriculum is never left `published`", though
\* the publish that would do it had read the curriculum while it was live.
\* It holds among publishes, retires and deletes; publish:initial breaks it.
DeletedNotPublished ==
    \A c \in deleted : \A p \in publications[c] : p.status = "withdrawn"

\* confineCurriculumTables: a stored publication names no row it does not
\* carry, though its tables were read at different moments.
StoredIsClosed ==
    \A c \in Curricula : \A p \in publications[c] : p.tree <= p.bank

\* publishInitial, "all or nothing": when a run has published any curriculum,
\* every curriculum it found live has a publication, its own or another's.
InitialIsAllOrNothing ==
    \A r \in Initials :
        (\E c \in Curricula : \E p \in publications[c] : p.id = r)
            => \A c \in got[r].live : publications[c] # {}

KeepsHistory ==
    \A c \in Curricula : \A p \in publications[c] : \E q \in publications'[c] :
        /\ q.id = p.id /\ q.at = p.at /\ q.bank = p.bank /\ q.tree = p.tree
        /\ q.status \in {p.status, "withdrawn"}
        /\ q.payload => p.payload

\* A publication is history: no step removes its row, changes what it carried
\* or when it was made, publishes it again once withdrawn, or gives back a
\* payload that retention dropped.
HistoryIsKept == [][KeepsHistory]_vars

\* Every request that begins ends.  Two initial runs and a retire lock rows of
\* the same curricula, the runs several at a time and in the order of the ids:
\* each lock is released, and they never wait on each other in a ring.
EveryRequestEnds ==
    \A r \in Requests : pc[r] # "idle" ~> pc[r] \in Ended
=============================================================================
