----------------------------- MODULE SchoolNames -----------------------------
(***************************************************************************)
(* A school, and the copies of its name that its learners, logins, classes *)
(* and fees rows carry.  A rename rewrites the copies in its transaction;  *)
(* every writer of a copy reads the school under a shared lock in its own. *)
(*                                                                         *)
(* A request runs once.  A row a transaction wrote is locked, and seen by  *)
(* no one else, until the transaction ends: draft[p] holds what p wrote.   *)
(* A text is a school's name when the two are equal after Normal (trim,    *)
(* NFC, lower case), which is not equality: Texts has several spellings.   *)
(***************************************************************************)
EXTENDS Naturals, Sequences, FiniteSets

LOCAL INSTANCE SequencesExt

CONSTANTS
    Schools, Texts,
    Normal,             \* normaliseSchoolName, as a function on Texts
    People,             \* a person: a login, and a learner unless a teacher
    Classes, Fees,      \* rows of `standards`, of `schoolcontributedata`
    Renamers,           \* requests: PUT /school/update
    Enrollers,          \* POST /students/create
    Hirers,             \* POST /teachers/create: the school by name
    Movers,             \* PUT /students/update: rows of a file
    Classers,           \* create or edit a class
    FeeMakers,          \* POST /school-contribute/create
    Refreshers,         \* PUT /school-contribute/updateschoolname
    Deleters,           \* DELETE /school
    Asks,               \* what the requests may ask: functions on Requests,
                        \* None for one that is never made
    FirstName, Home,    \* the schools' names and the rows' schools at first
    None

Tables == <<"students", "schoolusers", "standards", "schoolcontributedata">>

Keys == ({"students", "schoolusers"} \X People)
            \cup ({"standards"} \X Classes)
            \cup ({"schoolcontributedata"} \X Fees)

(* The two rows of a person: the learner and the login.                    *)
Student(x) == <<"students", x>>
Login(x) == <<"schoolusers", x>>

Copies == [school : Schools, name : Texts]

Writers == Enrollers \cup Hirers \cup Movers \cup Classers
Requests == Writers \cup Renamers \cup FeeMakers \cup Refreshers \cup Deleters

(* One line of a writer's request: a school, by id or by name, and the     *)
(* rows to be written with that school, in order.                          *)
Lines == [given : Schools \cup Texts, keys : Seq(Keys)]

SchoolNamesAssumption ==
    /\ Schools \cap Texts = {}
    /\ None \notin Schools \cup Requests \cup Copies
    /\ Normal \in [Texts -> Texts]
    /\ FirstName \in [Schools -> Texts]
    /\ Home \in [Keys -> Schools \cup {None}]
    /\ Renamers \cap (Writers \cup FeeMakers \cup Refreshers \cup Deleters) = {}
    /\ Writers \cap (FeeMakers \cup Refreshers \cup Deleters) = {}
    /\ FeeMakers \cap (Refreshers \cup Deleters) = {}
    /\ Refreshers \cap Deleters = {}
    /\ (Hirers \cup Movers) \cap (Enrollers \cup Classers) = {}
    /\ Movers \cap Hirers = {} /\ Enrollers \cap Classers = {}
    /\ IsFiniteSet(Fees)

(* What the validators let through: a school by id or by name, and rows.   *)
AsksAssumption ==
    \A a \in Asks : \A p \in Requests : a[p] # None =>
        /\ p \in Writers =>
              /\ a[p] \in Seq(Lines) /\ a[p] # <<>>
              /\ \A i \in DOMAIN a[p] :
                    /\ a[p][i].keys # <<>>
                    /\ p \in Hirers \cup Movers => a[p][i].given \in Texts
                    /\ p \in Enrollers \cup Classers => a[p][i].given \in Schools
        /\ p \in Renamers => a[p] \in [school : Schools, text : Texts]
        /\ p \in FeeMakers => a[p] \in [school : Schools, fee : Fees]
        /\ p \in Refreshers \cup Deleters => a[p] \in [school : Schools]

(* The rows that a writer's request names.                                 *)
RowsOf(lines) ==
    UNION {{lines[i].keys[j] : j \in DOMAIN lines[i].keys} : i \in DOMAIN lines}

Creators == Enrollers \cup Hirers

(* Which rows a request names.  The rows of a create, and a fees row, get  *)
(* ids no row has (uuidv4) in the handler; an enrolment writes the logins  *)
(* before the learners, all of one school; a move writes a learner, then   *)
(* the login; a class is one row.  A learner that is there at first has a  *)
(* login, of the same school.                                              *)
RowsAssumption ==
    /\ \A a \in Asks : \A p \in Requests : a[p] # None =>
        /\ p \in Creators =>
              /\ \A k \in RowsOf(a[p]) : Home[k] = None
              /\ \A q \in Creators \ {p} :
                    a[q] # None => RowsOf(a[p]) \cap RowsOf(a[q]) = {}
        /\ p \in Hirers => RowsOf(a[p]) \subseteq {Login(x) : x \in People}
        /\ p \in Enrollers =>
              /\ RowsOf(a[p]) \subseteq {Student(x) : x \in People} \cup {Login(x) : x \in People}
              /\ \A i \in DOMAIN a[p] : a[p][i].given = a[p][1].given
              /\ \A i \in DOMAIN a[p] : \A j \in DOMAIN a[p][i].keys : \A x \in People :
                    a[p][i].keys[j] = Student(x) =>
                        \E h \in DOMAIN a[p] :
                            h < i /\ \E l \in DOMAIN a[p][h].keys : a[p][h].keys[l] = Login(x)
        /\ p \in Movers =>
              \A i \in DOMAIN a[p] : \E x \in People : a[p][i].keys = <<Student(x), Login(x)>>
        /\ p \in Classers =>
              Len(a[p]) = 1 /\ \E c \in Classes : a[p][1].keys = <<<<"standards", c>>>>
        /\ p \in FeeMakers =>
              /\ Home[<<"schoolcontributedata", a[p].fee>>] = None
              /\ \A q \in FeeMakers \ {p} : a[q] # None => a[q].fee # a[p].fee
    /\ \A x \in People : Home[Student(x)] # None => Home[Login(x)] = Home[Student(x)]

ASSUME SchoolNamesAssumed == SchoolNamesAssumption /\ AsksAssumption /\ RowsAssumption

VARIABLES
    school,     \* school[s]: the committed `schools.schoolname`
    deleted,    \* the schools with `isdeleted`
    row,        \* row[k]: the committed copy of a row, None: no such row
    draft,      \* draft[p]: the rows p wrote and has not committed
    sharing,    \* sharing[s]: the holders of the shared lock on a school
    renaming,   \* renaming[s]: the holder of the update lock, or None
    pc, ask,
    seen,       \* seen[p]: the names in the snapshot p reads without a lock
    copy,       \* copy[p]: the school p resolved last
    turn,       \* turn[p]: the line p is at; of a rename, the table
    at,         \* at[p]: the row of the line p is at; of a refresh, of what it found
    found       \* found[u]: the fees rows a refresh found, in the order it saves them

vars == <<school, deleted, row, draft, sharing, renaming, pc, ask, found, seen, copy, turn, at>>

Ends == {"done", "refused", "failed"}
Steps == Ends \cup
    {"begin", "check", "resolve", "write", "commit", "lock", "cascade",
     "read", "insert", "share", "find", "refresh", "count", "delete"}

FirstStep(p) ==
    CASE p \in Writers    -> "begin"
      [] p \in Renamers   -> "lock"
      [] p \in FeeMakers  -> "read"
      [] p \in Refreshers -> "share"
      [] p \in Deleters   -> "count"

NoRows == [k \in {} |-> None]

(* f, with g where g is defined.                                           *)
Overlay(f, g) ==
    [k \in DOMAIN f \cup DOMAIN g |-> IF k \in DOMAIN g THEN g[k] ELSE f[k]]

Init ==
    /\ school = FirstName
    /\ deleted = {}
    /\ row = [k \in Keys |-> IF Home[k] = None THEN None
                             ELSE [school |-> Home[k], name |-> FirstName[Home[k]]]]
    /\ draft = [p \in Requests |-> NoRows]
    /\ sharing = [s \in Schools |-> {}]
    /\ renaming = [s \in Schools |-> None]
    /\ ask \in Asks
    /\ pc = [p \in Requests |-> IF ask[p] = None THEN "done" ELSE FirstStep(p)]
    /\ seen = [p \in Requests |-> FirstName]
    /\ copy = [p \in Requests |-> None]
    /\ turn = [p \in Requests |-> 1]
    /\ at = [p \in Requests |-> 1]
    /\ found = [p \in Requests |-> <<>>]

-----------------------------------------------------------------------------
(* Locks, and the end of a transaction                                     *)

Shareable(s) == renaming[s] = None
Lockable(s) == renaming[s] = None /\ sharing[s] = {}
Share(p, s) == sharing' = [sharing EXCEPT ![s] = @ \cup {p}]

(* The transactions that have written a row and not ended.                 *)
Holders(k) == {q \in Requests : k \in DOMAIN draft[q]}
Free(p, k) == Holders(k) \subseteq {p}

(* The transaction of p ends: its locks are released, its rows forgotten.  *)
End(p, how) ==
    /\ pc' = [pc EXCEPT ![p] = how]
    /\ draft' = [draft EXCEPT ![p] = NoRows]
    /\ sharing' = [s \in Schools |-> sharing[s] \ {p}]
    /\ renaming' = [s \in Schools |-> IF renaming[s] = p THEN None ELSE renaming[s]]
    /\ UNCHANGED <<deleted, ask, found, seen, copy, turn, at>>

(* The handler throws without rolling back: the connection keeps its locks.*)
RollbackForgotten(p, how) ==
    /\ pc' = [pc EXCEPT ![p] = how]
    /\ UNCHANGED <<school, deleted, row, draft, sharing, renaming, ask, found, seen, copy, turn, at>>

Rollback(p, how) == End(p, how) /\ UNCHANGED <<school, row>>

Commit(p) ==
    /\ pc[p] = "commit"
    /\ row' = Overlay(row, draft[p])
    /\ school' = IF p \in Renamers
                 THEN [school EXCEPT ![ask[p].school] = ask[p].text] ELSE school
    /\ End(p, "done")

(* A query fails: a lost connection, a lock wait timeout.                  *)
Fail(p) == pc[p] \notin Ends /\ Rollback(p, "failed")

-----------------------------------------------------------------------------
(* Writers: learners, teachers, moves, classes                             *)

Line(p) == ask[p][turn[p]]

(* The rows a move names are all there.                                    *)
Known(p) == \A k \in RowsOf(ask[p]) : row[k] # None

(* The first plain read of a writer, which fixes what its other plain      *)
(* reads see, of the learners that a move looks for too.  Only an          *)
(* enrolment reads whether the school is deleted.                          *)
Begin(p) ==
    /\ pc[p] = "begin"
    /\ p \in Enrollers => ask[p][1].given \notin deleted
    /\ p \in Movers => Known(p)
    /\ seen' = [seen EXCEPT ![p] = school]
    /\ pc' = [pc EXCEPT ![p] = IF p \in Movers THEN "check" ELSE "resolve"]
    /\ UNCHANGED <<school, deleted, row, draft, sharing, renaming, ask, found, copy, turn, at>>

RefuseDeleted(p) ==
    /\ pc[p] = "begin" /\ p \in Enrollers
    /\ ask[p][1].given \in deleted
    /\ Rollback(p, "refused")

(* A file that names a learner who is not there changes nothing.           *)
RefuseUnknown(p) ==
    /\ pc[p] = "begin" /\ p \in Movers
    /\ ~Known(p)
    /\ Rollback(p, "refused")

(* The schools a line may mean: the school with the id, or those whose     *)
(* name in the snapshot is the name given.                                 *)
Candidates(p) ==
    IF Line(p).given \in Schools THEN {Line(p).given}
    ELSE {s \in Schools : Normal[seen[p][s]] = Normal[Line(p).given]}

(* Does the locked row still bear the name given?                          *)
Bears(s, given) == given \in Texts => Normal[school[s]] = Normal[given]

(* The locked row is not compared with the name given.                     *)
ResolvedUnchecked(p, s) == Candidates(p) = {s} /\ Shareable(s)

(* The one candidate, under a shared lock, still bears the name given.     *)
Resolved(p, s) ==
    /\ Candidates(p) = {s}
    /\ Shareable(s)
    /\ Bears(s, Line(p).given)

(* A move first resolves the school of every line and writes nothing.      *)
Check(p) ==
    /\ pc[p] = "check"
    /\ \E s \in Schools : Resolved(p, s) /\ Share(p, s)
    /\ IF turn[p] < Len(ask[p])
       THEN turn' = [turn EXCEPT ![p] = @ + 1] /\ UNCHANGED pc
       ELSE turn' = [turn EXCEPT ![p] = 1] /\ pc' = [pc EXCEPT ![p] = "resolve"]
    /\ UNCHANGED <<school, deleted, row, draft, renaming, ask, found, seen, copy, at>>

(* The school is read without a lock.                                      *)
ResolveUnlocked(p) ==
    /\ pc[p] = "resolve"
    /\ \E s \in Schools :
          /\ Candidates(p) = {s}
          /\ copy' = [copy EXCEPT ![p] = [school |-> s, name |-> seen[p][s]]]
    /\ pc' = [pc EXCEPT ![p] = "write"]
    /\ UNCHANGED <<school, deleted, row, draft, sharing, renaming, ask, found, seen, turn, at>>

Resolve(p) ==
    /\ pc[p] = "resolve"
    /\ \E s \in Schools :
          /\ Resolved(p, s) /\ Share(p, s)
          /\ copy' = [copy EXCEPT ![p] = [school |-> s, name |-> school[s]]]
    /\ pc' = [pc EXCEPT ![p] = "write"]
    /\ UNCHANGED <<school, deleted, row, draft, renaming, ask, found, seen, turn, at>>

(* No school, more than one, or one that was renamed since the snapshot.   *)
RefuseSchool(p) ==
    /\ pc[p] \in {"check", "resolve"}
    /\ \/ Cardinality(Candidates(p)) # 1
       \/ \E s \in Schools : /\ Candidates(p) = {s} /\ Shareable(s)
                             /\ ~Bears(s, Line(p).given)
    /\ Rollback(p, "refused")

(* The next row of the line, a login without the transaction.              *)
WriteLoginAtOnce(p) ==
    LET k == Line(p).keys[at[p]]
        last == at[p] = Len(Line(p).keys)
    IN  /\ pc[p] = "write"
        /\ Free(p, k)
        /\ IF k[1] = "schoolusers"
           THEN row' = [row EXCEPT ![k] = copy[p]] /\ UNCHANGED draft
           ELSE /\ draft' = [draft EXCEPT ![p] = Overlay(@, [x \in {k} |-> copy[p]])]
                /\ UNCHANGED row
        /\ at' = [at EXCEPT ![p] = IF last THEN 1 ELSE @ + 1]
        /\ turn' = [turn EXCEPT ![p] = IF last /\ @ < Len(ask[p]) THEN @ + 1 ELSE @]
        /\ pc' = [pc EXCEPT ![p] = IF ~last THEN "write"
                                   ELSE IF turn[p] < Len(ask[p]) THEN "resolve"
                                   ELSE "commit"]
        /\ UNCHANGED <<school, deleted, sharing, renaming, ask, found, seen, copy>>

(* The login of a learner who moves is read without the transaction, and   *)
(* saved only if it differs from what was read.                            *)
NothingToSave(p, k) == p \in Movers /\ k[1] = "schoolusers" /\ row[k] = copy[p]

(* The next row of the line; after the last, the next line.                *)
Write(p) ==
    LET k == Line(p).keys[at[p]]
        last == at[p] = Len(Line(p).keys)
    IN  /\ pc[p] = "write"
        /\ IF NothingToSave(p, k)
           THEN UNCHANGED draft
           ELSE /\ Free(p, k)
                /\ draft' = [draft EXCEPT ![p] = Overlay(@, [x \in {k} |-> copy[p]])]
        /\ at' = [at EXCEPT ![p] = IF last THEN 1 ELSE @ + 1]
        /\ turn' = [turn EXCEPT ![p] = IF last /\ @ < Len(ask[p]) THEN @ + 1 ELSE @]
        /\ pc' = [pc EXCEPT ![p] = IF ~last THEN "write"
                                   ELSE IF turn[p] < Len(ask[p]) THEN "resolve"
                                   ELSE "commit"]
        /\ UNCHANGED <<school, deleted, row, sharing, renaming, ask, found, seen, copy>>

-----------------------------------------------------------------------------
(* A rename, and its cascade to the four tables                            *)

(* The school is read under a shared lock, upgraded to save it.            *)
LockSchoolUpgraded(r) ==
    LET s == ask[r].school IN
    /\ pc[r] = "lock"
    /\ s \notin deleted
    /\ Shareable(s)
    /\ IF r \in sharing[s]
       THEN /\ sharing[s] = {r}
            /\ renaming' = [renaming EXCEPT ![s] = r]
            /\ pc' = [pc EXCEPT ![r] = IF school[s] # ask[r].text THEN "cascade" ELSE "commit"]
            /\ UNCHANGED sharing
       ELSE Share(r, s) /\ UNCHANGED <<renaming, pc>>
    /\ UNCHANGED <<school, deleted, row, draft, ask, found, seen, copy, turn, at>>

LockSchool(r) ==
    LET s == ask[r].school IN
    /\ pc[r] = "lock"
    /\ Lockable(s)
    /\ s \notin deleted
    /\ renaming' = [renaming EXCEPT ![s] = r]
    /\ pc' = [pc EXCEPT ![r] = IF school[s] # ask[r].text THEN "cascade" ELSE "commit"]
    /\ UNCHANGED <<school, deleted, row, draft, sharing, ask, found, seen, copy, turn, at>>

RefuseRename(r) ==
    /\ pc[r] = "lock"
    /\ Lockable(ask[r].school)
    /\ ask[r].school \in deleted
    /\ Rollback(r, "refused")

(* The rows that the UPDATE of the current table has yet to reach.         *)
Pending(r) ==
    {k \in Keys : /\ k[1] = Tables[turn[r]]
                  /\ row[k] # None /\ row[k].school = ask[r].school
                  /\ k \notin DOMAIN draft[r]}

(* An UPDATE locks and changes its rows one after another.                 *)
Cascade(r) ==
    /\ pc[r] = "cascade"
    /\ \E k \in Pending(r) :
          /\ Free(r, k)
          /\ draft' = [draft EXCEPT ![r] =
                Overlay(@, [x \in {k} |-> [row[k] EXCEPT !.name = ask[r].text]])]
    /\ UNCHANGED <<school, deleted, row, sharing, renaming, pc, ask, found, seen, copy, turn, at>>

(* One table too many.                                                     *)
CascadeNextPast(r) ==
    /\ pc[r] = "cascade"
    /\ Pending(r) = {}
    /\ IF turn[r] <= Len(Tables)
       THEN turn' = [turn EXCEPT ![r] = @ + 1] /\ UNCHANGED pc
       ELSE pc' = [pc EXCEPT ![r] = "commit"] /\ UNCHANGED turn
    /\ UNCHANGED <<school, deleted, row, draft, sharing, renaming, ask, found, seen, copy, at>>

CascadeNext(r) ==
    /\ pc[r] = "cascade"
    /\ Pending(r) = {}
    /\ IF turn[r] < Len(Tables)
       THEN turn' = [turn EXCEPT ![r] = @ + 1] /\ UNCHANGED pc
       ELSE pc' = [pc EXCEPT ![r] = "commit"] /\ UNCHANGED turn
    /\ UNCHANGED <<school, deleted, row, draft, sharing, renaming, ask, found, seen, copy, at>>

-----------------------------------------------------------------------------
(* Fees rows                                                               *)

FeeKey(f) == <<"schoolcontributedata", ask[f].fee>>

(* The school is looked for; the name is the one the client was shown.     *)
ReadForFee(f) ==
    LET s == ask[f].school IN
    /\ pc[f] = "read"
    /\ s \notin deleted
    /\ copy' = [copy EXCEPT ![f] = [school |-> s, name |-> school[s]]]
    /\ pc' = [pc EXCEPT ![f] = "insert"]
    /\ UNCHANGED <<school, deleted, row, draft, sharing, renaming, ask, found, seen, turn, at>>

RefuseFee(f) ==
    /\ pc[f] = "read" /\ ask[f].school \in deleted
    /\ Rollback(f, "refused")

(* No transaction and no lock but the foreign key's.                       *)
InsertFee(f) ==
    /\ pc[f] = "insert"
    /\ Shareable(ask[f].school)
    /\ row' = [row EXCEPT ![FeeKey(f)] = copy[f]]
    /\ pc' = [pc EXCEPT ![f] = "done"]
    /\ UNCHANGED <<school, deleted, draft, sharing, renaming, ask, found, seen, copy, turn, at>>

ShareForRefresh(u) ==
    LET s == ask[u].school IN
    /\ pc[u] = "share"
    /\ Shareable(s) /\ Share(u, s)
    /\ copy' = [copy EXCEPT ![u] = [school |-> s, name |-> school[s]]]
    /\ pc' = [pc EXCEPT ![u] = "find"]
    /\ UNCHANGED <<school, deleted, row, draft, renaming, ask, found, seen, turn, at>>

FeesOf(s) == {k \in {"schoolcontributedata"} \X Fees : row[k] # None /\ row[k].school = s}

(* The fees rows of the school, in whatever order the database gives them. *)
FindFees(u) ==
    LET mine == FeesOf(ask[u].school) IN
    /\ pc[u] = "find"
    /\ \E order \in SetToSeqs(mine) : found' = [found EXCEPT ![u] = order]
    /\ pc' = [pc EXCEPT ![u] = IF mine = {} THEN "commit" ELSE "refresh"]
    /\ UNCHANGED <<school, deleted, row, draft, sharing, renaming, ask, seen, copy, turn, at>>

(* They are saved one after another, each save awaited.                    *)
RefreshFee(u) ==
    LET k == found[u][at[u]] IN
    /\ pc[u] = "refresh"
    /\ Free(u, k)
    /\ draft' = [draft EXCEPT ![u] = Overlay(@, [x \in {k} |-> copy[u]])]
    /\ at' = [at EXCEPT ![u] = @ + 1]
    /\ pc' = [pc EXCEPT ![u] = IF at[u] < Len(found[u]) THEN "refresh" ELSE "commit"]
    /\ UNCHANGED <<school, deleted, row, sharing, renaming, ask, found, seen, copy, turn>>

-----------------------------------------------------------------------------
(* Deleting a school: the validator counts its learners, the handler saves *)

Learners(s) == {k \in {"students"} \X People : row[k] # None /\ row[k].school = s}

CountLearners(d) ==
    LET s == ask[d].school IN
    /\ pc[d] = "count"
    /\ pc' = [pc EXCEPT ![d] = IF s \notin deleted /\ Learners(s) = {}
                               THEN "delete" ELSE "refused"]
    /\ UNCHANGED <<school, deleted, row, draft, sharing, renaming, ask, found, seen, copy, turn, at>>

DeleteSchool(d) ==
    /\ pc[d] = "delete"
    /\ Lockable(ask[d].school)
    /\ deleted' = deleted \cup {ask[d].school}
    /\ pc' = [pc EXCEPT ![d] = "done"]
    /\ UNCHANGED <<school, row, draft, sharing, renaming, ask, found, seen, copy, turn, at>>

-----------------------------------------------------------------------------
(* Waiting                                                                 *)

(* The transactions whose locks keep p from its next step.                 *)
Blockers(p) ==
    CASE pc[p] = "lock" ->
            (sharing[ask[p].school] \cup {renaming[ask[p].school]}) \ {p, None}
      [] pc[p] \in {"check", "resolve"} ->
            {renaming[s] : s \in Candidates(p)} \ {None}
      [] pc[p] = "share" -> {renaming[ask[p].school]} \ {None}
      [] pc[p] = "write" ->
            LET k == Line(p).keys[at[p]]
            IN  IF NothingToSave(p, k) THEN {} ELSE Holders(k) \ {p}
      [] pc[p] = "cascade" -> (UNION {Holders(k) : k \in Pending(p)}) \ {p}
      [] pc[p] = "refresh" -> Holders(found[p][at[p]]) \ {p}
      [] OTHER -> {}

Waiting == {p \in Requests : Blockers(p) # {}}

(* A ring: each waits for another of the ring, and is waited for by one.   *)
Rings ==
    {ring \in (SUBSET Waiting) \ {{}} :
        \A p \in ring : /\ Blockers(p) \cap ring # {}
                        /\ \E q \in ring : p \in Blockers(q)}

(* InnoDB finds a ring and rolls one of it back.                           *)
Victim(p) ==
    /\ \E ring \in Rings : p \in ring
    /\ Rollback(p, "failed")

-----------------------------------------------------------------------------
WriterStep(p) ==
    \/ Begin(p) \/ RefuseDeleted(p) \/ RefuseUnknown(p) \/ Check(p) \/ Resolve(p) \/ RefuseSchool(p)
    \/ Write(p) \/ Commit(p)
RenameStep(r) ==
    LockSchool(r) \/ RefuseRename(r) \/ Cascade(r) \/ CascadeNext(r) \/ Commit(r)
FeeStep(f) == ReadForFee(f) \/ RefuseFee(f) \/ InsertFee(f)
RefreshStep(u) == ShareForRefresh(u) \/ FindFees(u) \/ RefreshFee(u) \/ Commit(u)
DeleteStep(d) == CountLearners(d) \/ DeleteSchool(d)

(* Everything the program and the database do unless a query fails.        *)
Progress ==
    \/ \E p \in Writers : WriterStep(p)
    \/ \E r \in Renamers : RenameStep(r)
    \/ \E f \in FeeMakers : FeeStep(f)
    \/ \E u \in Refreshers : RefreshStep(u)
    \/ \E d \in Deleters : DeleteStep(d)
    \/ \E p \in Requests : Victim(p)

Next == Progress \/ \E p \in Requests : Fail(p)

Spec == Init /\ [][Next]_vars

(* While a query can be answered, a lock granted or a ring broken, one is; *)
(* failures are not owed.                                                  *)
FairSpec == Spec /\ WF_vars(Progress)

-----------------------------------------------------------------------------
RowsTyped ==
    /\ school \in [Schools -> Texts]
    /\ deleted \subseteq Schools
    /\ row \in [Keys -> Copies \cup {None}]
    /\ DOMAIN draft = Requests
    /\ \A p \in Requests : DOMAIN draft[p] \subseteq Keys
    /\ \A p \in Requests : \A k \in DOMAIN draft[p] : draft[p][k] \in Copies

LocksTyped ==
    /\ sharing \in [Schools -> SUBSET Requests]
    /\ renaming \in [Schools -> Renamers \cup {None}]

RequestsTyped ==
    /\ pc \in [Requests -> Steps]
    /\ ask \in Asks
    /\ seen \in [Requests -> [Schools -> Texts]]
    /\ copy \in [Requests -> Copies \cup {None}]

PlacesTyped ==
    /\ turn \in [Requests -> Nat] /\ at \in [Requests -> Nat]
    /\ found \in [Requests -> Seq(Keys)]
    /\ \A p \in Writers : ask[p] # None =>
          turn[p] \in DOMAIN ask[p] /\ at[p] \in DOMAIN Line(p).keys
    /\ \A p \in Renamers : turn[p] \in DOMAIN Tables

(* Every variable has its type.                                            *)
TypeOK == RowsTyped /\ LocksTyped /\ RequestsTyped /\ PlacesTyped

(* A learner, a login, a class and a fees row carry the name of the school  *)
(* they belong to, byte for byte, whatever renames, enrolments, moves and  *)
(* refreshes overlapped.  (Not a fees row made meanwhile: it keeps the name *)
(* that its client was shown, until a refresh or a rename.)                *)
NamesAgree ==
    \A k \in Keys :
        row[k] # None /\ (k[1] = "schoolcontributedata" => Home[k] # None)
            => row[k].name = school[row[k].school]

(* A learner and the learner's login belong to one school, also when two   *)
(* moves of the learner overlap.  (Not when one move names a learner twice.)*)
LoginFollowsLearner ==
    \A x \in People :
        LET learner == row[Student(x)]
            login == row[Login(x)]
        IN  learner # None => login # None /\ login.school = learner.school

(* What a request that gave a name has written, it has written for a       *)
(* school that bears the name now, not only when it was looked up.         *)
PutWhereNamed ==
    \A p \in Hirers \cup Movers : \A k \in DOMAIN draft[p] :
        \E i \in DOMAIN ask[p] :
            /\ \E j \in DOMAIN ask[p][i].keys : ask[p][i].keys[j] = k
            /\ Normal[school[draft[p][k].school]] = Normal[ask[p][i].given]

(* Requests wait for each other in a ring only if one of them is a move: a *)
(* rename never holds what a create or a refresh waits for while it waits  *)
(* for it.  Or all are refreshes: of one school, in different orders.      *)
RingsNeedAMove ==
    \A ring \in Rings : ring \cap Movers # {} \/ ring \subseteq Refreshers

(* Every request ends: committed, refused or failed.                       *)
EveryRequestEnds == <>(\A p \in Requests : pc[p] \in Ends)
=============================================================================
