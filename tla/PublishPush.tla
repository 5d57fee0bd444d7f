----------------------------- MODULE PublishPush -----------------------------
(***************************************************************************)
(* Pushing the published set of one organisation to the student server     *)
(* after the acts that change it (src/src/business/publish-push.ts,        *)
(* cloud-push.ts).  Organisations share nothing here: `lanes` is a map and *)
(* this is the entry of one of them.                                       *)
(*                                                                         *)
(* An act is a publish, a retire, a delete or a manual re-push.  A push is *)
(* named after the act that asked for it first.  The published set is      *)
(* abstracted to its version: the number of visible acts committed.        *)
(***************************************************************************)
EXTENDS Naturals, FiniteSets

CONSTANTS
    Acts,             \* publishes, retires and deletes
    Manuals,          \* the acts among them that are manual re-pushes
    CloudConfigured,  \* RPI_CLOUD is set
    MaxRestarts,      \* bound: restarts of central
    None              \* no push

ASSUME ActsAssumption ==
    /\ Manuals \subseteq Acts
    /\ None \notin Acts
    /\ CloudConfigured \in BOOLEAN
    /\ MaxRestarts \in Nat

VARIABLES
    committed,    \* version of the published set in the store
    pc,           \* where each act stands
    since,        \* the version each act committed
    joined,       \* the push whose outcome each act waits for
    push,         \* the state of each push
    set,          \* the version each push was built from
    serving,      \* the push in flight that serveWaiting awaits; None: no lane
    waiting,      \* lane.waiting: the shared push the later acts asked for
    student,      \* version of the set the student server holds
    importing,    \* requests the student server has and has not finished
    abandoned,    \* pushes central gave up on while sending
    restarts,     \* restarts so far
    ended         \* history: pushes that ended while an act waited for its own

actVars    == <<pc, since, joined>>
laneVars   == <<serving, waiting>>
serverVars == <<student, importing>>
vars == <<committed, actVars, push, set, laneVars, serverVars, abandoned,
          restarts, ended>>

InFlight == {"building", "sending"}
Settled  == {"ok", "failed"}
PushStates == {"none", "waiting", "dead"} \cup InFlight \cup Settled

Init ==
    /\ committed = 0
    /\ pc = [a \in Acts |-> "idle"]
    /\ since = [a \in Acts |-> 0]
    /\ joined = [a \in Acts |-> None]
    /\ push = [a \in Acts |-> "none"]
    /\ set = [a \in Acts |-> 0]
    /\ serving = None
    /\ waiting = None
    /\ student = 0
    /\ importing = {}
    /\ abandoned = {}
    /\ restarts = 0
    /\ ended = [a \in Acts |-> 0]

\* The transaction of a publish, retire or delete commits.  One that changed
\* what learners see always asks for a push; a retire of a curriculum already
\* retired changes nothing and asks too; the rest are skipped, and so is
\* everything while no server is configured.
Commit(a) ==
    /\ pc[a] = "idle"
    /\ a \notin Manuals
    /\ \E visible, asks \in BOOLEAN :
         /\ visible => asks
         /\ committed' = IF visible THEN committed + 1 ELSE committed
         /\ pc' = [pc EXCEPT ![a] =
                     IF asks /\ CloudConfigured THEN "committed" ELSE "skipped"]
    /\ since' = [since EXCEPT ![a] = committed']
    /\ UNCHANGED <<joined, push, set, laneVars, serverVars, abandoned,
                   restarts, ended>>

\* A manual re-push asks for the set as it is, and always attempts.
AskAgain(a) ==
    /\ pc[a] = "idle"
    /\ a \in Manuals
    /\ pc' = [pc EXCEPT ![a] = "committed"]
    /\ since' = [since EXCEPT ![a] = committed]
    /\ UNCHANGED <<committed, joined, push, set, laneVars, serverVars,
                   abandoned, restarts, ended>>

\* Plausible mistakes, each a variant of the definition it is named after.
StartOwnAlways(a) ==
    /\ serving' = a
    /\ push' = [push EXCEPT ![a] = "building"]
    /\ joined' = [joined EXCEPT ![a] = a]
    /\ UNCHANGED waiting

JoinSharedInFlight(a) ==
    /\ serving # None
    /\ push[serving] \in InFlight
    /\ joined' = [joined EXCEPT ![a] = serving]
    /\ UNCHANGED <<push, laneVars>>

AnswerRaw(a) ==
    /\ pc[a] = "joined"
    /\ push[joined[a]] \in Settled
    /\ pc' = [pc EXCEPT ![a] = push[joined[a]]]
    /\ UNCHANGED <<committed, since, joined, push, set, laneVars,
                   serverVars, abandoned, restarts, ended>>

RefusedRetries(p) ==
    /\ push[p] = "sending"
    /\ p \in importing
    /\ \A a \in Acts : ended[a] < 2
    /\ importing' = importing \ {p}
    /\ push' = [push EXCEPT ![p] = "building"]
    /\ ended' = [a \in Acts |-> IF joined[a] # None THEN ended[a] + 1 ELSE 0]
    /\ UNCHANGED <<committed, actVars, set, laneVars, student, abandoned, restarts>>

ServeWaitingDropped ==
    /\ serving # None
    /\ push[serving] \in Settled
    /\ serving' = None
    /\ waiting' = None
    /\ UNCHANGED <<committed, actVars, push, set, serverVars, abandoned, restarts, ended>>

\* takeTurn with no lane: the push starts at once.
StartOwn(a) ==
    /\ serving = None
    /\ serving' = a
    /\ push' = [push EXCEPT ![a] = "building"]
    /\ joined' = [joined EXCEPT ![a] = a]
    /\ UNCHANGED waiting

\* takeTurn behind a push in flight, the first to: the shared push is made.
AskShared(a) ==
    /\ serving # None
    /\ waiting = None
    /\ waiting' = a
    /\ push' = [push EXCEPT ![a] = "waiting"]
    /\ joined' = [joined EXCEPT ![a] = a]
    /\ UNCHANGED serving

\* takeTurn behind a push in flight, not the first to.
JoinShared(a) ==
    /\ serving # None
    /\ waiting # None
    /\ joined' = [joined EXCEPT ![a] = waiting]
    /\ UNCHANGED <<push, laneVars>>

TakeTurn(a) ==
    /\ pc[a] = "committed"
    /\ StartOwn(a) \/ AskShared(a) \/ JoinShared(a)
    /\ pc' = [pc EXCEPT ![a] = "joined"]
    /\ UNCHANGED <<committed, since, set, serverVars, abandoned, restarts, ended>>

\* The act's promise resolves with the outcome of the push it joined.
Answer(a) ==
    /\ pc[a] = "joined"
    /\ push[joined[a]] \in Settled
    /\ pc' = [pc EXCEPT ![a] = IF push[joined[a]] = "ok" THEN "pushed" ELSE "failed"]
    /\ UNCHANGED <<committed, since, joined, push, set, laneVars,
                   serverVars, abandoned, restarts, ended>>

\* The acts whose push has not ended.
Waiters == { a \in Acts : joined[a] # None /\ push[joined[a]] \in {"waiting"} \cup InFlight }

Settle(p, outcome) ==
    /\ push' = [push EXCEPT ![p] = outcome]
    /\ ended' = [a \in Acts |-> IF a \in Waiters \ {b \in Acts : joined[b] = p}
                                THEN ended[a] + 1 ELSE 0]

\* The organisation's published set is read and sent.
Build(p) ==
    /\ push[p] = "building"
    /\ set' = [set EXCEPT ![p] = committed]
    /\ push' = [push EXCEPT ![p] = "sending"]
    /\ importing' = importing \cup {p}
    /\ UNCHANGED <<committed, actVars, laneVars, student, abandoned, restarts, ended>>

\* The organisation is gone, or the set cannot be built.
BuildFails(p) ==
    /\ push[p] = "building"
    /\ Settle(p, "failed")
    /\ UNCHANGED <<committed, actVars, set, laneVars, serverVars, abandoned, restarts>>

\* The student server replaces the organisation's content with the set.
Import(p) ==
    /\ p \in importing
    /\ student' = set[p]
    /\ importing' = importing \ {p}
    /\ UNCHANGED <<committed, actVars, push, set, laneVars, abandoned, restarts, ended>>

\* Its answer, 200, arrives within the timeout.
Accepted(p) ==
    /\ push[p] = "sending"
    /\ p \notin importing
    /\ Settle(p, "ok")
    /\ UNCHANGED <<committed, actVars, set, laneVars, serverVars, abandoned, restarts>>

\* The student server refuses the set or cannot be reached.
Refused(p) ==
    /\ push[p] = "sending"
    /\ p \in importing
    /\ importing' = importing \ {p}
    /\ Settle(p, "failed")
    /\ UNCHANGED <<committed, actVars, set, laneVars, student, abandoned, restarts>>

\* PUSH_TIMEOUT_MS: central gives up; the import may go on.
TimedOut(p) ==
    /\ push[p] = "sending"
    /\ abandoned' = abandoned \cup {p}
    /\ Settle(p, "failed")
    /\ UNCHANGED <<committed, actVars, set, laneVars, serverVars, restarts>>

\* The student server drops a request nobody waits for any more.
Dropped(p) ==
    /\ p \in importing \cap abandoned
    /\ importing' = importing \ {p}
    /\ UNCHANGED <<committed, actVars, push, set, laneVars, student, abandoned,
                   restarts, ended>>

\* serveWaiting resumes: the shared push starts, or the lane is freed.
ServeWaiting ==
    /\ serving # None
    /\ push[serving] \in Settled
    /\ serving' = waiting
    /\ waiting' = None
    /\ push' = IF waiting = None THEN push ELSE [push EXCEPT ![waiting] = "building"]
    /\ UNCHANGED <<committed, actVars, set, serverVars, abandoned, restarts, ended>>

\* Central stops and starts: lanes and promises are gone, requests on the
\* student server are not.
Restart ==
    /\ restarts < MaxRestarts
    /\ restarts' = restarts + 1
    /\ pc' = [a \in Acts |-> IF pc[a] \in {"committed", "joined"} THEN "lost" ELSE pc[a]]
    /\ push' = [p \in Acts |-> IF push[p] \in InFlight \cup {"waiting"} THEN "dead" ELSE push[p]]
    /\ abandoned' = abandoned \cup { p \in Acts : push[p] = "sending" }
    /\ serving' = None
    /\ waiting' = None
    /\ ended' = [a \in Acts |-> 0]
    /\ UNCHANGED <<committed, since, joined, set, serverVars>>

Ends(p) == BuildFails(p) \/ Accepted(p) \/ Refused(p) \/ TimedOut(p)

Next ==
    \/ \E a \in Acts : Commit(a) \/ AskAgain(a) \/ TakeTurn(a) \/ Answer(a)
    \/ \E p \in Acts : Build(p) \/ Ends(p) \/ Import(p) \/ Dropped(p)
    \/ ServeWaiting
    \/ Restart

Spec == Init /\ [][Next]_vars

\* What central owes: promises that can resume do; a build ends, and a send ends
\* by its timeout at the latest.
Progress ==
    \/ \E a \in Acts : TakeTurn(a) \/ Answer(a)
    \/ \E p \in Acts : Build(p) \/ Ends(p)
    \/ ServeWaiting

\* As long as something is owed, something owed is done.  The student server
\* owes nothing.
FairSpec == Spec /\ WF_vars(Progress)

(***************************************************************************)
(* Properties                                                              *)
(***************************************************************************)

ActStates == {"idle", "committed", "skipped", "joined", "pushed", "failed", "lost"}

\* Every variable keeps its type.
TypeOK ==
    /\ committed \in Nat
    /\ pc \in [Acts -> ActStates]
    /\ since \in [Acts -> Nat]
    /\ joined \in [Acts -> Acts \cup {None}]
    /\ push \in [Acts -> PushStates]
    /\ set \in [Acts -> Nat]
    /\ serving \in Acts \cup {None}
    /\ waiting \in Acts \cup {None}
    /\ student \in Nat
    /\ importing \in SUBSET Acts
    /\ abandoned \in SUBSET Acts
    /\ restarts \in Nat
    /\ ended \in [Acts -> Nat]

\* "An organisation has one push in flight at a time": no two pushes build or
\* send at once, however the acts, the end of a push and the turn of the
\* waiting ones interleave.
OneInFlight ==
    \A p, q \in Acts : push[p] \in InFlight /\ push[q] \in InFlight => p = q

\* "It carries every act that committed before it": the set of the push whose
\* outcome an act is given was built after the act committed, shared or not.
PushCarriesAct ==
    \A a \in Acts :
        pc[a] \in {"joined", "pushed"} /\ push[joined[a]] \in {"sending", "ok"}
            => since[a] <= set[joined[a]]

\* An act answered `pushed` is on the student server, and stays there, as long
\* as central has given up on no push: nothing older is sent after it.
LearnersHaveIt ==
    abandoned = {} => \A a \in Acts : pc[a] = "pushed" => since[a] <= student

\* "The first act answers after one timeout and all the others after a
\* second": between an act's turn and its answer at most two pushes end.
AtMostTwoPushes ==
    \A a \in Waiters : ended[a] <= 1

\* The student server goes back to an older set only by a request central had
\* given up on (a timeout or a restart), the overlap the code leaves to it.
OnlyAbandonedGoesBack ==
    [][student' < student => \E p \in abandoned : p \in importing /\ student' = set[p]]_vars

\* Acts that wait do not wait for ever: time and again none is left waiting, for
\* each was answered, or lost with a restart.
EveryActIsAnswered ==
    (\E a \in Acts : pc[a] \in {"committed", "joined"}) ~> (\A a \in Acts : pc[a] \notin {"committed", "joined"})

(***************************************************************************)
(* Lanes implement the contract                                            *)
(***************************************************************************)

flight ==
    IF \E p \in Acts : push[p] = "building" THEN [stage |-> "building"]
    ELSE IF \E p \in Acts : push[p] = "sending"
         THEN [stage |-> "sending",
               carries |-> set[CHOOSE p \in Acts : push[p] = "sending"]]
         ELSE [stage |-> "idle"]

WaitsFor(states) == { a \in Acts : joined[a] # None /\ push[joined[a]] \in states }

Contract == INSTANCE PushContract
    WITH Idle     <- [stage |-> "idle"],
         asking   <- WaitsFor({"waiting"} \cup InFlight),
         answered <- WaitsFor(Settled)

\* PublishPush with its lanes and shared promises does only what the contract
\* allows: one push at a time, and each answers acts its set carries.
LanesKeepTheContract == Contract!Spec
=============================================================================
