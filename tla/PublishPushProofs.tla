-------------------------- MODULE PublishPushProofs --------------------------
(***************************************************************************)
(* The theorems of PublishPush, for any acts and any number of restarts:   *)
(* one push at a time, each carrying the acts it answers, and a student    *)
(* server that goes back only by a request central gave up on.             *)
(***************************************************************************)
EXTENDS PublishPush, TLAPS

USE ActsAssumption

(***************************************************************************)
(* The inductive invariant                                                 *)
(***************************************************************************)

\* The push in flight is the one the lane serves, the push that waits is the
\* one the lane keeps, and a lane that keeps one serves one.
Lane ==
    /\ \A p \in Acts : push[p] \in InFlight => p = serving
    /\ \A p \in Acts : push[p] = "waiting" => p = waiting
    /\ serving # None => push[serving] \in InFlight \cup Settled
    /\ waiting # None => serving # None /\ push[waiting] = "waiting"

\* An act has no push before its turn, and one that is under way after it.
Asked ==
    \A a \in Acts :
        /\ pc[a] \in {"idle", "committed", "skipped"} => joined[a] = None /\ push[a] = "none"
        /\ pc[a] \in {"joined", "pushed"} => joined[a] # None
        /\ joined[a] # None => push[joined[a]] # "none"
        /\ push[a] # "none" => joined[a] = a
        /\ pc[a] = "pushed" => push[joined[a]] = "ok"

\* Nothing is newer than the store, and a set that is sent carries its acts.
Versions ==
    /\ student <= committed
    /\ \A a \in Acts : since[a] <= committed /\ set[a] <= committed
    /\ \A a \in Acts : joined[a] # None =>
          (push[joined[a]] \in {"sending", "ok"} => since[a] <= set[joined[a]])

\* The set central is sending is the newest the student server has seen; what
\* it has beside it is given up on; what it accepted it holds.
Server ==
    /\ \A p \in importing : push[p] = "sending" \/ p \in abandoned
    /\ \A p \in Acts : push[p] = "sending" =>
          student <= set[p] /\ \A q \in importing : set[q] <= set[p]
    /\ abandoned = {} => \A p \in Acts :
          push[p] = "ok" \/ (push[p] = "sending" /\ p \notin importing) => set[p] <= student

\* An act that waits has seen one push end at most, and none while one is in
\* flight that is not its own.
Endings ==
    \A a \in Acts :
        /\ joined[a] = None => ended[a] = 0
        /\ ended[a] <= 1
        /\ joined[a] # None /\ push[joined[a]] = "waiting" /\ serving # None =>
              (push[serving] \in InFlight => ended[a] = 0)

IInv == TypeOK /\ Lane /\ Asked /\ Versions /\ Server /\ Endings

\* A step keeps every variable's type.
LEMMA TypeKept ==
    ASSUME TypeOK, [Next]_vars
    PROVE  TypeOK'
<1>1. ASSUME NEW a \in Acts, Commit(a) PROVE TypeOK'
  BY <1>1 DEF Commit, TypeOK, ActStates, laneVars, serverVars
<1>2. ASSUME NEW a \in Acts, AskAgain(a) PROVE TypeOK'
  BY <1>2 DEF AskAgain, TypeOK, ActStates, laneVars, serverVars
<1>3. ASSUME NEW a \in Acts, TakeTurn(a) PROVE TypeOK'
  BY <1>3 DEF TakeTurn, StartOwn, AskShared, JoinShared, TypeOK, InFlight, ActStates,
       PushStates, laneVars, serverVars
<1>4. ASSUME NEW a \in Acts, Answer(a) PROVE TypeOK'
  BY <1>4 DEF Answer, TypeOK, ActStates, laneVars, serverVars
<1>5. ASSUME NEW p \in Acts, Build(p) PROVE TypeOK'
  BY <1>5 DEF Build, TypeOK, InFlight, PushStates, actVars, laneVars
<1>6. ASSUME NEW p \in Acts, BuildFails(p) PROVE TypeOK'
  BY <1>6 DEF BuildFails, Settle, TypeOK, Settled, PushStates, actVars, laneVars, serverVars
<1>7. ASSUME NEW p \in Acts, Accepted(p) PROVE TypeOK'
  BY <1>7 DEF Accepted, Settle, TypeOK, Settled, PushStates, actVars, laneVars, serverVars
<1>8. ASSUME NEW p \in Acts, Refused(p) PROVE TypeOK'
  BY <1>8 DEF Refused, Settle, TypeOK, Settled, PushStates, actVars, laneVars
<1>9. ASSUME NEW p \in Acts, TimedOut(p) PROVE TypeOK'
  BY <1>9 DEF TimedOut, Settle, TypeOK, Settled, PushStates, actVars, laneVars, serverVars
<1>10. ASSUME NEW p \in Acts, Import(p) PROVE TypeOK'
  BY <1>10 DEF Import, TypeOK, actVars, laneVars
<1>11. ASSUME NEW p \in Acts, Dropped(p) PROVE TypeOK'
  BY <1>11 DEF Dropped, TypeOK, actVars, laneVars
<1>12. CASE ServeWaiting
  BY <1>12 DEF ServeWaiting, TypeOK, InFlight, PushStates, actVars, serverVars
<1>13. CASE Restart
  BY <1>13 DEF Restart, TypeOK, ActStates, PushStates, serverVars
<1>14. CASE UNCHANGED vars
  BY <1>14 DEF TypeOK, vars, actVars, laneVars, serverVars
<1> QED BY <1>1, <1>2, <1>3, <1>4, <1>5, <1>6, <1>7, <1>8, <1>9, <1>10, <1>11, <1>12, <1>13,
     <1>14 DEF Next, Ends

\* Each step leaves at most one push in flight, the lane's, and one waiting.
LEMMA LaneKept ==
    ASSUME TypeOK, Lane, Asked, [Next]_vars
    PROVE  Lane'
<1>1. ASSUME NEW a \in Acts, Commit(a) PROVE Lane'
  BY <1>1 DEF Commit, Lane, laneVars
<1>2. ASSUME NEW a \in Acts, AskAgain(a) PROVE Lane'
  BY <1>2 DEF AskAgain, Lane, laneVars
<1>3. ASSUME NEW a \in Acts, TakeTurn(a) PROVE Lane'
  BY <1>3 DEF TakeTurn, StartOwn, AskShared, JoinShared, Lane, Asked, TypeOK, InFlight,
       Settled, laneVars
<1>4. ASSUME NEW a \in Acts, Answer(a) PROVE Lane'
  BY <1>4 DEF Answer, Lane, laneVars
<1>5. ASSUME NEW p \in Acts, Build(p) PROVE Lane'
  BY <1>5 DEF Build, Lane, InFlight, laneVars
<1>6. ASSUME NEW p \in Acts, BuildFails(p) PROVE Lane'
  BY <1>6 DEF BuildFails, Settle, Lane, Asked, InFlight, Settled, laneVars, actVars
<1>7. ASSUME NEW p \in Acts, Accepted(p) PROVE Lane'
  BY <1>7 DEF Accepted, Settle, Lane, InFlight, Settled, laneVars
<1>8. ASSUME NEW p \in Acts, Refused(p) PROVE Lane'
  BY <1>8 DEF Refused, Settle, Lane, InFlight, Settled, laneVars
<1>9. ASSUME NEW p \in Acts, TimedOut(p) PROVE Lane'
  BY <1>9 DEF TimedOut, Settle, Lane, InFlight, Settled, laneVars
<1>10. ASSUME NEW p \in Acts, Import(p) PROVE Lane'
  BY <1>10 DEF Import, Lane, laneVars
<1>11. ASSUME NEW p \in Acts, Dropped(p) PROVE Lane'
  BY <1>11 DEF Dropped, Lane, laneVars
<1>12. CASE ServeWaiting
  BY <1>12 DEF ServeWaiting, Lane, TypeOK, InFlight, Settled
<1>13. CASE Restart
  BY <1>13 DEF Restart, Lane, InFlight
<1>14. CASE UNCHANGED vars
  BY <1>14 DEF Lane, vars, laneVars
<1> QED BY <1>1, <1>2, <1>3, <1>4, <1>5, <1>6, <1>7, <1>8, <1>9, <1>10, <1>11, <1>12, <1>13,
     <1>14 DEF Next, Ends

\* A push that was made is never unmade, and one that went well stays so.
LEMMA AskedKept ==
    ASSUME TypeOK, Lane, Asked, [Next]_vars
    PROVE  Asked'
<1>1. ASSUME NEW a \in Acts, Commit(a) PROVE Asked'
  BY <1>1 DEF Commit, Asked
<1>2. ASSUME NEW a \in Acts, AskAgain(a) PROVE Asked'
  BY <1>2 DEF AskAgain, Asked
<1>3. ASSUME NEW a \in Acts, TakeTurn(a) PROVE Asked'
  BY <1>3 DEF TakeTurn, StartOwn, AskShared, JoinShared, Lane, Asked, TypeOK
<1>4. ASSUME NEW a \in Acts, Answer(a) PROVE Asked'
  BY <1>4 DEF Answer, Asked
<1>5. ASSUME NEW p \in Acts, Build(p) PROVE Asked'
  BY <1>5 DEF Build, Asked, actVars
<1>6. ASSUME NEW p \in Acts, BuildFails(p) PROVE Asked'
  BY <1>6 DEF BuildFails, Settle, Lane, Asked, actVars
<1>7. ASSUME NEW p \in Acts, Accepted(p) PROVE Asked'
  BY <1>7 DEF Accepted, Settle, Asked, actVars
<1>8. ASSUME NEW p \in Acts, Refused(p) PROVE Asked'
  BY <1>8 DEF Refused, Settle, Asked, actVars
<1>9. ASSUME NEW p \in Acts, TimedOut(p) PROVE Asked'
  BY <1>9 DEF TimedOut, Settle, Asked, actVars
<1>10. ASSUME NEW p \in Acts, Import(p) PROVE Asked'
  BY <1>10 DEF Import, Asked, actVars
<1>11. ASSUME NEW p \in Acts, Dropped(p) PROVE Asked'
  BY <1>11 DEF Dropped, Asked, actVars
<1>12. CASE ServeWaiting
  BY <1>12 DEF ServeWaiting, Lane, Asked, actVars
<1>13. CASE Restart
  BY <1>13 DEF Restart, Asked, TypeOK, InFlight
<1>14. CASE UNCHANGED vars
  BY <1>14 DEF Asked, vars, actVars
<1> QED BY <1>1, <1>2, <1>3, <1>4, <1>5, <1>6, <1>7, <1>8, <1>9, <1>10, <1>11, <1>12, <1>13,
     <1>14 DEF Next, Ends

\* A set is read after every act that waits for it has committed.
LEMMA VersionsKept ==
    ASSUME TypeOK, Lane, Asked, Versions, [Next]_vars
    PROVE  Versions'
<1>1. ASSUME NEW a \in Acts, Commit(a) PROVE Versions'
  BY <1>1 DEF Commit, Versions, Asked, TypeOK, serverVars
<1>2. ASSUME NEW a \in Acts, AskAgain(a) PROVE Versions'
  BY <1>2 DEF AskAgain, Versions, Asked, TypeOK, serverVars
<1>3. ASSUME NEW a \in Acts, TakeTurn(a) PROVE Versions'
  BY <1>3 DEF TakeTurn, StartOwn, AskShared, JoinShared, Versions, Lane, TypeOK, serverVars
<1>4. ASSUME NEW a \in Acts, Answer(a) PROVE Versions'
  BY <1>4 DEF Answer, Versions, serverVars
<1>5. ASSUME NEW p \in Acts, Build(p) PROVE Versions'
  BY <1>5 DEF Build, Versions, TypeOK, actVars
<1>6. ASSUME NEW p \in Acts, BuildFails(p) PROVE Versions'
  BY <1>6 DEF BuildFails, Settle, Versions, Lane, Asked, actVars, serverVars
<1>7. ASSUME NEW p \in Acts, Accepted(p) PROVE Versions'
  BY <1>7 DEF Accepted, Settle, Versions, actVars, serverVars
<1>8. ASSUME NEW p \in Acts, Refused(p) PROVE Versions'
  BY <1>8 DEF Refused, Settle, Versions, actVars
<1>9. ASSUME NEW p \in Acts, TimedOut(p) PROVE Versions'
  BY <1>9 DEF TimedOut, Settle, Versions, actVars, serverVars
<1>10. ASSUME NEW p \in Acts, Import(p) PROVE Versions'
  BY <1>10 DEF Import, Versions, actVars
<1>11. ASSUME NEW p \in Acts, Dropped(p) PROVE Versions'
  BY <1>11 DEF Dropped, Versions, actVars
<1>12. CASE ServeWaiting
  BY <1>12 DEF ServeWaiting, Versions, actVars, serverVars
<1>13. CASE Restart
  BY <1>13 DEF Restart, Versions, TypeOK, serverVars
<1>14. CASE UNCHANGED vars
  BY <1>14 DEF Versions, vars, actVars, serverVars
<1> QED BY <1>1, <1>2, <1>3, <1>4, <1>5, <1>6, <1>7, <1>8, <1>9, <1>10, <1>11, <1>12, <1>13,
     <1>14 DEF Next, Ends

\* Only a request central gave up on can be older than the push being sent.
LEMMA ServerKept ==
    ASSUME TypeOK, Lane, Asked, Versions, Server, [Next]_vars
    PROVE  Server'
<1>1. ASSUME NEW a \in Acts, Commit(a) PROVE Server'
  BY <1>1 DEF Commit, Server, serverVars
<1>2. ASSUME NEW a \in Acts, AskAgain(a) PROVE Server'
  BY <1>2 DEF AskAgain, Server, serverVars
<1>3. ASSUME NEW a \in Acts, TakeTurn(a) PROVE Server'
  BY <1>3 DEF TakeTurn, StartOwn, AskShared, JoinShared, Server, Asked, TypeOK, serverVars
<1>4. ASSUME NEW a \in Acts, Answer(a) PROVE Server'
  BY <1>4 DEF Answer, Server, serverVars
<1>5. ASSUME NEW p \in Acts, Build(p) PROVE Server'
  BY <1>5 DEF Build, Server, Versions, Lane, TypeOK, PushStates, Settled
<1>6. ASSUME NEW p \in Acts, BuildFails(p) PROVE Server'
  BY <1>6 DEF BuildFails, Settle, Server, Versions, Lane, Asked, serverVars, actVars
<1>7. ASSUME NEW p \in Acts, Accepted(p) PROVE Server'
  BY <1>7 DEF Accepted, Settle, Server, serverVars
<1>8. ASSUME NEW p \in Acts, Refused(p) PROVE Server'
  BY <1>8 DEF Refused, Settle, Server, TypeOK
<1>9. ASSUME NEW p \in Acts, TimedOut(p) PROVE Server'
  BY <1>9 DEF TimedOut, Settle, Server, serverVars
<1>10. ASSUME NEW p \in Acts, Import(p) PROVE Server'
  BY <1>10 DEF Import, Server, TypeOK
<1>11. ASSUME NEW p \in Acts, Dropped(p) PROVE Server'
  BY <1>11 DEF Dropped, Server
<1>12. CASE ServeWaiting
  BY <1>12 DEF ServeWaiting, Server, Lane, serverVars
<1>13. CASE Restart
  BY <1>13 DEF Restart, Server, TypeOK, serverVars
<1>14. CASE UNCHANGED vars
  BY <1>14 DEF Server, vars, serverVars
<1> QED BY <1>1, <1>2, <1>3, <1>4, <1>5, <1>6, <1>7, <1>8, <1>9, <1>10, <1>11, <1>12, <1>13,
     <1>14 DEF Next, Ends

\* The push an act waits for is the next to be served.
LEMMA EndingsKept ==
    ASSUME TypeOK, Lane, Asked, Endings, [Next]_vars
    PROVE  Endings'
<1>1. ASSUME NEW a \in Acts, Commit(a) PROVE Endings'
  BY <1>1 DEF Commit, Endings, laneVars
<1>2. ASSUME NEW a \in Acts, AskAgain(a) PROVE Endings'
  BY <1>2 DEF AskAgain, Endings, laneVars
<1>3. ASSUME NEW a \in Acts, TakeTurn(a) PROVE Endings'
  BY <1>3 DEF TakeTurn, StartOwn, AskShared, JoinShared, Endings, Lane, Asked, TypeOK, laneVars
<1>4. ASSUME NEW a \in Acts, Answer(a) PROVE Endings'
  BY <1>4 DEF Answer, Endings, laneVars
<1>5. ASSUME NEW p \in Acts, Build(p) PROVE Endings'
  BY <1>5 DEF Build, Endings, Lane, Settled, actVars, laneVars
<1>6. ASSUME NEW p \in Acts, BuildFails(p) PROVE Endings'
  BY <1>6 DEF BuildFails, Settle, Waiters, Endings, Lane, Asked, TypeOK, InFlight, actVars,
       laneVars
<1>7. ASSUME NEW p \in Acts, Accepted(p) PROVE Endings'
  BY <1>7 DEF Accepted, Settle, Waiters, Endings, Lane, TypeOK, InFlight, actVars, laneVars
<1>8. ASSUME NEW p \in Acts, Refused(p) PROVE Endings'
  BY <1>8 DEF Refused, Settle, Waiters, Endings, Lane, TypeOK, InFlight, actVars, laneVars
<1>9. ASSUME NEW p \in Acts, TimedOut(p) PROVE Endings'
  BY <1>9 DEF TimedOut, Settle, Waiters, Endings, Lane, TypeOK, InFlight, actVars, laneVars
<1>10. ASSUME NEW p \in Acts, Import(p) PROVE Endings'
  BY <1>10 DEF Import, Endings, actVars, laneVars
<1>11. ASSUME NEW p \in Acts, Dropped(p) PROVE Endings'
  BY <1>11 DEF Dropped, Endings, actVars, laneVars
<1>12. CASE ServeWaiting
  BY <1>12 DEF ServeWaiting, Endings, Lane, TypeOK, actVars
<1>13. CASE Restart
  BY <1>13 DEF Restart, Endings
<1>14. CASE UNCHANGED vars
  BY <1>14 DEF Endings, vars, actVars, laneVars
<1> QED BY <1>1, <1>2, <1>3, <1>4, <1>5, <1>6, <1>7, <1>8, <1>9, <1>10, <1>11, <1>12, <1>13,
     <1>14 DEF Next, Ends

(***************************************************************************)
(* The theorems                                                            *)
(***************************************************************************)

THEOREM Invariant == Spec => []IInv
<1>1. Init => IInv
  BY DEF Init, IInv, TypeOK, Lane, Asked, Versions, Server, Endings, InFlight, Settled,
         ActStates, PushStates
<1>2. IInv /\ [Next]_vars => IInv'
  BY TypeKept, LaneKept, AskedKept, VersionsKept, ServerKept, EndingsKept DEF IInv
<1> QED BY <1>1, <1>2, PTL DEF Spec

\* Every variable keeps its type.
THEOREM TypeCorrect == Spec => []TypeOK
<1>1. IInv => TypeOK
  BY DEF IInv
<1> QED BY <1>1, Invariant, PTL

\* The organisation has one push in flight at a time, after any restarts.
THEOREM OnePushInFlight == Spec => []OneInFlight
<1>1. IInv => OneInFlight
  BY DEF IInv, Lane, OneInFlight
<1> QED BY <1>1, Invariant, PTL

\* The push whose outcome an act is given was built after the act committed.
THEOREM PushesCarryActs == Spec => []PushCarriesAct
<1>1. IInv => PushCarriesAct
  BY DEF IInv, Asked, Versions, PushCarriesAct
<1> QED BY <1>1, Invariant, PTL

\* As long as central gave up on no push, an act answered `pushed` is with learners.
THEOREM LearnersHaveActs == Spec => []LearnersHaveIt
<1>1. IInv => LearnersHaveIt
  <2> SUFFICES ASSUME IInv, abandoned = {}, NEW a \in Acts, pc[a] = "pushed"
               PROVE  since[a] <= student
    BY DEF LearnersHaveIt
  <2>1. joined[a] \in Acts /\ push[joined[a]] = "ok"
    BY DEF IInv, TypeOK, Asked
  <2>2. since[a] <= set[joined[a]] /\ set[joined[a]] <= student
    BY <2>1 DEF IInv, Versions, Server
  <2> QED BY <2>1, <2>2 DEF IInv, TypeOK
<1> QED BY <1>1, Invariant, PTL

\* An act waits for the end of two pushes at most, its own the second.
THEOREM TwoPushesAtMost == Spec => []AtMostTwoPushes
<1>1. IInv => AtMostTwoPushes
  BY DEF IInv, Endings, AtMostTwoPushes, Waiters
<1> QED BY <1>1, Invariant, PTL

\* Only a request central had given up on puts an older set before learners.
THEOREM GoesBackByAbandoned == Spec => OnlyAbandonedGoesBack
<1> DEFINE Back == student' < student => \E p \in abandoned : p \in importing /\ student' = set[p]
<1>1. ASSUME IInv, [Next]_vars PROVE Back
  <2>1. ASSUME NEW p \in Acts, Import(p) PROVE Back
    <3>1. p \in importing /\ student' = set[p] /\ student \in Nat /\ set[p] \in Nat
      BY <1>1, <2>1 DEF Import, IInv, TypeOK
    <3>2. p \in abandoned \/ student <= set[p]
      BY <1>1, <3>1 DEF IInv, Server
    <3> QED BY <3>1, <3>2
  <2>2. student' = student \/ \E p \in Acts : Import(p)
    BY <1>1 DEF Next, Ends, Commit, AskAgain, TakeTurn, Answer, Build, BuildFails, Accepted,
         Refused,
           TimedOut, Dropped, ServeWaiting, Restart, serverVars, vars
  <2>3. CASE student' = student
    BY <1>1, <2>3 DEF IInv, TypeOK
  <2> QED BY <2>1, <2>2, <2>3
<1>2. IInv /\ [Next]_vars => [Back]_vars
  BY <1>1
<1> QED BY <1>2, Invariant, PTL DEF Spec, OnlyAbandonedGoesBack

(***************************************************************************)
(* The contract                                                            *)
(***************************************************************************)

Outstanding == {"waiting"} \cup InFlight

\* Where the contract's push is, by where the lane's is.
LEMMA FlightIs ==
    ASSUME IInv
    PROVE  /\ (\A p \in Acts : push[p] \notin InFlight) => flight = [stage |-> "idle"]
           /\ \A p \in Acts : push[p] = "building" => flight = [stage |-> "building"]
           /\ \A p \in Acts : push[p] = "sending" =>
                 flight = [stage |-> "sending", carries |-> set[p]]
<1>1. \A p, q \in Acts : push[p] \in InFlight /\ push[q] \in InFlight => p = q
  BY DEF IInv, Lane
<1>2. ASSUME NEW p \in Acts, push[p] = "sending"
      PROVE  flight = [stage |-> "sending", carries |-> set[p]]
  <2>1. (CHOOSE q \in Acts : push[q] = "sending") = p
    BY <1>1, <1>2
  <2>2. ~ \E q \in Acts : push[q] = "building"
    BY <1>1, <1>2 DEF InFlight
  <2> QED BY <1>2, <2>1, <2>2 DEF flight
<1> QED BY <1>2 DEF flight, InFlight

\* The same of the state a step leads to.
LEMMA FlightBecomes ==
    ASSUME IInv'
    PROVE  /\ (\A p \in Acts : push'[p] \notin InFlight) => flight' = [stage |-> "idle"]
           /\ \A p \in Acts : push'[p] = "building" => flight' = [stage |-> "building"]
           /\ \A p \in Acts : push'[p] = "sending" =>
                 flight' = [stage |-> "sending", carries |-> set'[p]]
<1>1. \A p, q \in Acts : push'[p] \in InFlight /\ push'[q] \in InFlight => p = q
  BY DEF IInv, Lane
<1>2. ASSUME NEW p \in Acts, push'[p] = "sending"
      PROVE  flight' = [stage |-> "sending", carries |-> set'[p]]
  <2>1. (CHOOSE q \in Acts : push'[q] = "sending") = p
    BY <1>1, <1>2
  <2>2. ~ \E q \in Acts : push'[q] = "building"
    BY <1>1, <1>2 DEF InFlight
  <2> QED BY <1>2, <2>1, <2>2 DEF flight
<1> QED BY <1>2 DEF flight, InFlight

\* A step that leaves the pushes and the acts' asking as they are, as the
\* contract sees it.
LEMMA SamePushes ==
    ASSUME UNCHANGED <<joined, push, set>>
    PROVE  UNCHANGED <<flight, WaitsFor(Outstanding), WaitsFor(Settled)>>
  BY DEF flight, WaitsFor

\* An act that takes its turn asks; its push starts at once, or later.
LEMMA TurnAsks ==
    ASSUME IInv, IInv', NEW a \in Acts, TakeTurn(a)
    PROVE  Contract!Ask(a)
<1>1. pc[a] = "committed" /\ joined[a] = None /\ push[a] = "none"
  BY DEF TakeTurn, IInv, Asked
<1>2. \A b \in Acts : joined[b] # a
  BY <1>1 DEF IInv, Asked
<1>3. a \notin WaitsFor(Outstanding) \cup WaitsFor(Settled)
  BY <1>1 DEF WaitsFor
<1>4. /\ WaitsFor(Outstanding)' = WaitsFor(Outstanding) \cup {a}
      /\ WaitsFor(Settled)' = WaitsFor(Settled)
      /\ \/ flight' = flight
         \/ flight = [stage |-> "idle"] /\ flight' = [stage |-> "building"]
  <2>1. CASE StartOwn(a)
    <3>1. WaitsFor(Outstanding)' = WaitsFor(Outstanding) \cup {a} /\ WaitsFor(Settled)' = WaitsFor(Settled)
      BY <1>1, <1>2, <2>1 DEF StartOwn, WaitsFor, Outstanding, InFlight, Settled, IInv, TypeOK
    <3>2. \A p \in Acts : push[p] \notin InFlight
      BY <2>1 DEF StartOwn, IInv, Lane
    <3>3. push'[a] = "building"
      BY <2>1 DEF StartOwn, IInv, TypeOK
    <3> QED BY <3>1, <3>2, <3>3, FlightIs, FlightBecomes
  <2>2. CASE AskShared(a)
    <3>1. WaitsFor(Outstanding)' = WaitsFor(Outstanding) \cup {a} /\ WaitsFor(Settled)' = WaitsFor(Settled)
      BY <1>1, <1>2, <2>2 DEF AskShared, WaitsFor, Outstanding, Settled, IInv, TypeOK
    <3>2. flight' = flight
      <4>1. set' = set /\ \A p \in Acts : push'[p] = "building" <=> push[p] = "building"
        BY <1>1, <2>2 DEF AskShared, TakeTurn, IInv
      <4>2. \A p \in Acts : push'[p] = "sending" <=> push[p] = "sending"
        BY <1>1, <2>2 DEF AskShared, IInv
      <4>3. CASE \E p \in Acts : push[p] = "building"
        BY <4>1, <4>3, FlightIs, FlightBecomes
      <4>4. CASE \E p \in Acts : push[p] = "sending"
        BY <4>1, <4>2, <4>4, FlightIs, FlightBecomes
      <4>5. CASE \A p \in Acts : push[p] \notin InFlight
        BY <4>1, <4>2, <4>5, FlightIs, FlightBecomes DEF InFlight
      <4> QED BY <4>3, <4>4, <4>5 DEF InFlight
    <3> QED BY <3>1, <3>2
  <2>3. CASE JoinShared(a)
    <3>1. waiting \in Acts /\ push[waiting] = "waiting" /\ joined' = [joined EXCEPT ![a] = waiting] /\ push' = push
      BY <2>3 DEF JoinShared, IInv, TypeOK, Lane
    <3>2. WaitsFor(Outstanding)' = WaitsFor(Outstanding) \cup {a} /\ WaitsFor(Settled)' = WaitsFor(Settled)
      BY <1>1, <3>1 DEF WaitsFor, Outstanding, Settled, IInv, TypeOK
    <3>3. flight' = flight
      BY <2>3 DEF JoinShared, TakeTurn, flight
    <3> QED BY <3>2, <3>3
  <2> QED BY <2>1, <2>2, <2>3 DEF TakeTurn
<1>5. UNCHANGED <<committed, since>>
  BY DEF TakeTurn
<1> QED BY <1>3, <1>4, <1>5 DEF Contract!Ask, Contract!Building, Outstanding

\* The end of a push answers the acts that joined it, all of them carried.
LEMMA EndSettles ==
    ASSUME IInv, IInv', NEW p \in Acts, push[p] \in InFlight, NEW outcome \in Settled,
           Settle(p, outcome), UNCHANGED <<committed, since, joined, set>>
    PROVE  Contract!Settle
<1> DEFINE A == { a \in Acts : joined[a] = p }
<1>1. push' = [push EXCEPT ![p] = outcome] /\ push \in [Acts -> PushStates] /\ joined \in [Acts -> Acts \cup {None}]
  BY DEF Settle, IInv, TypeOK
<1>2. joined[p] = p
  BY DEF IInv, Asked, InFlight
<1>3. A \in SUBSET WaitsFor(Outstanding) /\ A # {}
  BY <1>2 DEF WaitsFor, Outstanding
<1>4. WaitsFor(Outstanding)' = WaitsFor(Outstanding) \ A
  BY <1>1 DEF WaitsFor, Outstanding, InFlight, Settled
<1>5. WaitsFor(Settled)' = WaitsFor(Settled) \cup A
  BY <1>1 DEF WaitsFor
<1>6. flight # [stage |-> "idle"]
  BY FlightIs DEF InFlight
<1>7. flight' = [stage |-> "idle"]
  <2>1. \A q \in Acts : push'[q] \notin InFlight
    BY <1>1 DEF IInv, Lane, InFlight, Settled
  <2> QED BY <2>1, FlightBecomes
<1>8. ASSUME NEW a \in A, NEW v \in 0 .. committed, flight = [stage |-> "sending", carries |-> v]
      PROVE  since[a] <= v
  <2>1. push[p] = "sending"
    <3>1. CASE push[p] = "building"
      <4>1. flight = [stage |-> "building"]
        BY <3>1, FlightIs
      <4> QED BY <4>1, <1>8
    <3> QED BY <3>1 DEF InFlight
  <2>2. flight = [stage |-> "sending", carries |-> set[p]]
    BY <2>1, FlightIs
  <2>3. v = set[p]
    BY <1>8, <2>2
  <2> QED BY <2>1, <2>3 DEF IInv, Versions
<1> HIDE DEF A
<1> QED BY <1>3, <1>4, <1>5, <1>6, <1>7, <1>8 DEF Contract!Settle, Contract!Sending, Outstanding

\* A push that begins is the contract's start.
LEMMA ServingStarts ==
    ASSUME IInv, IInv', ServeWaiting
    PROVE  [Contract!Next]_(Contract!cvars)
<1>0. serving \in Acts /\ push[serving] \in Settled
  BY DEF ServeWaiting, IInv, TypeOK
<1>1. \A p \in Acts : push[p] \notin InFlight
  BY <1>0 DEF IInv, Lane, InFlight, Settled
<1>2. CASE waiting = None
  <2>1. UNCHANGED <<committed, since, joined, push, set>>
    BY <1>2 DEF ServeWaiting, actVars
  <2> QED BY <2>1, SamePushes DEF Contract!cvars, Outstanding
<1>3. CASE waiting # None
  <2>1. waiting \in Acts /\ push[waiting] = "waiting" /\ joined[waiting] = waiting
    BY <1>3 DEF IInv, TypeOK, Lane, Asked
  <2>2. push' = [push EXCEPT ![waiting] = "building"] /\ UNCHANGED <<committed, since, joined>>
    BY <1>3 DEF ServeWaiting, actVars
  <2>3. WaitsFor(Outstanding)' = WaitsFor(Outstanding) /\ WaitsFor(Settled)' = WaitsFor(Settled)
    BY <2>1, <2>2 DEF WaitsFor, Outstanding, InFlight, Settled, IInv
  <2>4. waiting \in WaitsFor(Outstanding)
    BY <2>1 DEF WaitsFor, Outstanding
  <2>5. push'[waiting] = "building"
    BY <2>1, <2>2 DEF IInv, TypeOK
  <2>6. flight = [stage |-> "idle"] /\ flight' = [stage |-> "building"]
    BY <1>1, <2>1, <2>5, FlightIs, FlightBecomes
  <2>7. Contract!Start
    BY <2>2, <2>3, <2>4, <2>6 DEF Contract!Start, Contract!Building, Outstanding
  <2> QED BY <2>7 DEF Contract!Next
<1> QED BY <1>2, <1>3

\* Every step of the lane is a step of the contract, or none.
LEMMA StepKeepsContract ==
    ASSUME IInv, IInv', [Next]_vars
    PROVE  [Contract!Next]_(Contract!cvars)
<1>1. ASSUME NEW a \in Acts, Commit(a) \/ AskAgain(a) PROVE Contract!Commit(a)
  <2>1. joined[a] = None
    BY <1>1 DEF Commit, AskAgain, IInv, Asked
  <2>2. a \notin WaitsFor(Outstanding) \cup WaitsFor(Settled)
    BY <2>1 DEF WaitsFor
  <2>3. UNCHANGED <<flight, WaitsFor(Outstanding), WaitsFor(Settled)>>
    BY <1>1, SamePushes DEF Commit, AskAgain
  <2>4. committed' \in {committed, committed + 1} /\ since' = [since EXCEPT ![a] = committed']
    BY <1>1 DEF Commit, AskAgain
  <2> QED BY <2>2, <2>3, <2>4 DEF Contract!Commit, Outstanding
<1>2. ASSUME NEW a \in Acts, TakeTurn(a) PROVE Contract!Ask(a)
  BY <1>2, TurnAsks
<1>3. ASSUME NEW p \in Acts, Build(p) PROVE Contract!Build
  <2>1. push[p] = "building" /\ push'[p] = "sending" /\ set'[p] = committed
    BY <1>3 DEF Build, IInv, TypeOK
  <2>2. WaitsFor(Outstanding)' = WaitsFor(Outstanding) /\ WaitsFor(Settled)' = WaitsFor(Settled)
    BY <1>3 DEF Build, actVars, WaitsFor, Outstanding, InFlight, Settled, IInv
  <2>3. flight = [stage |-> "building"] /\ flight' = [stage |-> "sending", carries |-> committed]
    BY <2>1, FlightIs, FlightBecomes
  <2>4. UNCHANGED <<committed, since>>
    BY <1>3 DEF Build, actVars
  <2> QED BY <2>2, <2>3, <2>4 DEF Contract!Build, Contract!Building, Contract!Sending, Outstanding
<1>4. ASSUME NEW p \in Acts, Ends(p) PROVE Contract!Settle
  <2>1. push[p] \in InFlight /\ \E outcome \in Settled : Settle(p, outcome)
    BY <1>4 DEF Ends, BuildFails, Accepted, Refused, TimedOut, InFlight, Settled
  <2>2. UNCHANGED <<committed, since, joined, set>>
    BY <1>4 DEF Ends, BuildFails, Accepted, Refused, TimedOut, actVars
  <2> QED BY <2>1, <2>2, EndSettles
<1>5. ASSUME Restart PROVE Contract!Restart
  <2>1. push' = [p \in Acts |-> IF push[p] \in InFlight \cup {"waiting"} THEN "dead" ELSE push[p]]
        /\ UNCHANGED <<committed, since, joined>>
    BY <1>5 DEF Restart
  <2>2. WaitsFor(Outstanding)' = {} /\ WaitsFor(Settled)' = WaitsFor(Settled)
    BY <2>1 DEF WaitsFor, Outstanding, InFlight, Settled, IInv, TypeOK
  <2>3. \A p \in Acts : push'[p] \notin InFlight
    BY <2>1 DEF InFlight
  <2> QED BY <2>1, <2>2, <2>3, FlightBecomes DEF Contract!Restart, Outstanding
<1>6. ASSUME (\E a \in Acts : Answer(a) \/ Import(a) \/ Dropped(a)) \/ UNCHANGED vars
      PROVE  UNCHANGED Contract!cvars
  <2>1. UNCHANGED <<committed, since, joined, push, set>>
    BY <1>6 DEF Answer, Import, Dropped, actVars, vars
  <2> QED BY <2>1, SamePushes DEF Contract!cvars, Outstanding
<1> QED BY <1>1, <1>2, <1>3, <1>4, <1>5, <1>6, ServingStarts DEF Next, Contract!Next

\* Lanes, shared promises and restarts do only what PushContract allows.
THEOREM KeepsTheContract == Spec => LanesKeepTheContract
<1>1. Init => Contract!Init
  BY DEF Init, Contract!Init, WaitsFor, flight
<1>2. IInv /\ IInv' /\ [Next]_vars => [Contract!Next]_(Contract!cvars)
  BY StepKeepsContract
<1> QED BY <1>1, <1>2, Invariant, PTL DEF Spec, LanesKeepTheContract, Contract!Spec


=============================================================================
