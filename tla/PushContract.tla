----------------------------- MODULE PushContract -----------------------------
(***************************************************************************)
(* What publish-push.ts promises the acts of one organisation ("Turns, and *)
(* sharing"), without lanes, promises or a waiting place: pushes of the    *)
(* published set go one at a time, and an act is answered only by a push   *)
(* whose set was built after the act committed.                            *)
(***************************************************************************)
EXTENDS Naturals

CONSTANTS Acts, Idle

VARIABLES
    committed,   \* version of the published set in the store
    since,       \* the version an act asks to be carried, once it asks
    asking,      \* acts that wait for a push
    answered,    \* acts a push has answered
    flight       \* Idle, or how far the push in flight is

cvars == <<committed, since, asking, answered, flight>>

Building == [stage |-> "building"]
Sending(v) == [stage |-> "sending", carries |-> v]

Init ==
    /\ committed = 0
    /\ since = [a \in Acts |-> 0]
    /\ asking = {}
    /\ answered = {}
    /\ flight = Idle

Commit(a) ==
    /\ a \notin asking \cup answered
    /\ committed' \in {committed, committed + 1}
    /\ since' = [since EXCEPT ![a] = committed']
    /\ UNCHANGED <<asking, answered, flight>>

\* When nothing is in flight a push may start at once.
Ask(a) ==
    /\ a \notin asking \cup answered
    /\ asking' = asking \cup {a}
    /\ \/ flight' = flight
       \/ flight = Idle /\ flight' = Building
    /\ UNCHANGED <<committed, since, answered>>

Start ==
    /\ flight = Idle
    /\ asking # {}
    /\ flight' = Building
    /\ UNCHANGED <<committed, since, asking, answered>>

Build ==
    /\ flight = Building
    /\ flight' = Sending(committed)
    /\ UNCHANGED <<committed, since, asking, answered>>

\* A push ends, well or badly, and answers some of the acts it carries.
Settle ==
    /\ flight # Idle
    /\ flight' = Idle
    /\ \E A \in SUBSET asking :
         /\ A # {}
         /\ \A a \in A, v \in 0 .. committed : flight = Sending(v) => since[a] <= v
         /\ asking' = asking \ A
         /\ answered' = answered \cup A
    /\ UNCHANGED <<committed, since>>

\* The process stops: the acts that wait are never answered.
Restart ==
    /\ asking' = {}
    /\ flight' = Idle
    /\ UNCHANGED <<committed, since, answered>>

Next ==
    \/ \E a \in Acts : Commit(a) \/ Ask(a)
    \/ Start \/ Build \/ Settle \/ Restart

Spec == Init /\ [][Next]_cvars
=============================================================================
