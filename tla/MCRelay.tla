------------------------------ MODULE MCRelay ------------------------------
(* Applications with one kind of relay each, and with two that interact.    *)
EXTENDS Relay, TLC

CONSTANTS n1, n2, a, b

NoTargets == [pushes |-> {}, pulls |-> {}, statics |-> {}, slots |-> {},
              for |-> [t \in Targets |-> Names], sessionRelay |-> FALSE,
              names |-> Names, clients |-> Cardinality(Sessions),
              bucket |-> [n \in Names |-> n1]]

\* Two servers, one of which gets one stream only.
TwoPushes == [NoTargets EXCEPT !.pushes = {a, b}, !.for = [@ EXCEPT ![b] = {n1}]]
PushAndPull == [NoTargets EXCEPT !.pushes = {a}, !.pulls = {b}, !.clients = 3]
TwoPulls == [NoTargets EXCEPT !.pulls = {a, b}]
PushAndAuto == [NoTargets EXCEPT !.pushes = {a}, !.slots = {b}, !.names = {n1}]
StaticAndAuto == [NoTargets EXCEPT !.statics = {a}, !.slots = {b},
                                   !.for = [@ EXCEPT ![a] = {n1}],
                                   !.names = {n1}]

\* Two streams in one bucket, and in two.
OneBucket == [PushAndAuto EXCEPT !.names = Names, !.clients = 2]
TwoBuckets == [OneBucket EXCEPT !.pushes = {}, !.bucket = [n \in Names |-> n]]
SessionRelay == [OneBucket EXCEPT !.sessionRelay = TRUE]

SomeConfigs == {TwoPushes, PushAndPull, TwoPulls, PushAndAuto, StaticAndAuto,
                OneBucket, TwoBuckets, SessionRelay}

SomeNames == {n1, n2}
SomeTargets == {a, b}
Symmetry == Permutations(Sessions)

=============================================================================
