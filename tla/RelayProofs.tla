---------------------------- MODULE RelayProofs ----------------------------
(* Theorems about the relays, for every number of sessions, names, targets *)
(* and every configuration.                                                *)
EXTENDS Relay, FiniteSetTheorems, TLAPS

USE DEF lists, session, timers

-----------------------------------------------------------------------------
(* The inductive invariant.                                                *)

\* Sessions that push or pull: their context was made with them.
Relayed(s) == peer[s] \in conf.pushes \cup conf.pulls \cup conf.slots

\* A session begins without a context of its own, unless it was made to push or
\* pull; one that auto_push follows never plays.
ContextsOK ==
  \A s \in Sessions :
    /\ state[s] = "free" => IsClient(s) /\ role[s] = "new"
    /\ publish[s] # None => role[s] # "new" \/ Relayed(s)
    /\ role[s] = "new" /\ ~IsClient(s) => name[s] \in Names
    /\ publish[s] # None \/ s \in auto => name[s] \in Names
    /\ s \in auto => /\ publish[s] \in {None, s}
                     /\ role[s] \in {"publish", "ended"}

IInv == TypeOK /\ ContextsOK /\ ListsSound /\ OnePublisher /\ TimersSound

-----------------------------------------------------------------------------
(* Facts about the configuration and the operators.                        *)

LEMMA ConfOK ==
  ASSUME TypeOK
  PROVE  conf \in ConfigType /\ Apart(conf)
BY ConfigsAssumption DEF TypeOK

LEMMA TargetsOK ==
  ASSUME TypeOK
  PROVE  /\ conf.pushes \subseteq Targets /\ conf.pulls \subseteq Targets
         /\ conf.statics \subseteq Targets /\ conf.slots \subseteq Targets
         /\ conf.names \subseteq Names
         /\ \A n : PushesOf(n) \subseteq conf.pushes
         /\ \A n : PullsOf(n) \subseteq conf.pulls
         /\ \A n : PublishTargets(n) \subseteq conf.pushes \cup conf.slots
BY ConfOK DEF ConfigType, PushesOf, PullsOf, PublishTargets

LEMMA NoConnection == Range(<<>>) = {} /\ DOMAIN <<>> = {}
BY DEF Range

\* What a choice of connections is.
LEMMA ConnectionsOK ==
  ASSUME NEW targets, NEW f \in Connections(targets)
  PROVE  /\ DOMAIN f \subseteq targets
         /\ Range(f) \subseteq Free
         /\ \A t \in DOMAIN f : f[t] \in Range(f)
         /\ \A r \in Range(f) : \E t \in DOMAIN f : f[t] = r
         /\ \A t, u \in DOMAIN f : f[t] = f[u] => t = u
<1>1. PICK made \in SUBSET targets : f \in [made -> Free] /\ IsInjective(f)
  BY DEF Connections
<1> QED
  BY <1>1 DEF IsInjective, Range

\* Each session that was made has one target of the choice, and its name.
LEMMA PeersOK ==
  ASSUME TypeOK, NEW targets \in SUBSET Targets, NEW f \in Connections(targets),
         NEW n \in Names
  PROVE  /\ Peers(f) \in [Sessions -> Targets \cup {Client}]
         /\ \A s \in Sessions \ Range(f) : Peers(f)[s] = peer[s]
         /\ \A s \in Range(f) : Peers(f)[s] \in DOMAIN f
         /\ Named(f, n) \in [Sessions -> Names \cup {None}]
         /\ \A s \in Sessions \ Range(f) : Named(f, n)[s] = name[s]
         /\ \A s \in Range(f) : Named(f, n)[s] = n
<1>1. /\ DOMAIN f \subseteq Targets /\ Range(f) \subseteq Sessions
      /\ \A r \in Range(f) : \E t \in DOMAIN f : f[t] = r
  BY ConnectionsOK DEF Free
<1>2. ASSUME NEW s \in Range(f)
      PROVE  (CHOOSE t \in DOMAIN f : f[t] = s) \in DOMAIN f
  BY <1>1
<1>3. \A s \in Range(f) : Peers(f)[s] \in DOMAIN f
  BY <1>1, <1>2 DEF Peers
<1>4. \A s \in Sessions \ Range(f) : Peers(f)[s] = peer[s]
  BY DEF Peers
<1>5. Peers(f) \in [Sessions -> Targets \cup {Client}]
  BY <1>1, <1>2 DEF Peers, TypeOK
<1> QED
  BY <1>1, <1>3, <1>4, <1>5 DEF Named, TypeOK

\* Whose list a push joins.
LEMMA OwnerOK ==
  ASSUME TypeOK, OnePublisher, NEW s \in Sessions, NEW n
  PROVE  /\ Known(n) # {} => Owner(s, n) \in table /\ name[Owner(s, n)] = n
         /\ Known(n) = {} => Owner(s, n) = s
         /\ s \in table /\ name[s] = n => Owner(s, n) = s
         /\ Owner(s, n) \in Sessions
<1>1. Known(n) # {} => Owner(s, n) \in Known(n)
  BY DEF Owner
<1> QED
  BY <1>1 DEF Owner, Known, OnePublisher, TypeOK

-----------------------------------------------------------------------------
(* What pushes do, whoever makes them.                                     *)

\* The new sessions play from the one publisher of the name; of the others only
\* s may change, and only to become that publisher.
Pushed(s, f) ==
  /\ state' \in [Sessions -> {"free", "open", "closing"}]
  /\ peer' \in [Sessions -> Targets \cup {Client}]
  /\ publish' \in [Sessions -> Sessions \cup {None}]
  /\ plays' \in [Sessions -> SUBSET Sessions]
  /\ table' \subseteq Sessions
  /\ behind' \in [Sessions -> SUBSET Sessions] /\ tangled' \in BOOLEAN
  /\ \A r \in Range(f) : /\ r \in Sessions /\ state[r] = "free" /\ state'[r] = "open"
                         /\ peer'[r] \in DOMAIN f
                         /\ publish'[r] \in table'
  /\ \A x \in Sessions \ Range(f) :
       /\ state'[x] = state[x] /\ peer'[x] = peer[x]
       /\ publish'[x] = publish[x] \/ (x = s /\ publish'[x] = s)
  /\ table \subseteq table' /\ table' \subseteq table \cup {s}
  /\ \A p \in table : plays[p] \subseteq plays'[p]

LEMMA AppendedOK ==
  ASSUME TypeOK, NEW o \in Sessions, NEW n
  PROVE  /\ Appended(o, n) \in [Sessions -> SUBSET Sessions]
         /\ \A x \in Sessions :
              Appended(o, n)[x] = IF x \in Bucket(n) THEN behind[x] \cup {o} ELSE behind[x]
BY DEF TypeOK, Appended

LEMMA PushSound ==
  ASSUME IInv, NEW s \in Sessions, NEW n \in Names,
         NEW targets \in SUBSET Targets, NEW f \in Connections(targets),
         state[s] # "free", publish[s] \in {None, s},
         Push(s, n, f), conf' = conf
  PROVE  /\ Pushed(s, f) /\ ListsSound'
         /\ table' # table => Known(n) = {}
         /\ f # <<>> /\ Known(n) = {} => s \in table'
<1> DEFINE o == Owner(s, n)
           listed == IF o \in table THEN plays[o] ELSE {}
<1>1. /\ Range(f) \subseteq Free /\ Free \subseteq Sessions
      /\ \A r \in Free : state[r] = "free"
  BY ConnectionsOK DEF Free
<1>2. /\ o \in Sessions
      /\ Known(n) = {} => o = s
      /\ Known(n) # {} => o \in table
  BY OwnerOK DEF IInv
<1>3. \A r \in Range(f) : publish[r] = None /\ r \notin table /\ r # s /\ r # o
  BY <1>1, <1>2, MarksAssumption DEF IInv, ListsSound
<1>4. CASE f = <<>>
  <2>1. UNCHANGED <<state, peer, lists>> /\ Range(f) = {}
    BY <1>4, NoConnection DEF Push
  <2> QED
    BY <1>4, <2>1 DEF IInv, TypeOK, ListsSound, Pushed
<1>5. CASE f # <<>>
  <2>1. /\ state' = Opened(f) /\ peer' = Peers(f)
        /\ publish' = [x \in Sessions |->
                         IF x \in Range(f) \cup {o} THEN o ELSE publish[x]]
        /\ plays' = [plays EXCEPT ![o] = listed \cup Range(f)]
        /\ table' = table \cup {o}
        /\ behind' \in {behind, Appended(o, n)}
        /\ tangled' = tangled \/ tangled' = (behind[o] # {})
    BY <1>5 DEF Push
  <2>2. /\ publish' \in [Sessions -> Sessions \cup {None}]
        /\ plays' \in [Sessions -> SUBSET Sessions] /\ table' \subseteq Sessions
        /\ \A p \in table : plays[p] \subseteq plays'[p]
    BY <1>1, <1>2, <2>1 DEF IInv, TypeOK
  <2>14. behind' \in [Sessions -> SUBSET Sessions]
    <3>1. TypeOK /\ behind \in [Sessions -> SUBSET Sessions]
      BY DEF IInv, TypeOK
    <3>2. Appended(o, n) \in [Sessions -> SUBSET Sessions]
      BY <1>2, <3>1, AppendedOK
    <3> QED
      BY <2>1, <3>1, <3>2
  <2>15. tangled' \in BOOLEAN
    <3>1. tangled \in BOOLEAN /\ (behind[o] # {}) \in BOOLEAN
      BY DEF IInv, TypeOK
    <3> QED
      BY <2>1, <3>1
  <2>3. /\ state' \in [Sessions -> {"free", "open", "closing"}]
        /\ \A r \in Range(f) : state'[r] = "open"
        /\ \A x \in Sessions \ Range(f) : state'[x] = state[x]
    BY <1>1, <2>1 DEF IInv, TypeOK, Opened
  <2>4. /\ peer' \in [Sessions -> Targets \cup {Client}]
        /\ \A r \in Range(f) : peer'[r] \in DOMAIN f
        /\ \A x \in Sessions \ Range(f) : peer'[x] = peer[x]
    BY <2>1, PeersOK DEF IInv
  <2>5. o \in table \/ (o = s /\ Known(n) = {})
    BY <1>2
  <2>6. publish[o] = o \/ (publish[o] = None /\ o = s /\ o \notin table)
    BY <2>5, MarksAssumption DEF IInv, ListsSound
  <2>7. \A x \in Sessions : /\ x \in Range(f) \cup {o} => publish'[x] = o
                            /\ x \notin Range(f) \cup {o} => publish'[x] = publish[x]
    BY <2>1
  <2>8. Pushed(s, f)
    BY <1>1, <1>2, <1>3, <2>1, <2>2, <2>3, <2>4, <2>5, <2>6, <2>7, <2>14, <2>15 DEF Pushed
  <2>9. table' = {p \in Sessions : publish'[p] = p}
    <3>1. ASSUME NEW p \in Sessions PROVE p \in table' <=> publish'[p] = p
      BY <1>3, <2>1, <2>5, <2>6, <2>7 DEF IInv, ListsSound
    <3> QED
      BY <2>2, <3>1
  <2>10. \A x \in Sessions : publish'[x] # None =>
           publish'[x] \in table' /\ state'[x] # "free"
    BY <1>2, <2>1, <2>3, <2>6, <2>7 DEF IInv, ListsSound
  <2>11. ASSUME NEW p \in table', NEW x \in Sessions
         PROVE  x \in plays'[p] <=> x # p /\ publish'[x] = p
    <3>1. CASE p = o
      <4>1. plays'[p] = listed \cup Range(f)
        BY <1>2, <2>1, <3>1 DEF IInv, TypeOK
      <4>2. x \in listed <=> x # o /\ publish[x] = o
        BY <1>2, <2>5, <2>6, MarksAssumption DEF IInv, ListsSound
      <4> QED
        BY <1>3, <2>7, <3>1, <4>1, <4>2
    <3>2. CASE p # o
      <4>1. p \in table /\ plays'[p] = plays[p]
        BY <2>1, <3>2 DEF IInv, TypeOK
      <4>2. x \in plays[p] <=> x # p /\ publish[x] = p
        BY <4>1 DEF IInv, ListsSound
      <4> QED
        BY <1>3, <2>6, <2>7, <3>2, <4>1, <4>2, MarksAssumption DEF IInv, ListsSound
    <3> QED
      BY <3>1, <3>2
  <2>12. \A p \in table' : plays'[p] = {x \in Sessions \ {p} : publish'[x] = p}
    BY <2>2, <2>11
  <2>13. ListsSound'
    BY <2>9, <2>10, <2>12 DEF ListsSound
  <2> QED
    BY <1>2, <2>1, <2>5, <2>8, <2>13
<1> QED
  BY <1>4, <1>5

\* A push does not disturb the contexts, the names or the timers of auto_push.
LEMMA PushKeeps ==
  ASSUME IInv, NEW s \in Sessions, NEW n \in Names,
         NEW targets \in SUBSET (conf.pushes \cup conf.slots),
         NEW f \in Connections(targets),
         state[s] # "free", publish[s] \in {None, s}, name[s] = n \/ s \notin table,
         Push(s, n, f), UNCHANGED conf,
         name' = [Named(f, n) EXCEPT ![s] = n],
         role' = role \/ role' = [role EXCEPT ![s] = "publish"],
         auto' = auto \/ auto' = auto \cup {s},
         role'[s] \in {"publish", "ended"} \/ (s \in table /\ auto' = auto),
         autoTimer' \subseteq auto', pushTimer' \subseteq table',
         slots' \in [Sessions -> SUBSET Targets],
         staticTimer' \subseteq conf.statics, crowded' \subseteq Names
  PROVE  IInv'
<1>1. targets \in SUBSET Targets
  BY TargetsOK DEF IInv
<1>2. /\ Pushed(s, f) /\ ListsSound'
      /\ table' # table => Known(n) = {}
  BY <1>1, PushSound
<1>3. /\ DOMAIN f \subseteq targets /\ Range(f) \subseteq Sessions
      /\ s \notin Range(f)
      /\ \A r \in Range(f) : state[r] = "free"
  BY ConnectionsOK DEF Free
<1>4. /\ name' \in [Sessions -> Names \cup {None}]
      /\ name'[s] = n
      /\ \A r \in Range(f) : name'[r] = n
      /\ \A x \in Sessions \ Range(f) : x # s => name'[x] = name[x]
  BY <1>1, <1>3, PeersOK DEF IInv
<1>5. role' \in [Sessions -> {"new", "publish", "play", "ended"}]
  BY DEF IInv, TypeOK
<1>6. \A x \in Sessions : x # s => role'[x] = role[x]
  BY DEF IInv, TypeOK
<1>7. TypeOK'
  BY <1>2, <1>4, <1>5 DEF IInv, TypeOK, Pushed, TimersSound
<1>8. OnePublisher'
  <2>1. \A p \in table : name'[p] = name[p]
    <3>1. \A p \in table : p \in Sessions /\ p \notin Range(f)
      BY <1>3, MarksAssumption DEF IInv, TypeOK, ListsSound
    <3> QED
      BY <1>4, <3>1
  <2>2. CASE table' = table
    BY <2>1, <2>2 DEF IInv, OnePublisher
  <2>3. CASE table' # table
    <3>1. table' = table \cup {s}
      <4>1. table \subseteq table' /\ table' \subseteq table \cup {s}
        BY <1>2 DEF Pushed
      <4> QED
        BY <2>3, <4>1
    <3>2. \A p \in table : name[p] # n
      BY <1>2, <2>3 DEF Known
    <3> QED
      BY <1>4, <2>1, <3>1, <3>2 DEF IInv, OnePublisher
  <2> QED
    BY <2>2, <2>3
<1>9. TimersSound'
  <2>1. \A x \in auto' : state'[x] # "free"
    BY <1>2, <1>3 DEF IInv, TimersSound, TypeOK, Pushed
  <2> QED
    BY <2>1 DEF TimersSound
<1>10. ContextsOK'
  <2> SUFFICES ASSUME NEW x \in Sessions
               PROVE  /\ state'[x] = "free" => IsClient(x)' /\ role'[x] = "new"
                      /\ publish'[x] # None => role'[x] # "new" \/ Relayed(x)'
                      /\ role'[x] = "new" /\ ~IsClient(x)' => name'[x] \in Names
                      /\ publish'[x] # None \/ x \in auto' => name'[x] \in Names
                      /\ x \in auto' => /\ publish'[x] \in {None, x}
                                        /\ role'[x] \in {"publish", "ended"}
    BY DEF ContextsOK
  <2>1. CASE x = s
    <3>1. /\ state'[s] = state[s] /\ peer'[s] = peer[s]
          /\ publish'[s] \in {None, s}
      BY <1>2, <1>3 DEF Pushed
    <3>2. role'[s] # "new" \/ Relayed(s)'
      BY <3>1, MarksAssumption DEF IInv, TypeOK, ContextsOK, ListsSound, Relayed
    <3>3. s \in auto' => role'[s] \in {"publish", "ended"}
      BY DEF IInv, TypeOK, ContextsOK
    <3> QED
      BY <1>4, <2>1, <3>1, <3>2, <3>3
  <2>2. CASE x \in Range(f)
    BY <1>2, <1>3, <1>4, <2>2 DEF IInv, ContextsOK, Pushed, Relayed, TimersSound
  <2>3. CASE x # s /\ x \notin Range(f)
    BY <1>2, <1>3, <1>4, <1>6, <2>3 DEF IInv, ContextsOK, Pushed, Relayed, IsClient
  <2> QED
    BY <2>1, <2>2, <2>3
<1> QED
  BY <1>2, <1>7, <1>8, <1>9, <1>10 DEF IInv

-----------------------------------------------------------------------------
(* What a session leaves behind.                                           *)

LEMMA BehindAfterOK ==
  ASSUME TypeOK, NEW s \in Sessions,
         behind' = BehindAfter(s) \/ behind' = [BehindAfter(s) EXCEPT ![s] = {}]
  PROVE  /\ behind' \in [Sessions -> SUBSET Sessions]
         /\ \A x \in Sessions \ {s} :
              behind'[x] = IF IsOwner(s) /\ x \in table THEN behind[x] \ {s} ELSE behind[x]
         /\ behind'[s] \subseteq behind[s]
<1> DEFINE after == BehindAfter(s)
<1>1. /\ after \in [Sessions -> SUBSET Sessions]
      /\ \A x \in Sessions :
           after[x] = IF IsOwner(s) /\ x \in table THEN behind[x] \ {s} ELSE behind[x]
  BY DEF BehindAfter, TypeOK
<1>2. behind' = after \/ behind' = [after EXCEPT ![s] = {}]
  OBVIOUS
<1> HIDE DEF after
<1> QED
  BY <1>1, <1>2

LEMMA LeaveSound ==
  ASSUME IInv, NEW s \in Sessions,
         publish' = PublishAfter(s), table' = TableAfter(s),
         pushTimer' = PushTimerAfter(s),
         plays' = PlaysAfter(s) \/ plays' = [PlaysAfter(s) EXCEPT ![s] = {}],
         behind' = BehindAfter(s) \/ behind' = [BehindAfter(s) EXCEPT ![s] = {}],
         \A x \in Sessions \ {s} : state'[x] = "free" => state[x] = "free"
  PROVE  /\ publish' \in [Sessions -> Sessions \cup {None}]
         /\ plays' \in [Sessions -> SUBSET Sessions]
         /\ behind' \in [Sessions -> SUBSET Sessions]
         /\ table' = table \ {s} /\ pushTimer' \subseteq table'
         /\ publish'[s] = None
         /\ \A x \in Sessions : publish'[x] \in {None, publish[x]}
         /\ ListsSound'
<1>1. /\ publish' \in [Sessions -> Sessions \cup {None}]
      /\ publish'[s] = None
      /\ \A x \in Sessions :
           publish'[x] = IF x = s \/ (IsOwner(s) /\ x \in plays[s])
                         THEN None ELSE publish[x]
  BY DEF PublishAfter, IInv, TypeOK
<1>2. IsOwner(s) <=> s \in table
  BY DEF IInv, ListsSound, IsOwner
<1>3. table' = table \ {s}
  BY <1>2 DEF TableAfter
<1>4. IsPlay(s) => publish[s] \in table \ {s}
  BY DEF IInv, ListsSound, IsPlay
<1>5. pushTimer' \subseteq table'
  BY <1>2, <1>3, <1>4 DEF PushTimerAfter, IInv, TimersSound
<1>6. /\ plays' \in [Sessions -> SUBSET Sessions]
      /\ \A p \in Sessions \ {s} :
           plays'[p] = IF IsPlay(s) /\ publish[s] = p THEN plays[p] \ {s} ELSE plays[p]
  <2> DEFINE after == PlaysAfter(s)
  <2>1. /\ after \in [Sessions -> SUBSET Sessions]
        /\ \A p \in Sessions :
             after[p] = IF IsPlay(s) /\ publish[s] = p THEN plays[p] \ {s} ELSE plays[p]
    BY <1>4 DEF PlaysAfter, IInv, TypeOK
  <2>2. plays' = after \/ plays' = [after EXCEPT ![s] = {}]
    OBVIOUS
  <2> HIDE DEF after
  <2> QED
    BY <2>1, <2>2
<1>7. table' = {p \in Sessions : publish'[p] = p}
  <2>1. ASSUME NEW p \in Sessions PROVE p \in table' <=> publish'[p] = p
    BY <1>1, <1>2, <1>3, MarksAssumption DEF IInv, ListsSound
  <2> QED
    BY <1>3, <2>1 DEF IInv, TypeOK
<1>8. ASSUME NEW x \in Sessions, publish'[x] # None
      PROVE  publish'[x] \in table' /\ state'[x] # "free"
  <2>1. x # s /\ publish'[x] = publish[x]
    BY <1>1, <1>8
  <2>2. publish[x] \in table /\ state[x] # "free"
    BY <1>8, <2>1 DEF IInv, ListsSound
  <2>3. publish[x] # s
    BY <1>1, <1>2, <1>8, <2>1, <2>2 DEF IInv, ListsSound
  <2> QED
    BY <1>3, <2>1, <2>2, <2>3
<1>9. ASSUME NEW p \in table', NEW x \in Sessions
      PROVE  x \in plays'[p] <=> x # p /\ publish'[x] = p
  <2>1. p \in table /\ p # s /\ p \in Sessions /\ p # None
    BY <1>3, MarksAssumption DEF IInv, TypeOK
  <2>2. x \in plays[p] <=> x # p /\ publish[x] = p
    BY <2>1 DEF IInv, ListsSound
  <2>3. IsOwner(s) /\ x \in plays[s] => publish[x] = s
    BY <1>2 DEF IInv, ListsSound
  <2>4. CASE x = s
    BY <1>1, <1>6, <2>1, <2>2, <2>4 DEF IsPlay
  <2>5. CASE x # s
    BY <1>1, <1>6, <2>1, <2>2, <2>3, <2>5
  <2> QED
    BY <2>4, <2>5
<1>10. \A p \in table' : plays'[p] = {x \in Sessions \ {p} : publish'[x] = p}
  <2>1. ASSUME NEW p \in table'
        PROVE  plays'[p] = {x \in Sessions \ {p} : publish'[x] = p}
    <3>1. plays'[p] \subseteq Sessions
      BY <1>3, <1>6 DEF IInv, TypeOK
    <3> QED
      BY <1>9, <3>1
  <2> QED
    BY <2>1
<1>11. behind' \in [Sessions -> SUBSET Sessions]
  BY BehindAfterOK DEF IInv
<1> QED
  BY <1>1, <1>3, <1>5, <1>6, <1>7, <1>8, <1>10, <1>11 DEF ListsSound

LEMMA StateAfterOK ==
  ASSUME TypeOK, NEW s \in Sessions
  PROVE  /\ StateAfter(s) \in [Sessions -> {"free", "open", "closing"}]
         /\ \A x \in Sessions : StateAfter(s)[x] = "free" <=> state[x] = "free"
BY DEF StateAfter, TypeOK, Open

\* The slots and the timer of auto_push follow a session that leaves.
LEMMA AutoAfterOK ==
  ASSUME IInv, NEW s \in Sessions
  PROVE  /\ SlotsAfter(s) \in [Sessions -> SUBSET Targets]
         /\ AutoTimerAfter(s) \subseteq auto
         /\ s \notin AutoTimerAfter(s)
<1>1. SlotsAfter(s) \in [Sessions -> SUBSET Targets]
  BY DEF SlotsAfter, AutoPushed, IInv, TypeOK
<1>2. AutoPushed(s) => publish[s] \in auto /\ publish[s] # s
  BY DEF AutoPushed, IsPlay
<1>3. AutoTimerAfter(s) \subseteq auto /\ s \notin AutoTimerAfter(s)
  BY <1>2 DEF AutoTimerAfter, IInv, TimersSound
<1> QED
  BY <1>1, <1>3

-----------------------------------------------------------------------------
(* Every step keeps the invariant.                                         *)

LEMMA StartSound ==
  ASSUME conf \in Configs,
         state = Started.state, peer = Started.peer, role = Started.role,
         name = Started.name, publish = Started.publish, plays = Started.plays,
         table = {}, behind = Started.plays, tangled = FALSE,
         pushTimer = {}, autoTimer = {}, auto = {},
         slots = Started.plays, staticTimer = conf.statics, crowded = {}
  PROVE  IInv
<1> USE DEF Started
<1>1. TypeOK
  BY DEF TypeOK
<1>2. \A s \in Sessions : publish[s] = None /\ state[s] = "free" /\ role[s] = "new"
                          /\ IsClient(s) /\ s \notin auto
  BY DEF IsClient
<1>3. ListsSound /\ ContextsOK
  BY <1>2, MarksAssumption DEF ListsSound, ContextsOK
<1> QED
  BY <1>1, <1>3 DEF IInv, OnePublisher, TimersSound

LEMMA RespawnSound == TypeOK /\ Respawn => IInv'
<1> SUFFICES ASSUME TypeOK, Respawn PROVE IInv'
  OBVIOUS
<1> USE DEF Started
<1>1. conf' \in Configs
  BY DEF Respawn, TypeOK
<1>2. TypeOK'
  BY <1>1 DEF Respawn, TypeOK
<1>3. \A s \in Sessions : publish'[s] = None /\ state'[s] = "free" /\ role'[s] = "new"
                          /\ IsClient(s)' /\ s \notin auto'
  BY DEF IsClient, Respawn
<1>4. ListsSound' /\ ContextsOK'
  BY <1>3, MarksAssumption DEF ListsSound, ContextsOK, Respawn
<1> QED
  BY <1>2, <1>4 DEF IInv, OnePublisher, TimersSound, Respawn

\* A step that leaves the contexts alone.
LEMMA ListsKept ==
  ASSUME IInv, UNCHANGED lists,
         \A s \in Sessions : state'[s] = "free" => state[s] = "free"
  PROVE  ListsSound'
BY DEF IInv, ListsSound

LEMMA ConnectStep ==
  ASSUME IInv, NEW s \in Sessions, Connect(s) PROVE IInv'
<1>1. TypeOK'
  BY DEF Connect, IInv, TypeOK
<1>2. \A x \in Sessions : state'[x] = "free" => state[x] = "free"
  BY DEF Connect, IInv, TypeOK
<1>3. ListsSound'
  BY <1>2, ListsKept DEF Connect
<1>4. ContextsOK'
  BY <1>2 DEF Connect, IInv, ContextsOK, IsClient, Relayed
<1> QED
  BY <1>1, <1>2, <1>3, <1>4 DEF Connect, IInv, OnePublisher, TimersSound, TypeOK

LEMMA FinalizeStep ==
  ASSUME IInv, NEW s \in Sessions, Finalize(s) PROVE IInv'
<1>1. TypeOK'
  BY DEF Finalize, IInv, TypeOK
<1>2. \A x \in Sessions : state'[x] = "free" => state[x] = "free"
  BY DEF Finalize, IInv, TypeOK
<1>3. ListsSound'
  BY <1>2, ListsKept DEF Finalize
<1>4. ContextsOK'
  BY <1>2 DEF Finalize, IInv, ContextsOK, IsClient, Relayed
<1> QED
  BY <1>1, <1>2, <1>3, <1>4 DEF Finalize, IInv, OnePublisher, TimersSound, TypeOK

\* A client that relays nothing yet.
LEMMA FreshOK ==
  ASSUME IInv, NEW s \in Sessions, Fresh(s)
  PROVE  /\ publish[s] = None /\ s \notin table /\ s \notin auto
         /\ state[s] = "open" /\ ~Relayed(s)
<1>1. ~Relayed(s)
  BY TargetsOK, MarksAssumption DEF IInv, Fresh, IsClient, Relayed
<1> QED
  BY <1>1, MarksAssumption DEF IInv, Fresh, Open, ContextsOK, ListsSound

LEMMA CrowdOK == ASSUME TypeOK, NEW n \in Names, Crowd(n) PROVE crowded' \subseteq Names
BY DEF Crowd, TypeOK

LEMMA AutoStartsOK ==
  ASSUME IInv, NEW s \in Sessions, NEW f, AutoStarts(s, f)
  PROVE  /\ auto' = auto \/ auto' = auto \cup {s}
         /\ autoTimer' \subseteq auto'
         /\ slots' \in [Sessions -> SUBSET Targets]
BY TargetsOK DEF AutoStarts, IInv, TypeOK, TimersSound

LEMMA PublishStep ==
  ASSUME IInv, NEW s \in Sessions, NEW n \in conf.names, Publish(s, n) PROVE IInv'
<1>1. PICK f \in Connections(PublishTargets(n)) :
        /\ PushesOf(n) \subseteq DOMAIN f \/ HadCtx(n, f)
        /\ Push(s, n, f)
        /\ name' = [Named(f, n) EXCEPT ![s] = n]
        /\ AutoStarts(s, f)
        /\ pushTimer' = IF PushesOf(n) \subseteq DOMAIN f
                        THEN pushTimer ELSE pushTimer \cup {s}
  BY DEF Publish
<1>2. n \in Names /\ PublishTargets(n) \subseteq conf.pushes \cup conf.slots
  BY TargetsOK DEF IInv
<1>3. publish[s] = None /\ s \notin table /\ state[s] = "open"
  BY FreshOK DEF Publish
<1>4. HadCtx(n, f) => f # <<>> /\ Known(n) = {}
  BY NoConnection DEF HadCtx
<1>5. PublishTargets(n) \in SUBSET Targets
  BY <1>2, TargetsOK DEF IInv
<1>6. /\ table \subseteq table'
      /\ f # <<>> /\ Known(n) = {} => s \in table'
  BY <1>1, <1>2, <1>3, <1>5, PushSound DEF Publish, Pushed
<1>7. pushTimer' \subseteq table'
  BY <1>1, <1>4, <1>6 DEF IInv, TimersSound
<1>8. /\ auto' = auto \/ auto' = auto \cup {s}
      /\ autoTimer' \subseteq auto' /\ slots' \in [Sessions -> SUBSET Targets]
  BY <1>1, AutoStartsOK
<1>9. /\ role' = [role EXCEPT ![s] = "publish"] /\ role'[s] \in {"publish", "ended"}
      /\ staticTimer' \subseteq conf.statics /\ crowded' \subseteq Names
      /\ UNCHANGED conf
  BY <1>2, CrowdOK DEF Publish, IInv, TypeOK
<1> QED
  BY <1>1, <1>2, <1>3, <1>7, <1>8, <1>9, PushKeeps

LEMMA StaticPublishStep ==
  ASSUME IInv, NEW s \in Sessions, StaticPublish(s) PROVE IInv'
<1>1. PICK f \in Connections(conf.slots) :
        /\ Push(s, name[s], f)
        /\ name' = Named(f, name[s])
        /\ AutoStarts(s, f)
  BY DEF StaticPublish
<1>2. name[s] \in Names /\ ~Relayed(s) /\ publish[s] = None /\ s \notin table
  <2>1. peer[s] \in conf.statics /\ role[s] = "new"
    BY DEF StaticPublish, Static
  <2>2. ~IsClient(s) /\ ~Relayed(s)
    BY <2>1, ConfOK, TargetsOK, MarksAssumption DEF Apart, IInv, IsClient, Relayed
  <2> QED
    BY <2>1, <2>2, MarksAssumption DEF IInv, ContextsOK, ListsSound
<1>3. conf.slots \in SUBSET Targets /\ conf.slots \in SUBSET (conf.pushes \cup conf.slots)
  BY TargetsOK DEF IInv
<1>4. s \notin Range(f)
  BY ConnectionsOK DEF Free, StaticPublish, Open
<1>5. name' = [Named(f, name[s]) EXCEPT ![s] = name[s]]
  BY <1>1, <1>4 DEF Named
<1>6. table \subseteq table' /\ pushTimer' \subseteq table'
  BY <1>1, <1>2, <1>3, PushSound DEF StaticPublish, Pushed, IInv, TimersSound, Open
<1>7. /\ auto' = auto \/ auto' = auto \cup {s}
      /\ autoTimer' \subseteq auto' /\ slots' \in [Sessions -> SUBSET Targets]
  BY <1>1, AutoStartsOK
<1>8. /\ role' = [role EXCEPT ![s] = "publish"] /\ role'[s] \in {"publish", "ended"}
      /\ staticTimer' \subseteq conf.statics /\ crowded' \subseteq Names
      /\ UNCHANGED conf /\ state[s] # "free"
  BY <1>2, CrowdOK DEF StaticPublish, IInv, TypeOK, Open
<1> QED
  BY <1>1, <1>2, <1>3, <1>5, <1>6, <1>7, <1>8, PushKeeps

\* A timer that pushes again.
LEMMA ReconnectStep ==
  ASSUME IInv, NEW s \in table \cup auto,
         NEW targets \in SUBSET (conf.pushes \cup conf.slots),
         NEW f \in Connections(targets),
         Push(s, name[s], f), name' = Named(f, name[s]),
         pushTimer' \subseteq pushTimer, autoTimer' \subseteq autoTimer,
         slots' \in [Sessions -> SUBSET Targets],
         UNCHANGED <<conf, role, staticTimer, auto, crowded>>
  PROVE  IInv'
<1>1. s \in Sessions /\ state[s] # "free" /\ publish[s] \in {None, s}
  BY MarksAssumption DEF IInv, TypeOK, ContextsOK, ListsSound, TimersSound
<1>2. /\ name[s] \in Names
      /\ role[s] \in {"publish", "ended"} \/ s \in table
  BY <1>1, MarksAssumption DEF IInv, ContextsOK, ListsSound
<1>3. targets \in SUBSET Targets
  BY TargetsOK DEF IInv
<1>4. s \notin Range(f)
  BY <1>1, ConnectionsOK DEF Free
<1>5. name' = [Named(f, name[s]) EXCEPT ![s] = name[s]]
  BY <1>4 DEF Named
<1>6. pushTimer' \subseteq table'
  BY <1>1, <1>2, <1>3, PushSound DEF Pushed, IInv, TimersSound
<1>7. autoTimer' \subseteq auto' /\ staticTimer' \subseteq conf.statics
      /\ crowded' \subseteq Names
  BY DEF IInv, TypeOK, TimersSound
<1> QED
  BY <1>1, <1>2, <1>5, <1>6, <1>7, PushKeeps

LEMMA PushReconnectStep ==
  ASSUME IInv, NEW s \in Sessions, PushReconnect(s) PROVE IInv'
<1>1. PICK f \in Connections(Missing(s)) :
        /\ Push(s, name[s], f)
        /\ name' = Named(f, name[s])
        /\ pushTimer' = IF DOMAIN f = Missing(s) THEN pushTimer \ {s} ELSE pushTimer
  BY DEF PushReconnect
<1>2. Missing(s) \in SUBSET (conf.pushes \cup conf.slots)
  BY TargetsOK DEF IInv, Missing
<1>3. /\ s \in table \cup auto /\ pushTimer' \subseteq pushTimer
      /\ UNCHANGED <<conf, role, autoTimer, slots, staticTimer, auto, crowded>>
  BY <1>1 DEF PushReconnect, IInv, TimersSound
<1>4. slots' \in [Sessions -> SUBSET Targets]
  BY <1>3 DEF IInv, TypeOK
<1> QED
  BY <1>1, <1>2, <1>3, <1>4, ReconnectStep

LEMMA AutoReconnectStep ==
  ASSUME IInv, NEW s \in Sessions, AutoReconnect(s) PROVE IInv'
<1>1. PICK f \in Connections(conf.slots \ slots[s]) :
        /\ Push(s, name[s], f)
        /\ name' = Named(f, name[s])
        /\ slots' = [slots EXCEPT ![s] = @ \cup DOMAIN f]
        /\ autoTimer' = IF slots'[s] = conf.slots THEN autoTimer \ {s} ELSE autoTimer
  BY DEF AutoReconnect
<1>2. conf.slots \ slots[s] \in SUBSET (conf.pushes \cup conf.slots)
  OBVIOUS
<1>3. /\ s \in table \cup auto /\ autoTimer' \subseteq autoTimer
      /\ UNCHANGED <<conf, role, pushTimer, staticTimer, auto, crowded>>
  BY <1>1 DEF AutoReconnect, IInv, TimersSound
<1>4. slots' \in [Sessions -> SUBSET Targets]
  <2>1. DOMAIN f \subseteq Targets
    BY ConnectionsOK, TargetsOK DEF IInv
  <2> QED
    BY <1>1, <2>1 DEF IInv, TypeOK
<1> QED
  BY <1>1, <1>2, <1>3, <1>4, ReconnectStep

LEMMA PlayFoundStep ==
  ASSUME IInv, NEW s \in Sessions, NEW n \in conf.names, PlayFound(s, n) PROVE IInv'
<1> DEFINE o == Owner(s, n)
<1>1. /\ publish[s] = None /\ s \notin table /\ s \notin auto /\ n \in Names
      /\ state[s] = "open"
  BY FreshOK, TargetsOK DEF PlayFound, IInv
<1>2. o \in table /\ o # s /\ o \in Sessions
  BY <1>1, OwnerOK DEF PlayFound, IInv
<1>3. /\ publish' = [publish EXCEPT ![s] = o]
      /\ plays' = [plays EXCEPT ![o] = @ \cup {s}]
      /\ name' = [name EXCEPT ![s] = n]
      /\ role' = [role EXCEPT ![s] = "play"]
      /\ UNCHANGED <<conf, state, peer, table, behind, tangled, timers, auto, slots,
                     crowded>>
  BY DEF PlayFound
<1> HIDE DEF o
<1>4. TypeOK'
  BY <1>1, <1>2, <1>3 DEF IInv, TypeOK
<1>5. ContextsOK'
  BY <1>1, <1>3 DEF IInv, TypeOK, ContextsOK, IsClient, Relayed
<1>6. ListsSound'
  <2>1. \A p \in table : publish[p] = p /\ p # s /\ p # None /\ p \in Sessions
    BY <1>1, MarksAssumption DEF IInv, ListsSound
  <2>2. table' = {p \in Sessions : publish'[p] = p}
    BY <1>1, <1>2, <1>3 DEF IInv, TypeOK, ListsSound
  <2>3. \A x \in Sessions : publish'[x] # None =>
          publish'[x] \in table' /\ state'[x] # "free"
    BY <1>1, <1>2, <1>3 DEF IInv, TypeOK, ListsSound
  <2>4. ASSUME NEW p \in table'
        PROVE  plays'[p] = {x \in Sessions \ {p} : publish'[x] = p}
    <3>1. plays[p] = {x \in Sessions \ {p} : publish[x] = p}
      BY <1>3 DEF IInv, ListsSound
    <3>2. plays'[p] = IF p = o THEN plays[p] \cup {s} ELSE plays[p]
      BY <1>2, <1>3, <2>1 DEF IInv, TypeOK
    <3>3. \A x \in Sessions : publish'[x] = IF x = s THEN o ELSE publish[x]
      BY <1>3 DEF IInv, TypeOK
    <3> QED
      BY <1>1, <1>3, <2>1, <3>1, <3>2, <3>3
  <2> QED
    BY <2>2, <2>3, <2>4 DEF ListsSound
<1>7. OnePublisher' /\ TimersSound'
  BY <1>1, <1>3 DEF IInv, TypeOK, OnePublisher, TimersSound
<1> QED
  BY <1>4, <1>5, <1>6, <1>7 DEF IInv

LEMMA PlayPullsStep ==
  ASSUME IInv, NEW s \in Sessions, NEW n \in conf.names, PlayPulls(s, n) PROVE IInv'
<1>1. /\ publish[s] = None /\ s \notin table /\ s \notin auto /\ n \in Names
      /\ state[s] = "open" /\ Known(n) = {}
  BY FreshOK, TargetsOK DEF PlayPulls, IInv
<1>2. PICK t \in PullsOf(n), r \in Free :
        /\ state' \in {[state EXCEPT ![r] = "open"],
                       [state EXCEPT ![r] = "open", ![s] = "closing"]}
        /\ peer' = [peer EXCEPT ![r] = t]
        /\ name' = [name EXCEPT ![r] = n, ![s] = n]
        /\ publish' = [publish EXCEPT ![r] = r, ![s] = r]
        /\ plays' = [plays EXCEPT ![r] = {s}]
        /\ table' = table \cup {r} /\ behind' = Appended(r, n)
  BY DEF PlayPulls
<1>3. /\ role' = [role EXCEPT ![s] = "play"] /\ crowded' \subseteq Names
      /\ UNCHANGED <<conf, tangled, timers, auto, slots>>
  BY <1>1, CrowdOK DEF PlayPulls, IInv
<1>4. /\ r \in Sessions /\ state[r] = "free" /\ r # s
      /\ publish[r] = None /\ r \notin table /\ r \notin auto
      /\ t \in conf.pulls /\ t \in Targets
  BY <1>1, TargetsOK, MarksAssumption DEF Free, IInv, ListsSound, TimersSound
<1>5. \A x \in Sessions : /\ state'[x] = "free" => state[x] = "free" /\ x # r /\ x # s
                          /\ publish'[x] = IF x \in {r, s} THEN r ELSE publish[x]
                          /\ name'[x] = IF x \in {r, s} THEN n ELSE name[x]
                          /\ peer'[x] = IF x = r THEN t ELSE peer[x]
                          /\ role'[x] = IF x = s THEN "play" ELSE role[x]
                          /\ plays'[x] = IF x = r THEN {s} ELSE plays[x]
  BY <1>1, <1>2, <1>3, <1>4 DEF IInv, TypeOK
<1>11. behind' \in [Sessions -> SUBSET Sessions]
  BY <1>2, <1>4, AppendedOK DEF IInv
<1>12. tangled' \in BOOLEAN
  BY <1>3 DEF IInv, TypeOK
<1>13. /\ state' \in [Sessions -> {"free", "open", "closing"}]
       /\ peer' \in [Sessions -> Targets \cup {Client}]
       /\ role' \in [Sessions -> {"new", "publish", "play", "ended"}]
       /\ name' \in [Sessions -> Names \cup {None}]
  BY <1>1, <1>2, <1>3, <1>4 DEF IInv, TypeOK
<1>14. /\ publish' \in [Sessions -> Sessions \cup {None}]
       /\ plays' \in [Sessions -> SUBSET Sessions] /\ table' \subseteq Sessions
  BY <1>1, <1>2, <1>4 DEF IInv, TypeOK
<1>15. /\ conf' \in Configs /\ pushTimer' \subseteq Sessions
       /\ autoTimer' \subseteq Sessions /\ auto' \subseteq Sessions
       /\ slots' \in [Sessions -> SUBSET Targets]
       /\ staticTimer' \subseteq conf'.statics
  BY <1>3 DEF IInv, TypeOK, timers
<1>6. TypeOK'
  BY <1>3, <1>11, <1>12, <1>13, <1>14, <1>15 DEF TypeOK
<1>7. ContextsOK'
  BY <1>1, <1>3, <1>4, <1>5 DEF IInv, ContextsOK, IsClient, Relayed
<1>8. ListsSound'
  <2>1. \A p \in table : publish[p] = p /\ p # s /\ p # r /\ p \in Sessions
    BY <1>1, <1>4 DEF IInv, ListsSound
  <2>2. \A x \in Sessions : publish[x] # r /\ publish[x] # s
    BY <1>1, <1>4, MarksAssumption DEF IInv, ListsSound
  <2>3. table' = {p \in Sessions : publish'[p] = p}
    <3>1. ASSUME NEW p \in Sessions PROVE p \in table' <=> publish'[p] = p
      BY <1>2, <1>4, <1>5, <2>1 DEF IInv, ListsSound
    <3> QED
      BY <1>6, <3>1 DEF TypeOK
  <2>4. \A x \in Sessions : publish'[x] # None =>
          publish'[x] \in table' /\ state'[x] # "free"
    <3>1. table' = table \cup {r}
      BY <1>2
    <3> QED
      BY <1>5, <3>1 DEF IInv, ListsSound
  <2>5. ASSUME NEW p \in table'
        PROVE  plays'[p] = {x \in Sessions \ {p} : publish'[x] = p}
    <3>1. CASE p = r
      BY <1>4, <1>5, <2>2, <3>1
    <3>2. CASE p # r
      <4>1. p \in table /\ plays[p] = {x \in Sessions \ {p} : publish[x] = p}
        BY <1>2, <3>2 DEF IInv, ListsSound
      <4> QED
        BY <1>1, <1>4, <1>5, <2>1, <3>2, <4>1, MarksAssumption
    <3> QED
      BY <3>1, <3>2
  <2> QED
    BY <2>3, <2>4, <2>5 DEF ListsSound
<1>9. OnePublisher'
  <2>1. \A p \in table : name[p] # n /\ name'[p] = name[p]
    BY <1>1, <1>4, <1>5 DEF IInv, TypeOK, Known
  <2> QED
    <3>1. table' = table \cup {r} /\ name'[r] = n
      BY <1>2, <1>4, <1>5
    <3> QED
      BY <2>1, <3>1 DEF IInv, OnePublisher
<1>10. TimersSound'
  BY <1>2, <1>3, <1>5 DEF IInv, TypeOK, TimersSound
<1> QED
  BY <1>6, <1>7, <1>8, <1>9, <1>10 DEF IInv

LEMMA PlayFailsStep ==
  ASSUME IInv, NEW s \in Sessions, NEW n \in conf.names, PlayFails(s, n) PROVE IInv'
<1>1. publish[s] = None /\ s \notin table /\ s \notin auto /\ n \in Names
  BY FreshOK, TargetsOK DEF PlayFails, IInv
<1>2. TypeOK'
  BY <1>1 DEF PlayFails, IInv, TypeOK
<1>3. \A x \in Sessions : state'[x] = "free" => state[x] = "free" /\ x # s
  BY DEF PlayFails, IInv, TypeOK
<1>4. ListsSound'
  BY <1>3, ListsKept DEF PlayFails
<1>5. ContextsOK'
  BY <1>1, <1>3 DEF PlayFails, IInv, TypeOK, ContextsOK, IsClient, Relayed
<1> QED
  BY <1>1, <1>2, <1>3, <1>4, <1>5 DEF PlayFails, IInv, TypeOK, OnePublisher, TimersSound

LEMMA StaticReconnectStep ==
  ASSUME IInv, NEW t \in Targets, StaticReconnect(t) PROVE IInv'
<1>1. PICK s \in Free, n \in conf.for[t] :
        /\ state' = [state EXCEPT ![s] = "open"]
        /\ peer' = [peer EXCEPT ![s] = t]
        /\ name' = [name EXCEPT ![s] = n]
  BY DEF StaticReconnect
<1>2. n \in Names
  BY ConfOK DEF ConfigType, IInv
<1>3. /\ s \in Sessions /\ state[s] = "free"
      /\ publish[s] = None /\ s \notin table /\ s \notin auto
  BY MarksAssumption DEF Free, IInv, ListsSound, TimersSound
<1>4. TypeOK'
  BY <1>1, <1>2, <1>3 DEF StaticReconnect, IInv, TypeOK
<1>5. \A x \in Sessions : state'[x] = "free" => state[x] = "free" /\ x # s
  BY <1>1, <1>3 DEF IInv, TypeOK
<1>6. ListsSound'
  BY <1>5, ListsKept DEF StaticReconnect
<1>7. ContextsOK'
  BY <1>1, <1>2, <1>3, <1>5 DEF StaticReconnect, IInv, TypeOK, ContextsOK, IsClient, Relayed
<1> QED
  BY <1>1, <1>3, <1>4, <1>5, <1>6, <1>7
  DEF StaticReconnect, IInv, TypeOK, OnePublisher, TimersSound

\* closeStream and deleteStream.
LEMMA StreamEnds ==
  ASSUME IInv, NEW s \in Sessions, state[s] = "open",
         state' = StateAfter(s), publish' = PublishAfter(s), plays' = PlaysAfter(s),
         table' = TableAfter(s), behind' = BehindAfter(s),
         pushTimer' = PushTimerAfter(s), role' = [role EXCEPT ![s] = "ended"],
         slots' \in [Sessions -> SUBSET Targets], autoTimer' \subseteq auto,
         UNCHANGED <<conf, peer, name, tangled, auto, staticTimer, crowded>>
  PROVE  IInv'
<1>1. /\ state' \in [Sessions -> {"free", "open", "closing"}]
      /\ \A x \in Sessions : state'[x] = "free" <=> state[x] = "free"
  BY StateAfterOK DEF IInv
<1>2. /\ publish' \in [Sessions -> Sessions \cup {None}]
      /\ plays' \in [Sessions -> SUBSET Sessions]
      /\ behind' \in [Sessions -> SUBSET Sessions]
      /\ table' = table \ {s} /\ pushTimer' \subseteq table'
      /\ \A x \in Sessions : publish'[x] \in {None, publish[x]}
      /\ ListsSound'
  BY <1>1, LeaveSound
<1>3. TypeOK'
  BY <1>1, <1>2 DEF IInv, TypeOK
<1>4. role'[s] = "ended" /\ \A x \in Sessions : x # s => role'[x] = role[x]
  BY DEF IInv, TypeOK
<1>5. ContextsOK'
  BY <1>1, <1>2, <1>4 DEF IInv, ContextsOK, IsClient, Relayed
<1>6. OnePublisher' /\ TimersSound'
  BY <1>1, <1>2 DEF IInv, TypeOK, OnePublisher, TimersSound
<1> QED
  BY <1>2, <1>3, <1>5, <1>6 DEF IInv

LEMMA CloseStreamStep ==
  ASSUME IInv, NEW s \in Sessions, CloseStream(s) PROVE IInv'
<1>1. /\ role' = [role EXCEPT ![s] = "ended"] /\ state[s] = "open"
      /\ UNCHANGED <<conf, peer, name, auto, slots, autoTimer, staticTimer, crowded>>
  BY DEF CloseStream, Open
<1>2. CASE conf.sessionRelay
  <2>1. UNCHANGED <<state, lists, pushTimer>>
    BY <1>2 DEF CloseStream
  <2>2. role'[s] = "ended" /\ \A x \in Sessions : x # s => role'[x] = role[x]
    BY <1>1 DEF IInv, TypeOK
  <2>3. ContextsOK'
    BY <1>1, <2>1, <2>2 DEF IInv, ContextsOK, IsClient, Relayed
  <2> QED
    BY <1>1, <2>1, <2>3 DEF IInv, TypeOK, ListsSound, OnePublisher, TimersSound
<1>3. CASE ~conf.sessionRelay
  <2>1. /\ state' = StateAfter(s)
        /\ publish' = PublishAfter(s) /\ plays' = PlaysAfter(s)
        /\ table' = TableAfter(s) /\ behind' = BehindAfter(s)
        /\ pushTimer' = PushTimerAfter(s) /\ UNCHANGED tangled
    BY <1>3 DEF CloseStream
  <2>2. slots' \in [Sessions -> SUBSET Targets] /\ autoTimer' \subseteq auto
    BY <1>1 DEF IInv, TypeOK, TimersSound
  <2> QED
    BY <1>1, <2>1, <2>2, StreamEnds
<1> QED
  BY <1>2, <1>3

LEMMA DeleteStreamStep ==
  ASSUME IInv, NEW s \in Sessions, DeleteStream(s) PROVE IInv'
<1>1. slots' \in [Sessions -> SUBSET Targets] /\ autoTimer' \subseteq auto
  BY AutoAfterOK DEF DeleteStream
<1> QED
  BY <1>1, StreamEnds DEF DeleteStream, Open

LEMMA CloseStep ==
  ASSUME IInv, NEW s \in Sessions, Close(s) PROVE IInv'
<1> USE DEF Close
<1>1. /\ state' \in [Sessions -> {"free", "open", "closing"}]
      /\ \A x \in Sessions \ {s} : state'[x] = "free" <=> state[x] = "free"
  BY StateAfterOK DEF IInv
<1>2. /\ publish' \in [Sessions -> Sessions \cup {None}]
      /\ plays' \in [Sessions -> SUBSET Sessions]
      /\ behind' \in [Sessions -> SUBSET Sessions]
      /\ table' = table \ {s} /\ pushTimer' \subseteq table'
      /\ publish'[s] = None
      /\ \A x \in Sessions : publish'[x] \in {None, publish[x]}
      /\ ListsSound'
  BY <1>1, LeaveSound
<1>3. /\ slots' \in [Sessions -> SUBSET Targets]
      /\ auto' = auto \ {s} /\ autoTimer' \subseteq auto'
  BY AutoAfterOK
<1>4. /\ peer'[s] = Client /\ role'[s] = "new"
      /\ \A x \in Sessions \ {s} :
           peer'[x] = peer[x] /\ role'[x] = role[x] /\ name'[x] = name[x]
  BY DEF IInv, TypeOK
<1>5. staticTimer' \subseteq conf.statics
  BY DEF IInv, TypeOK, StaticTimerAfter, Static
<1>6. TypeOK'
  BY <1>1, <1>2, <1>3, <1>5 DEF IInv, TypeOK
<1>7. ContextsOK'
  <2>1. ASSUME NEW x \in Sessions, x # s
        PROVE  /\ state'[x] = "free" => IsClient(x)' /\ role'[x] = "new"
               /\ publish'[x] # None => role'[x] # "new" \/ Relayed(x)'
               /\ role'[x] = "new" /\ ~IsClient(x)' => name'[x] \in Names
               /\ publish'[x] # None \/ x \in auto' => name'[x] \in Names
               /\ x \in auto' => /\ publish'[x] \in {None, x}
                                 /\ role'[x] \in {"publish", "ended"}
    BY <1>1, <1>2, <1>3, <1>4, <2>1 DEF IInv, ContextsOK, IsClient, Relayed
  <2> QED
    BY <1>2, <1>3, <1>4, <2>1 DEF ContextsOK, IsClient
<1>8. OnePublisher' /\ TimersSound'
  BY <1>1, <1>2, <1>3, <1>4 DEF IInv, TypeOK, OnePublisher, TimersSound
<1> QED
  BY <1>2, <1>6, <1>7, <1>8 DEF IInv

LEMMA Inductive == IInv /\ [Next]_vars => IInv'
<1> SUFFICES ASSUME IInv, [Next]_vars PROVE IInv'
  OBVIOUS
<1>1. ASSUME NEW s \in Sessions, Connect(s) PROVE IInv'
  BY <1>1, ConnectStep
<1>2. ASSUME NEW s \in Sessions, Ending(s) PROVE IInv'
  BY <1>2, CloseStreamStep, DeleteStreamStep, FinalizeStep, CloseStep DEF Ending
<1>3. ASSUME NEW s \in Sessions, Timer(s) PROVE IInv'
  BY <1>3, PushReconnectStep, AutoReconnectStep, RespawnSound
  DEF Timer, PushReconnectCrashes, IInv
<1>4. ASSUME NEW s \in Sessions, StaticPublish(s) PROVE IInv'
  BY <1>4, StaticPublishStep
<1>5. ASSUME NEW s \in Sessions, NEW n \in conf.names, Command(s, n) PROVE IInv'
  BY <1>5, PublishStep, PlayFoundStep, PlayPullsStep, PlayFailsStep, RespawnSound
  DEF Command, PublishCrashes, IInv
<1>6. ASSUME NEW t \in Targets, StaticReconnect(t) PROVE IInv'
  BY <1>6, StaticReconnectStep
<1>7. CASE UNCHANGED vars
  BY <1>7 DEF vars, IInv, TypeOK, ContextsOK, IsClient, Relayed, ListsSound,
              OnePublisher, TimersSound
<1> QED
  BY <1>1, <1>2, <1>3, <1>4, <1>5, <1>6, <1>7, RespawnSound DEF Next, Tangled, IInv

LEMMA Invariant == Spec => []IInv
<1>1. Init => IInv
  BY StartSound DEF Init
<1> QED
  BY <1>1, Inductive, PTL DEF Spec

\* Every value of the variables that the relays reach is of its type.
THEOREM TypeCorrect == Spec => []TypeOK
BY Invariant, PTL DEF IInv

\* ngx_rtmp_relay_create finds at most one publisher of a name.
THEOREM OnePublisherAlways == Spec => []OnePublisher
BY Invariant, PTL DEF IInv

\* No timer of a context outlives its session.
THEOREM TimersAlwaysSound == Spec => []TimersSound
BY Invariant, PTL DEF IInv

-----------------------------------------------------------------------------
(* Three kinds of step.                                                    *)

\* Steps that push, to targets of push and of auto_push.
PushStep(s) == \/ PushReconnect(s) \/ AutoReconnect(s) \/ StaticPublish(s)
               \/ \E n \in conf.names : Publish(s, n)

\* Steps in which a session leaves the lists.
LeaveStep(s) ==
  /\ state' = StateAfter(s) \/ state' = [StateAfter(s) EXCEPT ![s] = "free"]
  /\ publish' = PublishAfter(s)
  /\ plays' = PlaysAfter(s) \/ plays' = [PlaysAfter(s) EXCEPT ![s] = {}]
  /\ table' = TableAfter(s) /\ pushTimer' = PushTimerAfter(s)
  /\ behind' = BehindAfter(s) \/ behind' = [BehindAfter(s) EXCEPT ![s] = {}]
  /\ \A x \in Sessions \ {s} : peer'[x] = peer[x]
  /\ (IsClient(s) /\ peer' = peer) \/ state'[s] = "free"
  /\ UNCHANGED <<conf, tangled>>

LEMMA PushStepOK ==
  ASSUME IInv, NEW s \in Sessions, PushStep(s)
  PROVE  /\ UNCHANGED <<conf, staticTimer>>
         /\ \E f : Pushed(s, f) /\ DOMAIN f \subseteq conf.pushes \cup conf.slots
<1>1. CASE PushReconnect(s)
  <2>1. PICK f \in Connections(Missing(s)) : Push(s, name[s], f)
    BY <1>1 DEF PushReconnect
  <2>2. /\ Missing(s) \subseteq conf.pushes /\ Missing(s) \in SUBSET Targets
        /\ s \in table
    BY <1>1, TargetsOK DEF PushReconnect, IInv, Missing, TimersSound
  <2>3. name[s] \in Names /\ publish[s] = s /\ state[s] # "free"
    BY <2>2, MarksAssumption DEF IInv, ContextsOK, ListsSound
  <2>4. Pushed(s, f)
    BY <1>1, <2>1, <2>2, <2>3, PushSound DEF PushReconnect
  <2> QED
    BY <1>1, <2>2, <2>4, ConnectionsOK DEF PushReconnect
<1>2. CASE AutoReconnect(s)
  <2>1. PICK f \in Connections(conf.slots \ slots[s]) : Push(s, name[s], f)
    BY <1>2 DEF AutoReconnect
  <2>2. conf.slots \ slots[s] \in SUBSET Targets /\ s \in auto
    BY <1>2, TargetsOK DEF AutoReconnect, IInv, TimersSound
  <2>3. name[s] \in Names /\ publish[s] \in {None, s} /\ state[s] # "free"
    BY <2>2 DEF IInv, ContextsOK, TimersSound
  <2>4. Pushed(s, f)
    BY <1>2, <2>1, <2>2, <2>3, PushSound DEF AutoReconnect
  <2> QED
    BY <1>2, <2>2, <2>4, ConnectionsOK DEF AutoReconnect
<1>3. CASE StaticPublish(s)
  <2>1. PICK f \in Connections(conf.slots) : Push(s, name[s], f)
    BY <1>3 DEF StaticPublish
  <2>2. peer[s] \in conf.statics /\ role[s] = "new" /\ state[s] # "free"
    BY <1>3 DEF StaticPublish, Static, Open
  <2>3. ~IsClient(s) /\ ~Relayed(s)
    BY <2>2, ConfOK, TargetsOK, MarksAssumption DEF Apart, IInv, IsClient, Relayed
  <2>4. name[s] \in Names /\ publish[s] = None
    BY <2>2, <2>3 DEF IInv, ContextsOK
  <2>5. conf.slots \in SUBSET Targets
    BY TargetsOK DEF IInv
  <2>6. Pushed(s, f)
    BY <1>3, <2>1, <2>2, <2>4, <2>5, PushSound DEF StaticPublish
  <2> QED
    BY <1>3, <2>5, <2>6, ConnectionsOK DEF StaticPublish
<1>4. ASSUME NEW n \in conf.names, Publish(s, n)
      PROVE  /\ UNCHANGED <<conf, staticTimer>>
             /\ \E f : Pushed(s, f) /\ DOMAIN f \subseteq conf.pushes \cup conf.slots
  <2>1. PICK f \in Connections(PublishTargets(n)) : Push(s, n, f)
    BY <1>4 DEF Publish
  <2>2. /\ PublishTargets(n) \in SUBSET Targets /\ n \in Names
        /\ PublishTargets(n) \subseteq conf.pushes \cup conf.slots
    BY TargetsOK DEF IInv
  <2>3. publish[s] = None /\ state[s] # "free"
    BY <1>4, FreshOK DEF Publish
  <2>4. Pushed(s, f)
    BY <1>4, <2>1, <2>2, <2>3, PushSound DEF Publish
  <2> QED
    BY <1>4, <2>2, <2>4, ConnectionsOK DEF Publish
<1> QED
  BY <1>1, <1>2, <1>3, <1>4 DEF PushStep

LEMMA LeaveSteps ==
  ASSUME IInv, NEW s \in Sessions, CloseStream(s) \/ DeleteStream(s) \/ Close(s)
  PROVE  LeaveStep(s) \/ UNCHANGED <<conf, state, peer, lists, staticTimer>>
<1>1. CASE CloseStream(s)
  BY <1>1 DEF CloseStream, LeaveStep
<1>2. CASE DeleteStream(s)
  BY <1>2 DEF DeleteStream, LeaveStep
<1>3. CASE Close(s)
  BY <1>3, StateAfterOK DEF Close, LeaveStep, IInv, TypeOK
<1> QED
  BY <1>1, <1>2, <1>3

\* Who is in a list and who ends, as seen from any session.
LEMMA LeaveOK ==
  ASSUME IInv, NEW s \in Sessions, LeaveStep(s)
  PROVE  /\ table' = table \ {s} /\ ListsSound'
         /\ \A x \in Sessions \ {s} :
              /\ state'[x] = IF x \in Finalized(s) /\ state[x] = "open"
                             THEN "closing" ELSE state[x]
              /\ publish'[x] = IF IsOwner(s) /\ x \in plays[s] THEN None ELSE publish[x]
              /\ plays'[x] = IF IsPlay(s) /\ publish[s] = x THEN plays[x] \ {s}
                                                           ELSE plays[x]
<1>1. \A x \in Sessions \ {s} :
        state'[x] = IF x \in Finalized(s) /\ state[x] = "open" THEN "closing" ELSE state[x]
  BY DEF LeaveStep, StateAfter, Open
<1>2. \A x \in Sessions \ {s} : state'[x] = "free" => state[x] = "free"
  BY <1>1
<1>3. table' = table \ {s} /\ ListsSound'
  BY <1>2, LeaveSound DEF LeaveStep
<1>4. \A x \in Sessions \ {s} :
        publish'[x] = IF IsOwner(s) /\ x \in plays[s] THEN None ELSE publish[x]
  BY DEF LeaveStep, PublishAfter
<1>5. \A x \in Sessions \ {s} :
        plays'[x] = IF IsPlay(s) /\ publish[s] = x THEN plays[x] \ {s} ELSE plays[x]
  BY DEF LeaveStep, PlaysAfter, IInv, TypeOK
<1> QED
  BY <1>1, <1>3, <1>4, <1>5

-----------------------------------------------------------------------------
(* The buckets of the table.                                               *)

\* The context of s is out of the table, and its ctx->next leads to another.
Leftover(s) == s \notin table /\ behind[s] # {}

\* Only the timer of auto_push inserts such a context again.
LeftoverOK ==
  /\ \A s \in Sessions : Leftover(s) =>
       role[s] = "ended" /\ (conf.sessionRelay => s \notin autoTimer)
  /\ auto # {} => conf.slots # {}

BucketInv ==
  /\ tangled \/ Ordered
  /\ tangled => conf.slots # {} /\ ~conf.sessionRelay
  /\ LeftoverOK

\* A context that leads to no other is inserted at the end of its bucket.
LEMMA AppendOrdered ==
  ASSUME IInv, Ordered, NEW o \in Sessions, o \notin table, behind[o] = {},
         NEW n, behind' = Appended(o, n), table' = table \cup {o},
         \A p \in table : name'[p] = name[p], name'[o] = n, UNCHANGED conf
  PROVE  Ordered'
<1>1. table \subseteq Sessions
  BY DEF IInv, TypeOK
<1>2. \A x \in Sessions :
        behind'[x] = IF x \in Bucket(n) THEN behind[x] \cup {o} ELSE behind[x]
  BY DEF Appended
<1>3. /\ o \notin Bucket(n) /\ behind'[o] = {}
      /\ \A m : Bucket(m) \subseteq table
  BY <1>2 DEF Bucket
<1>4. ASSUME NEW p \in table
      PROVE  /\ p \notin behind'[p] /\ behind'[p] \subseteq Bucket(name[p])'
             /\ \A q \in behind'[p] : behind'[q] \subseteq behind'[p]
             /\ \A q \in Bucket(name[p])' \ {p} : q \in behind'[p] \/ p \in behind'[q]
  <2>1. /\ p \notin behind[p] /\ behind[p] \subseteq Bucket(name[p])
        /\ \A q \in behind[p] : behind[q] \subseteq behind[p]
        /\ \A q \in Bucket(name[p]) \ {p} : q \in behind[p] \/ p \in behind[q]
    BY DEF Ordered
  <2>2. p \in Bucket(n) <=> conf.bucket[name[p]] = conf.bucket[n]
    BY DEF Bucket
  <2>3. Bucket(name[p])' = IF p \in Bucket(n) THEN Bucket(name[p]) \cup {o}
                                              ELSE Bucket(name[p])
    BY <2>2 DEF Bucket
  <2>4. behind'[p] = IF p \in Bucket(n) THEN behind[p] \cup {o} ELSE behind[p]
    BY <1>1, <1>2
  <2>5. \A q \in Bucket(name[p]) : q \in Bucket(n) <=> p \in Bucket(n)
    BY <2>2 DEF Bucket
  <2>6. \A q \in Bucket(name[p]) :
          behind'[q] = IF p \in Bucket(n) THEN behind[q] \cup {o} ELSE behind[q]
    BY <1>1, <1>2, <1>3, <2>5
  <2>7. o # p /\ Bucket(name[p]) \subseteq table
    BY DEF Bucket
  <2>8. CASE p \in Bucket(n)
    BY <1>3, <2>1, <2>3, <2>4, <2>6, <2>7, <2>8
  <2>9. CASE p \notin Bucket(n)
    BY <1>3, <2>1, <2>3, <2>4, <2>6, <2>7, <2>9
  <2> QED
    BY <2>8, <2>9
<1>5. /\ o \notin behind'[o] /\ behind'[o] \subseteq Bucket(name[o])'
      /\ \A q \in behind'[o] : behind'[q] \subseteq behind'[o]
      /\ \A q \in Bucket(name[o])' \ {o} : q \in behind'[o] \/ o \in behind'[q]
  <2>1. \A q \in Bucket(name[o])' \ {o} : q \in Bucket(n) /\ q \in Sessions
    BY <1>1 DEF Bucket
  <2> QED
    BY <1>2, <1>3, <2>1
<1> QED
  BY <1>4, <1>5 DEF Ordered

\* A push inserts at most one context, and one that leads on only by auto_push.
LEMMA PushBuckets ==
  ASSUME IInv, BucketInv, ~tangled, NEW s \in Sessions, NEW n \in Names,
         NEW targets, NEW f \in Connections(targets), publish[s] \in {None, s},
         name[s] = n \/ s \notin table, Push(s, n, f), UNCHANGED conf,
         name' = [Named(f, n) EXCEPT ![s] = n],
         Leftover(s) => s \in autoTimer
  PROVE  /\ tangled' \/ Ordered'
         /\ tangled' => conf.slots # {} /\ ~conf.sessionRelay
         /\ \A x \in Sessions : Leftover(x)' => Leftover(x)
<1> DEFINE o == Owner(s, n)
<1>1. /\ o \in Sessions /\ (o \notin table => o = s)
      /\ table \subseteq Sessions
  BY OwnerOK DEF IInv, TypeOK
<1>2. Range(f) \subseteq Free
  BY ConnectionsOK
<1>3. /\ \A p \in table : p \notin Range(f)
      /\ \A p \in table : name'[p] = name[p]
      /\ name'[s] = n
  <2>1. \A p \in table : p \in Sessions /\ p \notin Range(f)
    BY <1>1, <1>2, MarksAssumption DEF Free, IInv, ListsSound
  <2>2. /\ \A x \in Sessions : Named(f, n)[x] = IF x \in Range(f) THEN n ELSE name[x]
        /\ Named(f, n) = [x \in Sessions |-> Named(f, n)[x]]
    BY DEF Named
  <2> QED
    BY <2>1, <2>2
<1>4. CASE f = <<>> \/ o \in table
  <2>1. UNCHANGED <<table, behind, tangled>>
    <3>1. CASE f = <<>>
      BY <3>1 DEF Push, lists
    <3>2. CASE f # <<>> /\ o \in table
      BY <3>2 DEF Push
    <3> QED
      BY <1>4, <3>1, <3>2
  <2>2. \A m : Bucket(m)' = Bucket(m)
    BY <1>3, <2>1 DEF Bucket
  <2>3. Ordered'
    BY <1>3, <2>1, <2>2 DEF Ordered, BucketInv
  <2> QED
    BY <2>1, <2>3 DEF Leftover, BucketInv
<1>5. CASE f # <<>> /\ o \notin table
  <2>1. /\ table' = table \cup {s} /\ behind' = Appended(s, n)
        /\ tangled' = (behind[s] # {})
    BY <1>1, <1>5 DEF Push
  <2>2. s \notin table
    BY <1>1, <1>5
  <2>3. tangled' \/ Ordered'
    BY <1>3, <2>1, <2>2, AppendOrdered DEF BucketInv
  <2>4. tangled' => conf.slots # {} /\ ~conf.sessionRelay
    <3> SUFFICES ASSUME behind[s] # {}
                 PROVE  conf.slots # {} /\ ~conf.sessionRelay
      BY <2>1
    <3>1. Leftover(s) /\ s \in autoTimer /\ s \in auto
      BY <2>2 DEF Leftover, IInv, TimersSound
    <3> QED
      BY <3>1 DEF BucketInv, LeftoverOK
  <2>5. ASSUME NEW x \in Sessions, Leftover(x)' PROVE Leftover(x)
    <3>1. x \notin table
      BY <2>1, <2>5 DEF Leftover
    <3>2. behind'[x] = behind[x]
      BY <2>1, <3>1 DEF Appended, Bucket
    <3> QED
      BY <2>5, <3>1, <3>2 DEF Leftover
  <2> QED
    BY <2>3, <2>4, <2>5
<1> QED
  BY <1>4, <1>5

LEMMA PushStepBuckets ==
  ASSUME IInv, BucketInv, ~tangled, NEW s \in Sessions, PushStep(s)
  PROVE  BucketInv'
<1>1. ASSUME NEW n \in Names, NEW targets, NEW f \in Connections(targets),
             publish[s] \in {None, s}, name[s] = n \/ s \notin table,
             Push(s, n, f), UNCHANGED conf,
             name' = [Named(f, n) EXCEPT ![s] = n],
             role[s] = "new" \/ s \in table \/ s \in autoTimer,
             \A x \in Sessions : role[x] = "ended" => role'[x] = "ended",
             \A x \in autoTimer' : x \in autoTimer \/ role[x] = "new",
             auto' = auto \/ conf.slots # {}
      PROVE  BucketInv'
  <2>1. Leftover(s) => s \in autoTimer
    BY <1>1 DEF Leftover, BucketInv, LeftoverOK
  <2>2. /\ tangled' \/ Ordered'
        /\ tangled' => conf.slots # {} /\ ~conf.sessionRelay
        /\ \A x \in Sessions : Leftover(x)' => Leftover(x)
    BY <1>1, <2>1, PushBuckets
  <2>3. LeftoverOK'
    BY <1>1, <2>2 DEF LeftoverOK, BucketInv
  <2> QED
    BY <1>1, <2>2, <2>3 DEF BucketInv
<1>2. \A n, f : s \in Sessions /\ name[s] = n => Named(f, n) = [Named(f, n) EXCEPT ![s] = n]
  BY DEF Named
<1>3. ASSUME PushReconnect(s) \/ AutoReconnect(s)
      PROVE  BucketInv'
  <2>1. s \in table \/ s \in autoTimer
    BY <1>3 DEF PushReconnect, AutoReconnect, IInv, TimersSound
  <2>2. name[s] \in Names /\ publish[s] \in {None, s}
    BY <2>1, MarksAssumption DEF IInv, TimersSound, ListsSound, ContextsOK
  <2>6. PICK targets : \E f \in Connections(targets) :
          Push(s, name[s], f) /\ name' = Named(f, name[s])
    BY <1>3 DEF PushReconnect, AutoReconnect
  <2>3. PICK f \in Connections(targets) :
          Push(s, name[s], f) /\ name' = Named(f, name[s])
    BY <2>6
  <2>4. /\ UNCHANGED <<conf, role, auto>> /\ autoTimer' \subseteq autoTimer
    BY <1>3 DEF PushReconnect, AutoReconnect
  <2>5. name' = [Named(f, name[s]) EXCEPT ![s] = name[s]]
    BY <1>2, <2>3
  <2> QED
    BY <1>1, <2>1, <2>2, <2>3, <2>4, <2>5
<1>4. ASSUME NEW n \in Names, role[s] = "new", publish[s] = None,
             NEW targets, NEW f \in Connections(targets), Push(s, n, f),
             name' = [Named(f, n) EXCEPT ![s] = n],
             AutoStarts(s, f), role' = [role EXCEPT ![s] = "publish"], UNCHANGED conf
      PROVE  BucketInv'
  <2>1. \A x \in Sessions : role[x] = "ended" => role'[x] = "ended"
    BY <1>4 DEF IInv, TypeOK
  <2>2. \A x \in autoTimer' : x \in autoTimer \/ role[x] = "new"
    BY <1>4 DEF AutoStarts
  <2>3. auto' = auto \/ conf.slots # {}
    BY <1>4 DEF AutoStarts
  <2>4. s \notin table
    BY <1>4, MarksAssumption DEF IInv, ListsSound
  <2> QED
    BY <1>1, <1>4, <2>1, <2>2, <2>3, <2>4
<1>5. ASSUME StaticPublish(s)
      PROVE  BucketInv'
  <2>1. role[s] = "new" /\ ~IsClient(s) /\ ~Relayed(s)
    BY <1>5, ConfOK, MarksAssumption
    DEF StaticPublish, Static, IsClient, Relayed, Apart, IInv, ConfigType
  <2>2. name[s] \in Names /\ publish[s] = None
    BY <2>1 DEF IInv, ContextsOK
  <2>3. PICK f \in Connections(conf.slots) :
          Push(s, name[s], f) /\ name' = Named(f, name[s]) /\ AutoStarts(s, f)
    BY <1>5 DEF StaticPublish
  <2>4. name' = [Named(f, name[s]) EXCEPT ![s] = name[s]]
    BY <1>2, <2>3
  <2> QED
    BY <1>4, <1>5, <2>1, <2>2, <2>3, <2>4 DEF StaticPublish
<1>6. ASSUME NEW n \in conf.names, Publish(s, n)
      PROVE  BucketInv'
  <2>1. n \in Names /\ publish[s] = None /\ role[s] = "new"
    BY <1>6, FreshOK, TargetsOK DEF Publish, Fresh, IInv
  <2>2. PICK f \in Connections(PublishTargets(n)) :
          /\ Push(s, n, f) /\ name' = [Named(f, n) EXCEPT ![s] = n]
          /\ AutoStarts(s, f)
    BY <1>6 DEF Publish
  <2> QED
    BY <1>4, <1>6, <2>1, <2>2 DEF Publish
<1> QED
  BY <1>3, <1>5, <1>6 DEF PushStep

\* A context is unlinked and keeps its ctx->next.
LEMMA LeaveBuckets ==
  ASSUME IInv, BucketInv, ~tangled, NEW s \in Sessions, LeaveStep(s),
         \A p \in table : p # s => name'[p] = name[p],
         \A x \in Sessions : x # s => role'[x] = role[x],
         Leftover(s)' => role'[s] = "ended" /\ (conf.sessionRelay => s \notin autoTimer'),
         \A x \in autoTimer' : x # s => x \in autoTimer \/ x \in table \ {s},
         auto' \subseteq auto
  PROVE  BucketInv'
<1>1. /\ table' = table \ {s} /\ table \subseteq Sessions /\ UNCHANGED <<conf, tangled>>
      /\ IsOwner(s) <=> s \in table
  BY LeaveOK DEF LeaveStep, IInv, TypeOK, ListsSound, IsOwner
<1>2. \A x \in Sessions \ {s} :
        behind'[x] = IF s \in table /\ x \in table THEN behind[x] \ {s} ELSE behind[x]
  BY <1>1, BehindAfterOK DEF LeaveStep, IInv
<1>3. \A p \in table' : Bucket(name[p])' = Bucket(name[p]) \ {s}
  BY <1>1 DEF Bucket
<1>4. ASSUME NEW p \in table'
      PROVE  /\ p \notin behind'[p] /\ behind'[p] \subseteq Bucket(name[p])'
             /\ \A q \in behind'[p] : behind'[q] \subseteq behind'[p]
             /\ \A q \in Bucket(name[p])' \ {p} : q \in behind'[p] \/ p \in behind'[q]
  <2>1. /\ p \notin behind[p] /\ behind[p] \subseteq Bucket(name[p])
        /\ \A q \in behind[p] : behind[q] \subseteq behind[p]
        /\ \A q \in Bucket(name[p]) \ {p} : q \in behind[p] \/ p \in behind[q]
    BY <1>1 DEF Ordered, BucketInv
  <2>2. /\ behind'[p] = behind[p] \ {s}
        /\ \A q \in Bucket(name[p]) \ {s} : behind'[q] = behind[q] \ {s}
    <3>1. \A q \in table \ {s} : q \in Sessions /\ behind[q] \subseteq table
      BY <1>1 DEF Ordered, Bucket, BucketInv
    <3>2. \A q \in table \ {s} : behind'[q] = behind[q] \ {s}
      BY <1>2, <3>1
    <3> QED
      BY <1>1, <3>2 DEF Bucket
  <2>3. Bucket(name[p])' = Bucket(name[p]) \ {s}
    BY <1>3
  <2> QED
    BY <1>1, <2>1, <2>2, <2>3
<1>5. Ordered'
  BY <1>4 DEF Ordered
<1>6. ASSUME NEW x \in Sessions, x # s, Leftover(x)'
      PROVE  role'[x] = "ended" /\ (conf.sessionRelay => x \notin autoTimer')
  <2>1. x \notin table /\ Leftover(x)
    BY <1>1, <1>2, <1>6 DEF Leftover
  <2> QED
    BY <1>6, <2>1 DEF BucketInv, LeftoverOK
<1>7. LeftoverOK'
  BY <1>1, <1>6 DEF LeftoverOK, BucketInv
<1> QED
  BY <1>1, <1>5, <1>7 DEF BucketInv

\* A step that leaves the buckets alone.
LEMMA BucketsKept ==
  ASSUME BucketInv, UNCHANGED <<conf, table, behind, tangled, autoTimer, auto>>,
         \A p \in table : name'[p] = name[p],
         \A x \in Sessions : role[x] = "ended" => role'[x] = "ended"
  PROVE  BucketInv'
<1>1. \A m : Bucket(m)' = Bucket(m)
  BY DEF Bucket
<1>2. Ordered => Ordered'
  BY <1>1 DEF Ordered
<1>3. LeftoverOK'
  BY DEF BucketInv, LeftoverOK, Leftover
<1> QED
  BY <1>2, <1>3 DEF BucketInv

LEMMA BucketInductive ==
  ASSUME IInv, BucketInv, [Next]_vars PROVE BucketInv'
<1>1. ASSUME NEW s \in Sessions, Connect(s) \/ Finalize(s) PROVE BucketInv'
  BY <1>1, BucketsKept DEF Connect, Finalize
<1>2. ASSUME ~tangled, NEW s \in Sessions, CloseStream(s), ~conf.sessionRelay
      PROVE  BucketInv'
  <2>1. LeaveStep(s) /\ UNCHANGED <<conf, name, auto, autoTimer>>
    BY <1>2 DEF CloseStream, LeaveStep
  <2>2. role'[s] = "ended" /\ \A x \in Sessions : x # s => role'[x] = role[x]
    BY <1>2 DEF CloseStream, IInv, TypeOK
  <2> QED
    BY <1>2, <2>1, <2>2, LeaveBuckets
<1>3. ASSUME NEW s \in Sessions, CloseStream(s), conf.sessionRelay
      PROVE  BucketInv'
  <2>1. \A x \in Sessions : role[x] = "ended" => role'[x] = "ended"
    BY <1>3 DEF CloseStream, IInv, TypeOK
  <2> QED
    BY <1>3, <2>1, BucketsKept DEF CloseStream
<1>4. ASSUME ~tangled, NEW s \in Sessions, DeleteStream(s) \/ Close(s)
      PROVE  BucketInv'
  <2>1. LeaveStep(s)
    BY <1>4, StateAfterOK DEF DeleteStream, Close, LeaveStep, IInv, TypeOK
  <2>2. autoTimer' = AutoTimerAfter(s) /\ auto' \subseteq auto
    BY <1>4 DEF DeleteStream, Close
  <2>3. s \notin autoTimer' /\ \A x \in autoTimer' : x \in autoTimer \/ x \in table \ {s}
    <3>1. AutoPushed(s) => publish[s] \in table \ {s}
      BY DEF AutoPushed, IsPlay, IInv, ListsSound
    <3> QED
      BY <2>2, <3>1, AutoAfterOK DEF AutoTimerAfter
  <2>4. \A x \in Sessions : x # s => role'[x] = role[x] /\ name'[x] = name[x]
    BY <1>4 DEF DeleteStream, Close, IInv, TypeOK
  <2>5. Leftover(s)' => role'[s] = "ended"
    <3>1. CASE DeleteStream(s)
      BY <3>1 DEF DeleteStream, IInv, TypeOK
    <3>2. CASE Close(s)
      <4>1. behind'[s] = {}
        <5>1. BehindAfter(s) = [x \in Sessions |-> BehindAfter(s)[x]]
          BY DEF BehindAfter, IInv, TypeOK
        <5> QED
          BY <3>2, <5>1 DEF Close
      <4> QED
        BY <4>1 DEF Leftover
    <3> QED
      BY <1>4, <3>1, <3>2
  <2>6. \A p \in table : p \in Sessions
    BY DEF IInv, TypeOK
  <2> QED
    BY <1>4, <2>1, <2>2, <2>3, <2>4, <2>5, <2>6, LeaveBuckets
<1>5. ASSUME ~tangled, NEW s \in Sessions, PushStep(s) PROVE BucketInv'
  BY <1>5, PushStepBuckets
<1>6. ASSUME NEW s \in Sessions, NEW n \in conf.names,
             PlayFound(s, n) \/ PlayFails(s, n)
      PROVE  BucketInv'
  <2>1. s \notin table /\ role[s] = "new"
    BY <1>6, FreshOK DEF PlayFound, PlayFails, Fresh
  <2>2. /\ UNCHANGED <<conf, table, behind, tangled, autoTimer, auto>>
        /\ name' = [name EXCEPT ![s] = n] /\ role' = [role EXCEPT ![s] = "play"]
    BY <1>6 DEF PlayFound, PlayFails
  <2>3. /\ \A p \in table : name'[p] = name[p]
        /\ \A x \in Sessions : role[x] = "ended" => role'[x] = "ended"
    BY <2>1, <2>2 DEF IInv, TypeOK
  <2> QED
    BY <2>2, <2>3, BucketsKept
<1>7. ASSUME ~tangled, NEW s \in Sessions, NEW n \in conf.names, PlayPulls(s, n)
      PROVE  BucketInv'
  <2>1. s \notin table /\ role[s] = "new"
    BY <1>7, FreshOK DEF PlayPulls, Fresh
  <2>2. PICK r \in Free : /\ name' = [name EXCEPT ![r] = n, ![s] = n]
                          /\ table' = table \cup {r} /\ behind' = Appended(r, n)
    BY <1>7 DEF PlayPulls
  <2>3. /\ UNCHANGED <<conf, tangled, autoTimer, auto>>
        /\ role' = [role EXCEPT ![s] = "play"]
    BY <1>7 DEF PlayPulls
  <2>4. r \in Sessions /\ r \notin table /\ role[r] = "new"
    BY MarksAssumption DEF Free, IInv, ListsSound, ContextsOK
  <2>5. behind[r] = {}
    BY <2>4 DEF BucketInv, LeftoverOK, Leftover
  <2>6. (\A p \in table : name'[p] = name[p]) /\ name'[r] = n
    <3>1. \A p \in table : p \in Sessions /\ p # s /\ p # r
      BY <2>1, <2>4 DEF IInv, TypeOK
    <3>2. \A x \in Sessions : name'[x] = IF x \in {r, s} THEN n ELSE name[x]
      BY <2>2, <2>4 DEF IInv, TypeOK
    <3> QED
      BY <2>4, <3>1, <3>2
  <2>7. Ordered'
    BY <1>7, <2>2, <2>3, <2>4, <2>5, <2>6, AppendOrdered DEF BucketInv
  <2>8. LeftoverOK'
    <3>1. ASSUME NEW x \in Sessions, Leftover(x)' PROVE Leftover(x)
      <4>1. x \notin table
        BY <2>2, <3>1 DEF Leftover
      <4>2. behind'[x] = behind[x]
        BY <2>2, <4>1 DEF Appended, Bucket
      <4> QED
        BY <3>1, <4>1, <4>2 DEF Leftover
    <3>2. \A x \in Sessions : role[x] = "ended" => role'[x] = "ended"
      BY <2>1, <2>3 DEF IInv, TypeOK
    <3> QED
      BY <2>3, <3>1, <3>2 DEF BucketInv, LeftoverOK
  <2> QED
    BY <1>7, <2>3, <2>7, <2>8 DEF BucketInv
<1>8. ASSUME NEW t \in Targets, StaticReconnect(t) PROVE BucketInv'
  <2>1. PICK s \in Free, n \in conf.for[t] : name' = [name EXCEPT ![s] = n]
    BY <1>8 DEF StaticReconnect
  <2>2. s \notin table
    BY MarksAssumption DEF Free, IInv, ListsSound
  <2>3. \A p \in table : name'[p] = name[p]
    BY <2>1, <2>2 DEF IInv, TypeOK
  <2> QED
    BY <1>8, <2>3, BucketsKept DEF StaticReconnect
<1>9. CASE Respawn
  BY <1>9 DEF Respawn, Started, BucketInv, Ordered, LeftoverOK, Leftover
<1>10. CASE UNCHANGED vars
  BY <1>10, BucketsKept DEF vars
<1> QED
  BY <1>1, <1>2, <1>3, <1>4, <1>5, <1>6, <1>7, <1>8, <1>9, <1>10
  DEF Next, Tangled, Ending, Timer, Command, PushStep, PublishCrashes,
      PushReconnectCrashes

\* Lists, buckets and back pointers agree in every state, whichever session ends
\* first (ngx_rtmp_relay_close): no context points into freed memory.  Without
\* auto_push, or with session_relay, this holds for good; otherwise it does until
\* auto_push inserts a context that leads on (ngx_rtmp_relay_create).
THEOREM PointersAlwaysSound == Spec => []PointersSound
<1>1. Init => BucketInv
  BY DEF Init, Started, BucketInv, Ordered, LeftoverOK, Leftover
<1>2. IInv /\ BucketInv /\ [Next]_vars => BucketInv'
  BY BucketInductive
<1>3. IInv /\ BucketInv => PointersSound
  BY DEF IInv, BucketInv, PointersSound
<1> QED
  BY <1>1, <1>2, <1>3, Invariant, PTL DEF Spec

-----------------------------------------------------------------------------
(* Relays that serve nobody.                                               *)

LEMMA PushKeepsIdle ==
  ASSUME IInv, ListsSound', NoIdleRelay, NEW s \in Sessions, NEW f, Pushed(s, f),
         DOMAIN f \subseteq conf.pushes \cup conf.slots, UNCHANGED conf
  PROVE  NoIdleRelay'
<1> SUFFICES ASSUME NEW x \in Sessions, state'[x] = "open"
             PROVE  /\ peer'[x] \in conf.pushes \cup conf.slots => publish'[x] \in table'
                    /\ peer'[x] \in conf.pulls => x \in table' /\ plays'[x] # {}
  BY DEF NoIdleRelay, Open
<1>1. CASE x \in Range(f)
  <2>1. peer'[x] \notin conf.pulls
    BY <1>1, ConfOK DEF Pushed, Apart, IInv
  <2> QED
    BY <1>1, <2>1 DEF Pushed
<1>2. CASE x \notin Range(f)
  <2>1. /\ state[x] = "open" /\ peer'[x] = peer[x]
        /\ publish'[x] = publish[x] \/ publish'[x] = x
        /\ table \subseteq table' /\ \A p \in table : plays[p] \subseteq plays'[p]
    BY <1>2 DEF Pushed
  <2>2. publish'[x] = x => x \in table'
    BY DEF ListsSound
  <2> QED
    BY <2>1, <2>2 DEF NoIdleRelay, Open
<1> QED
  BY <1>1, <1>2

LEMMA LeaveKeepsIdle ==
  ASSUME IInv, NoIdleRelay, NEW s \in Sessions, LeaveStep(s)
  PROVE  NoIdleRelay'
<1> SUFFICES ASSUME NEW x \in Sessions, state'[x] = "open"
             PROVE  /\ peer'[x] \in conf.pushes \cup conf.slots => publish'[x] \in table'
                    /\ peer'[x] \in conf.pulls => x \in table' /\ plays'[x] # {}
  BY DEF NoIdleRelay, Open, LeaveStep
<1>1. CASE x = s
  <2>1. peer'[s] = Client
    BY <1>1 DEF LeaveStep, IsClient
  <2> QED
    BY <1>1, <2>1, TargetsOK, MarksAssumption DEF IInv
<1>2. CASE x # s
  <2>1. /\ state[x] = "open" /\ x \notin Finalized(s) /\ peer'[x] = peer[x]
        /\ publish'[x] = IF IsOwner(s) /\ x \in plays[s] THEN None ELSE publish[x]
        /\ plays'[x] = IF IsPlay(s) /\ publish[s] = x THEN plays[x] \ {s} ELSE plays[x]
        /\ table' = table \ {s} /\ ListsSound'
    BY <1>2, LeaveOK DEF LeaveStep
  <2>2. publish'[x] = publish[x]
    BY <2>1 DEF Finalized
  <2>3. peer[x] \in conf.pushes \cup conf.slots => publish'[x] \in table'
    BY <2>1, <2>2, MarksAssumption DEF NoIdleRelay, Open, IInv, ListsSound
  <2>4. ASSUME peer[x] \in conf.pulls PROVE x \in table' /\ plays'[x] # {}
    <3>1. x \in table /\ plays[x] # {} /\ ~IsClient(x)
      BY <2>1, <2>4, TargetsOK, MarksAssumption DEF NoIdleRelay, Open, IsClient, IInv
    <3>2. IsPlay(s) /\ publish[s] = x => ~(plays[x] \subseteq {s})
      BY <2>1, <3>1 DEF Finalized, IsPlay, IsOwner
    <3> QED
      BY <1>2, <2>1, <3>1, <3>2
  <2> QED
    BY <2>1, <2>3, <2>4
<1> QED
  BY <1>1, <1>2

LEMMA NoIdleInductive ==
  ASSUME IInv, IInv', NoIdleRelay, [Next]_vars PROVE NoIdleRelay'
<1>1. ASSUME NEW s \in Sessions, Connect(s) PROVE NoIdleRelay'
  <2>1. peer[s] \notin Targets
    BY <1>1, MarksAssumption DEF Connect, Free, IInv, ContextsOK, IsClient
  <2> QED
    BY <1>1, <2>1, TargetsOK DEF Connect, NoIdleRelay, Open, IInv, TypeOK
<1>2. ASSUME NEW s \in Sessions, Finalize(s) PROVE NoIdleRelay'
  BY <1>2 DEF Finalize, NoIdleRelay, Open, IInv, TypeOK
<1>3. ASSUME NEW s \in Sessions, CloseStream(s) \/ DeleteStream(s) \/ Close(s)
      PROVE  NoIdleRelay'
  BY <1>3, LeaveSteps, LeaveKeepsIdle DEF NoIdleRelay, Open
<1>4. ASSUME NEW s \in Sessions, PushStep(s) PROVE NoIdleRelay'
  BY <1>4, PushStepOK, PushKeepsIdle DEF IInv
<1>5. ASSUME NEW s \in Sessions, NEW n \in conf.names, PlayFound(s, n)
      PROVE  NoIdleRelay'
  <2>1. IsClient(s) /\ publish[s] = None /\ Owner(s, n) \in Sessions
    BY <1>5, FreshOK, OwnerOK DEF PlayFound, Fresh, IInv
  <2> QED
    BY <1>5, <2>1, TargetsOK, MarksAssumption
    DEF PlayFound, NoIdleRelay, Open, IsClient, IInv, TypeOK
<1>6. ASSUME NEW s \in Sessions, NEW n \in conf.names, PlayPulls(s, n)
      PROVE  NoIdleRelay'
  <2>1. IsClient(s) /\ peer[s] \notin Targets
    BY <1>6, MarksAssumption DEF PlayPulls, Fresh, IsClient
  <2>2. PICK t \in PullsOf(n), r \in Free :
          /\ state' \in {[state EXCEPT ![r] = "open"],
                         [state EXCEPT ![r] = "open", ![s] = "closing"]}
          /\ peer' = [peer EXCEPT ![r] = t]
          /\ publish' = [publish EXCEPT ![r] = r, ![s] = r]
          /\ plays' = [plays EXCEPT ![r] = {s}]
          /\ table' = table \cup {r} /\ UNCHANGED conf
    BY <1>6 DEF PlayPulls
  <2>3. r \in Sessions /\ t \in conf.pulls /\ t \notin conf.pushes \cup conf.slots
    BY TargetsOK, ConfOK DEF Free, Apart, IInv
  <2>4. ASSUME NEW x \in Sessions, state'[x] = "open", x # r
        PROVE  /\ peer'[x] \in conf.pushes \cup conf.slots => publish'[x] \in table'
               /\ peer'[x] \in conf.pulls => x \in table' /\ plays'[x] # {}
    <3>1. peer'[x] = peer[x] /\ plays'[x] = plays[x]
      BY <2>2, <2>3, <2>4 DEF IInv, TypeOK
    <3>2. x # s => state[x] = "open" /\ publish'[x] = publish[x]
      BY <2>2, <2>3, <2>4 DEF IInv, TypeOK
    <3> QED
      BY <2>1, <2>2, <3>1, <3>2, TargetsOK DEF NoIdleRelay, Open, IInv
  <2>5. r \in table' /\ plays'[r] # {} /\ peer'[r] = t
    BY <2>2, <2>3 DEF IInv, TypeOK
  <2> QED
    BY <2>2, <2>3, <2>4, <2>5 DEF NoIdleRelay, Open
<1>7. ASSUME NEW s \in Sessions, NEW n \in conf.names, PlayFails(s, n)
      PROVE  NoIdleRelay'
  BY <1>7 DEF PlayFails, NoIdleRelay, Open, IInv, TypeOK
<1>8. ASSUME NEW t \in Targets, StaticReconnect(t) PROVE NoIdleRelay'
  <2>1. t \notin conf.pushes \cup conf.slots /\ t \notin conf.pulls
    BY <1>8, ConfOK DEF StaticReconnect, Apart, IInv, TypeOK
  <2> QED
    BY <1>8, <2>1 DEF StaticReconnect, NoIdleRelay, Open, IInv, TypeOK
<1>9. CASE Respawn
  BY <1>9 DEF Respawn, Started, NoIdleRelay, Open
<1>10. CASE UNCHANGED vars
  BY <1>10 DEF vars, NoIdleRelay, Open
<1> QED
  BY <1>1, <1>2, <1>3, <1>4, <1>5, <1>6, <1>7, <1>8, <1>9, <1>10
  DEF Next, Tangled, Ending, Timer, Command, PushStep, PublishCrashes,
      PushReconnectCrashes

\* A push without its publisher and a pull without players are being closed.
THEOREM NoRelayStaysBehind == Spec => []NoIdleRelay
<1>1. Init => NoIdleRelay
  BY DEF Init, Started, NoIdleRelay, Open
<1>2. IInv /\ IInv' /\ NoIdleRelay /\ [Next]_vars => NoIdleRelay'
  BY NoIdleInductive
<1> QED
  BY <1>1, <1>2, Invariant, PTL DEF Spec

-----------------------------------------------------------------------------
(* Static pulls.                                                           *)

\* A static pull waits for its timer, or is one session's.
StaticOne ==
  \A t \in conf.statics :
    IF t \in staticTimer THEN \A s \in Sessions : peer[s] # t
    ELSE \E s \in Sessions : \A x \in Sessions : peer[x] = t <=> x = s

LEMMA StaticInductive ==
  ASSUME IInv, StaticOne, [Next]_vars PROVE StaticOne'
<1> USE DEF StaticOne
<1>1. conf.statics \subseteq Targets /\ conf.statics \cap conf.pulls = {}
      /\ conf.statics \cap (conf.pushes \cup conf.slots) = {}
      /\ Client \notin Targets
  BY TargetsOK, ConfOK, MarksAssumption DEF Apart, IInv
<1>2. ASSUME NEW s \in Sessions, PushStep(s) PROVE StaticOne'
  <2>1. PICK f : Pushed(s, f) /\ DOMAIN f \subseteq conf.pushes \cup conf.slots
    BY <1>2, PushStepOK
  <2>2. UNCHANGED <<conf, staticTimer>>
    BY <1>2, PushStepOK
  <2>3. ASSUME NEW t \in conf.statics, NEW x \in Sessions
        PROVE  peer'[x] = t <=> peer[x] = t
    BY <1>1, <2>1 DEF Pushed, IInv, ContextsOK, IsClient
  <2> QED
    BY <2>2, <2>3
<1>3. ASSUME NEW s \in Sessions, Close(s) PROVE StaticOne'
  <2>1. /\ peer' = [peer EXCEPT ![s] = Client] /\ UNCHANGED conf
        /\ staticTimer' = IF peer[s] \in conf.statics
                          THEN staticTimer \cup {peer[s]} ELSE staticTimer
    BY <1>3 DEF Close, StaticTimerAfter, Static
  <2>2. \A x \in Sessions : peer'[x] = IF x = s THEN Client ELSE peer[x]
    BY <2>1 DEF IInv, TypeOK
  <2> QED
    BY <1>1, <2>1, <2>2
<1>4. ASSUME NEW t \in Targets, StaticReconnect(t) PROVE StaticOne'
  <2>1. PICK s \in Free : peer' = [peer EXCEPT ![s] = t]
    BY <1>4 DEF StaticReconnect
  <2>2. /\ t \in staticTimer /\ staticTimer' = staticTimer \ {t} /\ UNCHANGED conf
        /\ s \in Sessions /\ peer[s] = Client
    BY <1>4 DEF StaticReconnect, Free, IInv, ContextsOK, IsClient
  <2>3. \A x \in Sessions : peer'[x] = IF x = s THEN t ELSE peer[x]
    BY <2>1 DEF IInv, TypeOK
  <2>4. t \in conf.statics
    BY <2>2 DEF IInv, TypeOK
  <2>5. \A x \in Sessions : peer'[x] = t <=> x = s
    BY <2>2, <2>3, <2>4
  <2>6. ASSUME NEW u \in conf.statics, u # t, NEW x \in Sessions
        PROVE  peer'[x] = u <=> peer[x] = u
    BY <1>1, <2>2, <2>3, <2>6
  <2> QED
    BY <2>2, <2>5, <2>6
<1>5. ASSUME NEW s \in Sessions, NEW n \in conf.names, PlayPulls(s, n)
      PROVE  StaticOne'
  <2>1. PICK t \in PullsOf(n), r \in Free : peer' = [peer EXCEPT ![r] = t]
    BY <1>5 DEF PlayPulls
  <2>2. t \in conf.pulls /\ r \in Sessions /\ peer[r] = Client
    BY TargetsOK DEF Free, IInv, ContextsOK, IsClient
  <2>3. \A x \in Sessions : peer'[x] = IF x = r THEN t ELSE peer[x]
    BY <2>1 DEF IInv, TypeOK
  <2>4. ASSUME NEW u \in conf.statics, NEW x \in Sessions
        PROVE  peer'[x] = u <=> peer[x] = u
    BY <1>1, <2>2, <2>3
  <2>5. UNCHANGED <<conf, staticTimer>>
    BY <1>5 DEF PlayPulls
  <2> QED
    BY <2>4, <2>5
<1>6. CASE Respawn
  BY <1>1, <1>6 DEF Respawn, Started
<1>7. CASE UNCHANGED <<conf, peer, staticTimer>>
  BY <1>7
<1>8. ASSUME NEW s \in Sessions, NEW n \in conf.names,
             Connect(s) \/ CloseStream(s) \/ DeleteStream(s) \/ Finalize(s)
               \/ PlayFound(s, n) \/ PlayFails(s, n)
      PROVE  UNCHANGED <<conf, peer, staticTimer>>
  BY <1>8 DEF Connect, CloseStream, DeleteStream, Finalize, PlayFound, PlayFails
<1>9. ASSUME NEW s \in Sessions,
             Connect(s) \/ CloseStream(s) \/ DeleteStream(s) \/ Finalize(s)
      PROVE  UNCHANGED <<conf, peer, staticTimer>>
  BY <1>9 DEF Connect, CloseStream, DeleteStream, Finalize
<1> QED
  BY <1>2, <1>3, <1>4, <1>5, <1>6, <1>7, <1>8, <1>9
  DEF Next, Tangled, vars, Ending, Timer, Command, PushStep, PublishCrashes,
      PushReconnectCrashes

\* A static pull is never given up and never doubled: close or failure, its
\* timer or one session follows it.
THEOREM StaticAlwaysFollowed == Spec => []StaticFollowed
<1>1. Init => StaticOne
  BY ConfigsAssumption, MarksAssumption DEF Init, Started, StaticOne, ConfigType
<1>2. IInv /\ StaticOne /\ [Next]_vars => StaticOne'
  BY StaticInductive
<1>3. StaticOne => StaticFollowed
  <2> SUFFICES ASSUME StaticOne, NEW t \in conf.statics, t \notin staticTimer
               PROVE  Cardinality({s \in Sessions : peer[s] = t}) = 1
    BY DEF StaticOne, StaticFollowed
  <2>1. PICK s \in Sessions : \A x \in Sessions : peer[x] = t <=> x = s
    BY DEF StaticOne
  <2>2. {x \in Sessions : peer[x] = t} = {s}
    BY <2>1
  <2> QED
    BY <2>2, FS_Singleton
<1> QED
  BY <1>1, <1>2, <1>3, Invariant, PTL DEF Spec

-----------------------------------------------------------------------------
(* What a relay may not do to a client.                                    *)

LEMMA Undisturbed ==
  ASSUME IInv, Next, NEW s \in table,
         IsClient(s), state[s] = "open", state'[s] = "closing"
  PROVE  \A r \in Sessions \ {s} : state'[r] = state[r]
<1>1. s \in Sessions /\ publish[s] = s
  BY DEF IInv, TypeOK, ListsSound
<1>2. ASSUME NEW x \in Sessions, PushStep(x) PROVE FALSE
  <2>1. PICK f : Pushed(x, f)
    BY <1>2, PushStepOK
  <2> QED
    BY <1>1, <2>1 DEF Pushed
<1>3. ASSUME NEW x \in Sessions, CloseStream(x) \/ DeleteStream(x) \/ Close(x)
      PROVE  FALSE
  <2>1. state'[s] = "closing" => s \in Finalized(x) \/ (s = x /\ Close(x))
    BY <1>1, <1>3 DEF CloseStream, DeleteStream, Close, StateAfter, IInv, TypeOK
  <2>2. ~Close(s)
    BY DEF Close
  <2>3. s \notin Finalized(x)
    <3>1. CASE IsOwner(x)
      BY <1>1, <3>1 DEF Finalized, IsOwner, IInv, ListsSound
    <3>2. CASE ~IsOwner(x)
      BY <3>2 DEF Finalized
    <3> QED
      BY <3>1, <3>2
  <2> QED
    BY <2>1, <2>2, <2>3
<1>4. ASSUME NEW x \in Sessions, Finalize(x)
      PROVE  \A r \in Sessions \ {s} : state'[r] = state[r]
  BY <1>1, <1>4 DEF Finalize, IInv, TypeOK
<1>5. ASSUME NEW x \in Sessions, Connect(x) PROVE FALSE
  BY <1>1, <1>5 DEF Connect, IInv, TypeOK
<1>6. ASSUME NEW x \in Sessions, NEW n \in conf.names,
             PlayFound(x, n) \/ PlayPulls(x, n) \/ PlayFails(x, n)
      PROVE  FALSE
  <2>1. x # s
    BY <1>6, FreshOK DEF PlayFound, PlayPulls, PlayFails
  <2> QED
    BY <1>1, <1>6, <2>1 DEF PlayFound, PlayPulls, PlayFails, Free, IInv, TypeOK
<1>7. ASSUME NEW t \in Targets, StaticReconnect(t) PROVE FALSE
  BY <1>1, <1>7 DEF StaticReconnect, Free, IInv, TypeOK
<1>8. ~Respawn
  BY <1>1 DEF Respawn, Started
<1> QED
  BY <1>2, <1>3, <1>4, <1>5, <1>6, <1>7, <1>8
  DEF Next, Tangled, vars, Ending, Timer, Command, PushStep, PublishCrashes,
      PushReconnectCrashes

\* Neither the last push nor the last player takes a client that publishes with
\* it (ngx_rtmp_relay_close finalises publishers that are relays only).
THEOREM ClientsPublishUndisturbed == Spec => PublisherUndisturbed
<1>1. IInv /\ [Next]_vars =>
        [\A s \in table : IsClient(s) /\ state[s] = "open" /\ state'[s] = "closing" =>
           \A r \in Sessions \ {s} : state'[r] = state[r]]_vars
  BY Undisturbed
<1> QED
  BY <1>1, Invariant, PTL DEF Spec, PublisherUndisturbed

-----------------------------------------------------------------------------
(* What is pushed where.                                                   *)

Source(x) == x \in table \cup autoTimer \/ role[x] = "publish"
Pushing(p) == {peer[r] : r \in plays[p]}

\* A name that is not crowded has one source, ...
OneSource ==
  \A x, y \in Sessions :
    Source(x) /\ Source(y) /\ name[x] = name[y] /\ name[x] \notin crowded => x = y

\* ... in whose list no two sessions push to one target, ...
ListOK(p) == \A q, r \in plays[p] : peer[q] = peer[r] /\ ~IsClient(q) => q = r

\* (a list is not cleared when its owner leaves the table, but then it has ended)
Empty(p) == role[p] \in {"new", "publish"} /\ p \notin table => plays[p] = {}

\* ... and complete, or to be completed.
PushesOK(p) == PushesOf(name[p]) \subseteq Pushing(p) \/ p \in pushTimer
SlotsOK(p) == /\ slots[p] = Pushing(p) \cap conf.slots
              /\ slots[p] = conf.slots \/ p \in autoTimer

FollowInv ==
  /\ OneSource
  /\ \A p \in Sessions : Empty(p)
  /\ \A p \in Sessions : role[p] = "publish" /\ name[p] \notin crowded =>
       /\ ListOK(p)
       /\ IsClient(p) => PushesOK(p)
       /\ p \in auto => SlotsOK(p)

LEMMA FollowImplies == IInv /\ FollowInv => PushesComplete /\ SlotsExact
<1> SUFFICES ASSUME IInv, FollowInv PROVE PushesComplete /\ SlotsExact
  OBVIOUS
<1>1. PushesComplete
  BY DEF FollowInv, PushesComplete, ListOK, PushesOK, Missing, Pushing
<1>2. SlotsExact
  BY DEF FollowInv, SlotsExact, SlotsOK, Pushing, IInv, TypeOK
<1> QED
  BY <1>1, <1>2

\* The list of the publisher after a push, and whom the new sessions push to.
LEMMA PushLists ==
  ASSUME IInv, NEW s \in Sessions, NEW n \in Names,
         NEW targets \in SUBSET Targets, NEW f \in Connections(targets),
         state[s] # "free", publish[s] \in {None, s},
         Push(s, n, f), conf' = conf
  PROVE  LET o == Owner(s, n) IN
         /\ \A p \in Sessions : p # o => plays'[p] = plays[p]
         /\ o \in table => plays'[o] = plays[o] \cup Range(f)
         /\ o \notin table => \/ plays'[o] = Range(f)
                              \/ plays'[o] = plays[o] /\ f = <<>>
         /\ f = <<>> => Range(f) = {}
         /\ f # <<>> => o \in table'
         /\ \A t \in DOMAIN f : f[t] \in Range(f) /\ peer'[f[t]] = t
         /\ \A r \in Range(f) : peer'[r] \in DOMAIN f /\ f[peer'[r]] = r
<1> DEFINE o == Owner(s, n)
<1>1. /\ \A t \in DOMAIN f : f[t] \in Range(f)
      /\ \A r \in Range(f) : \E t \in DOMAIN f : f[t] = r
      /\ \A t, u \in DOMAIN f : f[t] = f[u] => t = u
      /\ Range(f) \subseteq Sessions
  BY ConnectionsOK DEF Free
<1>2. o \in Sessions
  BY OwnerOK DEF IInv
<1>3. CASE f = <<>>
  BY <1>1, <1>3, NoConnection DEF Push
<1>4. CASE f # <<>>
  <2>1. /\ peer' = Peers(f)
        /\ plays' = [plays EXCEPT ![o] = (IF o \in table THEN plays[o] ELSE {})
                                           \cup Range(f)]
    BY <1>4 DEF Push
  <2>2. \A r \in Range(f) : peer'[r] \in DOMAIN f /\ f[peer'[r]] = r
    <3>1. \A r \in Range(f) : peer'[r] = CHOOSE t \in DOMAIN f : f[t] = r
      BY <1>1, <2>1 DEF Peers
    <3> QED
      BY <1>1, <3>1
  <2>3. \A t \in DOMAIN f : peer'[f[t]] = t
    BY <1>1, <2>2
  <2> HIDE DEF o
  <2>4. \A p \in Sessions : p # o => plays'[p] = plays[p]
    BY <1>1, <1>2, <2>1 DEF IInv, TypeOK
  <2>5. plays'[o] = (IF o \in table THEN plays[o] ELSE {}) \cup Range(f)
    BY <1>1, <1>2, <2>1 DEF IInv, TypeOK
  <2>6. o \in table'
    BY <1>4 DEF Push, o
  <2> QED
    BY <1>1, <1>4, <2>2, <2>3, <2>4, <2>5, <2>6 DEF o
<1> QED
  BY <1>3, <1>4

\* A push for name n by s, which is its only source or gets it crowded.
LEMMA PushKeepsFollow ==
  ASSUME IInv, IInv', FollowInv, NEW s \in Sessions, NEW n \in Names,
         NEW targets \in SUBSET Targets, NEW f \in Connections(targets),
         state[s] # "free", publish[s] \in {None, s},
         Push(s, n, f), UNCHANGED conf,
         name' = [Named(f, n) EXCEPT ![s] = n],
         role' = role \/ role' = [role EXCEPT ![s] = "publish"],
         name[s] = n \/ ~Source(s),
         n \notin crowded' => \A x \in Sessions : name[x] = n /\ Source(x) => x = s,
         crowded \subseteq crowded', crowded' \subseteq crowded \cup {n},
         s \in table \/ plays[s] = {} \/ role'[s] = "ended",
         \A x \in Sessions \ {s} : /\ slots'[x] = slots[x]
                                   /\ x \in auto' <=> x \in auto
                                   /\ x \in autoTimer' <=> x \in autoTimer
                                   /\ x \in pushTimer' <=> x \in pushTimer,
         role'[s] = "publish" /\ n \notin crowded' =>
           /\ \A q, r \in plays[s] : peer[q] = peer[r] /\ ~IsClient(q) => q = r
           /\ DOMAIN f \cap Pushing(s) = {}
           /\ IsClient(s) => PushesOf(n) \subseteq Pushing(s) \cup DOMAIN f \/ s \in pushTimer'
           /\ s \in auto' => /\ slots'[s] = (Pushing(s) \cup DOMAIN f) \cap conf.slots
                             /\ slots'[s] = conf.slots \/ s \in autoTimer'
  PROVE  FollowInv'
<1> DEFINE o == Owner(s, n)
<1>1. Pushed(s, f)
  BY PushSound
<1>2. /\ o \in Sessions
      /\ o = s \/ (o \in table /\ name[o] = n)
  BY OwnerOK DEF IInv
<1>3. /\ \A p \in Sessions : p # o => plays'[p] = plays[p]
      /\ o \in table => plays'[o] = plays[o] \cup Range(f)
      /\ o \notin table => \/ plays'[o] = Range(f)
                           \/ plays'[o] = plays[o] /\ f = <<>>
      /\ f = <<>> => Range(f) = {}
      /\ f # <<>> => o \in table'
      /\ \A t \in DOMAIN f : f[t] \in Range(f) /\ peer'[f[t]] = t
      /\ \A r \in Range(f) : peer'[r] \in DOMAIN f /\ f[peer'[r]] = r
  BY PushLists
<1> HIDE DEF o
<1>4. /\ s \notin Range(f)
      /\ \A r \in Range(f) : r \in Sessions /\ state[r] = "free"
  BY <1>1 DEF Pushed
<1>5. \A x \in Sessions : x # s => role'[x] = role[x]
  BY DEF IInv, TypeOK
<1>6. \A r \in Range(f) : /\ role[r] = "new" /\ role'[r] = "new"
                          /\ r \notin table /\ r \notin table'
                          /\ r \notin auto /\ r \notin autoTimer' /\ r # o
  <2>1. \A r \in Range(f) : role[r] = "new" /\ r \notin table /\ r \notin auto
    BY <1>4, MarksAssumption DEF IInv, ContextsOK, ListsSound, TimersSound
  <2>2. \A r \in Range(f) : r \notin auto' /\ r \notin autoTimer'
    BY <1>4, <2>1 DEF IInv, TimersSound
  <2>3. table' \subseteq table \cup {s}
    BY <1>1 DEF Pushed
  <2> QED
    BY <1>2, <1>4, <1>5, <2>1, <2>2, <2>3
<1>7. \A x \in Sessions \ Range(f) : x # s =>
        /\ name'[x] = name[x] /\ role'[x] = role[x]
        /\ x \in table' <=> x \in table
  <2>1. \A x \in Sessions \ Range(f) : x # s => name'[x] = name[x]
    BY PeersOK DEF IInv, TypeOK
  <2>2. table \subseteq table' /\ table' \subseteq table \cup {s}
    BY <1>1 DEF Pushed
  <2> QED
    BY <1>5, <2>1, <2>2
<1>8. name'[s] = n
  BY PeersOK DEF IInv, TypeOK
<1>9. \A x \in Sessions : x # s /\ Source(x)' =>
        x \notin Range(f) /\ Source(x) /\ name'[x] = name[x]
  BY <1>5, <1>6, <1>7 DEF Source
<1>10. OneSource'
  <2> SUFFICES ASSUME NEW x \in Sessions, NEW y \in Sessions,
                      Source(x)', Source(y)', name'[x] = name'[y],
                      name'[x] \notin crowded', x # y
               PROVE  FALSE
    BY DEF OneSource
  <2>1. CASE x = s
    BY <1>8, <1>9, <2>1
  <2>2. CASE y = s
    BY <1>8, <1>9, <2>2
  <2>3. CASE x # s /\ y # s
    BY <1>9, <2>3 DEF FollowInv, OneSource
  <2> QED
    BY <2>1, <2>2, <2>3
<1>11. ASSUME NEW p \in Sessions, role'[p] \in {"new", "publish"}, p \notin table'
       PROVE  plays'[p] = {}
  <2>1. p \notin table
    BY <1>1, <1>11 DEF Pushed
  <2>2. plays[p] = {}
    <3>1. CASE p = s
      BY <1>11, <2>1, <3>1
    <3>2. CASE p # s
      BY <1>5, <1>11, <2>1, <3>2 DEF FollowInv, Empty
    <3> QED
      BY <3>1, <3>2
  <2> QED
    BY <1>3, <1>11, <2>2
<1>12. \A p \in table : \A q \in plays[p] : q \notin Range(f) /\ peer'[q] = peer[q]
  <2>1. \A p \in table : \A q \in plays[p] :
          q \in Sessions /\ state[q] # "free"
    BY MarksAssumption DEF IInv, TypeOK, ListsSound
  <2> QED
    BY <1>1, <1>4, <2>1 DEF Pushed
<1>13. ASSUME role'[s] = "publish", n \notin crowded'
       PROVE  /\ ListOK(s)'
              /\ IsClient(s)' => PushesOK(s)'
              /\ s \in auto' => SlotsOK(s)'
  <2>1. o = s
    BY <1>2, <1>13 DEF Source
  <2>2. s \in table \/ plays[s] = {}
    BY <1>13
  <2>3. plays'[s] = plays[s] \cup Range(f)
    BY <1>3, <2>1, <2>2
  <2>4. \A q \in plays[s] : q \notin Range(f) /\ peer'[q] = peer[q]
    BY <1>12, <2>2
  <2>5. Pushing(s)' = Pushing(s) \cup DOMAIN f
    BY <1>3, <2>3, <2>4 DEF Pushing
  <2>7. ASSUME NEW q \in plays'[s], NEW r \in plays'[s], peer'[q] = peer'[r], q # r,
               ~IsClient(q)'
        PROVE  FALSE
    <3>1. CASE q \in Range(f) /\ r \in Range(f)
      BY <1>3, <2>7, <3>1
    <3>2. CASE q \in plays[s] /\ r \in plays[s]
      BY <1>13, <2>4, <2>7, <3>2 DEF IsClient
    <3>3. CASE q \in plays[s] /\ r \in Range(f)
      <4>1. peer'[q] \in Pushing(s) /\ peer'[r] \in DOMAIN f
        BY <1>3, <2>4, <3>3 DEF Pushing
      <4> QED
        BY <1>13, <2>7, <4>1
    <3>4. CASE q \in Range(f) /\ r \in plays[s]
      <4>1. peer'[r] \in Pushing(s) /\ peer'[q] \in DOMAIN f
        BY <1>3, <2>4, <3>4 DEF Pushing
      <4> QED
        BY <1>13, <2>7, <4>1
    <3> QED
      BY <2>3, <3>1, <3>2, <3>3, <3>4
  <2>8. peer'[s] = peer[s]
    BY <1>1, <1>4 DEF Pushed
  <2>9. PushesOf(n)' = PushesOf(n)
    BY DEF PushesOf
  <2>10. IsClient(s)' => PushesOK(s)'
    BY <1>8, <1>13, <2>5, <2>8, <2>9 DEF PushesOK, IsClient, PushesOf
  <2>11. s \in auto' => SlotsOK(s)'
    BY <1>13, <2>5 DEF SlotsOK
  <2> QED
    BY <2>7, <2>10, <2>11 DEF ListOK
<1>14. ASSUME NEW p \in Sessions, p # s, role'[p] = "publish", name'[p] \notin crowded'
       PROVE  /\ ListOK(p)'
              /\ IsClient(p)' => PushesOK(p)'
              /\ p \in auto' => SlotsOK(p)'
  <2>1. p \notin Range(f) /\ role[p] = "publish" /\ name'[p] = name[p]
        /\ name[p] \notin crowded /\ (p \in table' <=> p \in table)
    BY <1>5, <1>6, <1>7, <1>14
  <2>2. ListOK(p) /\ (IsClient(p) => PushesOK(p)) /\ (p \in auto => SlotsOK(p))
    BY <2>1 DEF FollowInv
  <2>3. p # o
    BY <1>2, <1>14, <2>1 DEF Source
  <2>4. plays'[p] = plays[p] /\ \A q \in plays[p] : peer'[q] = peer[q]
    BY <1>3, <1>12, <2>1, <2>3 DEF FollowInv, Empty
  <2>5. Pushing(p)' = Pushing(p) /\ peer'[p] = peer[p]
    BY <1>1, <2>1, <2>4 DEF Pushing, Pushed
  <2>6. ListOK(p)'
    BY <2>1, <2>2, <2>4 DEF ListOK, IsClient
  <2>7. IsClient(p)' => PushesOK(p)'
    BY <1>14, <2>1, <2>2, <2>5 DEF PushesOK, IsClient, PushesOf
  <2>8. p \in auto' => SlotsOK(p)'
    BY <1>14, <2>2, <2>5 DEF SlotsOK
  <2> QED
    BY <2>6, <2>7, <2>8
<1> QED
  BY <1>8, <1>10, <1>11, <1>13, <1>14 DEF FollowInv, Empty

\* A client or a static pull that begins to publish has an empty list.
LEMMA NewListEmpty ==
  ASSUME IInv, FollowInv, NEW s \in Sessions, role[s] = "new", publish[s] = None
  PROVE  s \notin table /\ plays[s] = {} /\ s \notin autoTimer /\ ~Source(s)
<1>1. s \notin table /\ s \notin autoTimer
  BY MarksAssumption DEF IInv, ListsSound, ContextsOK, TimersSound
<1> QED
  BY <1>1 DEF FollowInv, Empty, Source

LEMMA CrowdAlone ==
  ASSUME TypeOK, NEW n, Crowd(n), n \notin crowded'
  PROVE  \A x \in Sessions : ~(name[x] = n /\ Source(x))
BY DEF Crowd, Taken, Source

LEMMA PublishFollow ==
  ASSUME IInv, IInv', FollowInv, NEW s \in Sessions, NEW n \in conf.names, Publish(s, n)
  PROVE  FollowInv'
<1>1. PICK f \in Connections(PublishTargets(n)) :
        /\ Push(s, n, f)
        /\ name' = [Named(f, n) EXCEPT ![s] = n]
        /\ AutoStarts(s, f)
        /\ pushTimer' = IF PushesOf(n) \subseteq DOMAIN f
                        THEN pushTimer ELSE pushTimer \cup {s}
  BY DEF Publish
<1>2. PublishTargets(n) \in SUBSET Targets /\ n \in Names
  BY TargetsOK DEF IInv
<1>3. publish[s] = None /\ state[s] # "free" /\ role[s] = "new" /\ IsClient(s)
  BY FreshOK DEF Publish, Fresh
<1>4. s \notin table /\ plays[s] = {} /\ s \notin autoTimer /\ ~Source(s)
  BY <1>3, NewListEmpty
<1>5. n \notin crowded' => \A x \in Sessions : ~(name[x] = n /\ Source(x))
  BY CrowdAlone DEF Publish, IInv
<1>6. crowded \subseteq crowded' /\ crowded' \subseteq crowded \cup {n}
  BY DEF Publish, Crowd
<1>7. Pushing(s) = {}
  BY <1>4 DEF Pushing
<1>8. \A x \in Sessions \ {s} : /\ slots'[x] = slots[x]
                                /\ x \in auto' <=> x \in auto
                                /\ x \in autoTimer' <=> x \in autoTimer
                                /\ x \in pushTimer' <=> x \in pushTimer
  BY <1>1 DEF AutoStarts, IInv, TypeOK
<1>9. PushesOf(n) \subseteq Pushing(s) \cup DOMAIN f \/ s \in pushTimer'
  BY <1>1
<1>10. s \in auto' => /\ slots'[s] = (Pushing(s) \cup DOMAIN f) \cap conf.slots
                      /\ slots'[s] = conf.slots \/ s \in autoTimer'
  <2>1. s \notin auto
    BY <1>3 DEF IInv, ContextsOK
  <2>2. s \in auto' => /\ slots' = [slots EXCEPT ![s] = DOMAIN f \cap conf.slots]
                       /\ DOMAIN f \cap conf.slots = conf.slots \/ s \in autoTimer'
    BY <1>1, <2>1 DEF AutoStarts
  <2>3. s \in auto' => slots'[s] = DOMAIN f \cap conf.slots
    BY <2>2 DEF IInv, TypeOK
  <2>4. (Pushing(s) \cup DOMAIN f) \cap conf.slots = DOMAIN f \cap conf.slots
    BY <1>7
  <2> QED
    BY <2>2, <2>3, <2>4
<1>11. role' = [role EXCEPT ![s] = "publish"] /\ UNCHANGED conf
  BY DEF Publish
<1> QED
  BY <1>1, <1>2, <1>3, <1>4, <1>5, <1>6, <1>7, <1>8, <1>9, <1>10, <1>11,
     PushKeepsFollow

LEMMA StaticPublishFollow ==
  ASSUME IInv, IInv', FollowInv, NEW s \in Sessions, StaticPublish(s)
  PROVE  FollowInv'
<1>1. PICK f \in Connections(conf.slots) :
        Push(s, name[s], f) /\ name' = Named(f, name[s]) /\ AutoStarts(s, f)
  BY DEF StaticPublish
<1>2. peer[s] \in conf.statics /\ role[s] = "new" /\ state[s] = "open"
  BY DEF StaticPublish, Static, Open
<1>3. ~IsClient(s) /\ ~Relayed(s)
  BY <1>2, ConfOK, TargetsOK, MarksAssumption DEF Apart, IInv, IsClient, Relayed
<1>4. name[s] \in Names /\ publish[s] = None /\ conf.slots \in SUBSET Targets
  BY <1>2, <1>3, TargetsOK DEF IInv, ContextsOK
<1>5. s \notin table /\ plays[s] = {} /\ s \notin autoTimer /\ ~Source(s)
  BY <1>2, <1>4, NewListEmpty
<1>6. name[s] \notin crowded' =>
        \A x \in Sessions : ~(name[x] = name[s] /\ Source(x))
  BY CrowdAlone DEF StaticPublish, IInv
<1>7. crowded \subseteq crowded' /\ crowded' \subseteq crowded \cup {name[s]}
  BY DEF StaticPublish, Crowd
<1>8. Pushing(s) = {}
  BY <1>5 DEF Pushing
<1>9. \A x \in Sessions \ {s} : /\ slots'[x] = slots[x]
                                /\ x \in auto' <=> x \in auto
                                /\ x \in autoTimer' <=> x \in autoTimer
                                /\ x \in pushTimer' <=> x \in pushTimer
  BY <1>1 DEF StaticPublish, AutoStarts, IInv, TypeOK
<1>10. s \in auto' => /\ slots'[s] = (Pushing(s) \cup DOMAIN f) \cap conf.slots
                      /\ slots'[s] = conf.slots \/ s \in autoTimer'
  <2>1. s \notin auto
    BY <1>2 DEF IInv, ContextsOK
  <2>2. s \in auto' => /\ slots' = [slots EXCEPT ![s] = DOMAIN f \cap conf.slots]
                       /\ DOMAIN f \cap conf.slots = conf.slots \/ s \in autoTimer'
    BY <1>1, <2>1 DEF AutoStarts
  <2>3. s \in auto' => slots'[s] = DOMAIN f \cap conf.slots
    BY <2>2 DEF IInv, TypeOK
  <2>4. (Pushing(s) \cup DOMAIN f) \cap conf.slots = DOMAIN f \cap conf.slots
    BY <1>8
  <2> QED
    BY <2>2, <2>3, <2>4
<1>11. role' = [role EXCEPT ![s] = "publish"] /\ UNCHANGED conf
  BY DEF StaticPublish
<1>12. name' = [Named(f, name[s]) EXCEPT ![s] = name[s]]
  <2>1. s \notin Range(f)
    BY <1>2, ConnectionsOK DEF Free
  <2> QED
    BY <1>1, <2>1 DEF Named
<1> QED
  BY <1>1, <1>2, <1>3, <1>4, <1>5, <1>6, <1>7, <1>8, <1>9, <1>10, <1>11, <1>12,
     PushKeepsFollow

\* The timers push what is missing, for a source that goes on.
LEMMA PushReconnectFollow ==
  ASSUME IInv, IInv', FollowInv, NEW s \in Sessions, PushReconnect(s)
  PROVE  FollowInv'
<1>1. PICK f \in Connections(Missing(s)) :
        /\ Push(s, name[s], f) /\ name' = Named(f, name[s])
        /\ pushTimer' = IF DOMAIN f = Missing(s) THEN pushTimer \ {s} ELSE pushTimer
  BY DEF PushReconnect
<1>2. /\ Missing(s) \subseteq conf.pushes /\ Missing(s) \in SUBSET Targets
      /\ s \in table /\ Missing(s) = PushesOf(name[s]) \ Pushing(s)
  BY TargetsOK DEF PushReconnect, IInv, Missing, TimersSound, Pushing
<1>3. name[s] \in Names /\ publish[s] = s /\ state[s] # "free"
  BY <1>2, MarksAssumption DEF IInv, ContextsOK, ListsSound
<1>4. UNCHANGED <<conf, role, autoTimer, staticTimer, auto, slots, crowded>>
  BY DEF PushReconnect
<1>5. DOMAIN f \subseteq Missing(s) /\ s \notin Range(f)
  BY <1>3, ConnectionsOK DEF Free
<1>6. name' = [Named(f, name[s]) EXCEPT ![s] = name[s]]
  BY <1>1, <1>5 DEF Named
<1>7. Source(s)
  BY <1>2 DEF Source
<1>8. name[s] \notin crowded' =>
        \A x \in Sessions : name[x] = name[s] /\ Source(x) => x = s
  BY <1>4, <1>7 DEF FollowInv, OneSource
<1>9. ASSUME role'[s] = "publish", name[s] \notin crowded'
      PROVE
         /\ \A q, r \in plays[s] : peer[q] = peer[r] /\ ~IsClient(q) => q = r
         /\ DOMAIN f \cap Pushing(s) = {}
         /\ IsClient(s) => \/ PushesOf(name[s]) \subseteq Pushing(s) \cup DOMAIN f
                           \/ s \in pushTimer'
         /\ s \in auto' => /\ slots'[s] = (Pushing(s) \cup DOMAIN f) \cap conf.slots
                           /\ slots'[s] = conf.slots \/ s \in autoTimer'
  <2>1. ListOK(s) /\ (s \in auto => SlotsOK(s))
    BY <1>4, <1>9 DEF FollowInv
  <2>2. DOMAIN f \cap conf.slots = {}
    BY <1>2, <1>5, ConfOK DEF Apart, IInv
  <2>3. s \in auto' => /\ slots'[s] = (Pushing(s) \cup DOMAIN f) \cap conf.slots
                       /\ slots'[s] = conf.slots \/ s \in autoTimer'
    BY <1>4, <2>1, <2>2 DEF SlotsOK
  <2>4. PushesOf(name[s]) \subseteq Pushing(s) \cup DOMAIN f \/ s \in pushTimer'
    <3>1. s \in pushTimer
      BY DEF PushReconnect
    <3> QED
      BY <1>1, <1>2, <3>1
  <2> QED
    BY <1>2, <1>5, <2>1, <2>3, <2>4 DEF ListOK
<1>10. \A x \in Sessions \ {s} : /\ slots'[x] = slots[x]
                                 /\ x \in auto' <=> x \in auto
                                 /\ x \in autoTimer' <=> x \in autoTimer
                                 /\ x \in pushTimer' <=> x \in pushTimer
  BY <1>1, <1>4
<1> QED
  BY <1>1, <1>2, <1>3, <1>4, <1>6, <1>8, <1>9, <1>10, PushKeepsFollow

LEMMA AutoReconnectFollow ==
  ASSUME IInv, IInv', FollowInv, NEW s \in Sessions, AutoReconnect(s)
  PROVE  FollowInv'
<1> DEFINE missing == conf.slots \ slots[s]
<1>1. PICK f \in Connections(missing) :
        /\ Push(s, name[s], f) /\ name' = Named(f, name[s])
        /\ slots' = [slots EXCEPT ![s] = @ \cup DOMAIN f]
        /\ autoTimer' = IF slots'[s] = conf.slots THEN autoTimer \ {s} ELSE autoTimer
  BY DEF AutoReconnect
<1>2. missing \in SUBSET Targets /\ s \in autoTimer /\ s \in auto
  BY TargetsOK DEF AutoReconnect, IInv, TimersSound
<1>3. /\ name[s] \in Names /\ publish[s] \in {None, s} /\ state[s] # "free"
      /\ role[s] \in {"publish", "ended"}
  BY <1>2 DEF IInv, ContextsOK, TimersSound
<1>4. UNCHANGED <<conf, role, pushTimer, staticTimer, auto, crowded>>
  BY DEF AutoReconnect
<1>5. DOMAIN f \subseteq missing /\ s \notin Range(f)
  BY <1>3, ConnectionsOK DEF Free
<1>6. name' = [Named(f, name[s]) EXCEPT ![s] = name[s]]
  BY <1>1, <1>5 DEF Named
<1>7. name[s] \notin crowded' =>
        \A x \in Sessions : name[x] = name[s] /\ Source(x) => x = s
  <2>1. Source(s)
    BY <1>2 DEF Source
  <2> QED
    BY <1>4, <2>1 DEF FollowInv, OneSource
<1>8. ASSUME role'[s] = "publish", name[s] \notin crowded'
      PROVE
         /\ \A q, r \in plays[s] : peer[q] = peer[r] /\ ~IsClient(q) => q = r
         /\ DOMAIN f \cap Pushing(s) = {}
         /\ IsClient(s) => \/ PushesOf(name[s]) \subseteq Pushing(s) \cup DOMAIN f
                           \/ s \in pushTimer'
         /\ s \in auto' => /\ slots'[s] = (Pushing(s) \cup DOMAIN f) \cap conf.slots
                           /\ slots'[s] = conf.slots \/ s \in autoTimer'
  <2>1. ListOK(s) /\ SlotsOK(s) /\ (IsClient(s) => PushesOK(s))
    BY <1>2, <1>4, <1>8 DEF FollowInv
  <2>2. slots[s] = Pushing(s) \cap conf.slots /\ DOMAIN f \subseteq conf.slots
    BY <1>5, <2>1 DEF SlotsOK
  <2>3. slots'[s] = (Pushing(s) \cup DOMAIN f) \cap conf.slots
    BY <1>1, <2>2 DEF IInv, TypeOK
  <2>4. slots'[s] = conf.slots \/ s \in autoTimer'
    BY <1>1, <1>2
  <2> QED
    BY <1>4, <1>5, <2>1, <2>2, <2>3, <2>4 DEF ListOK, PushesOK
<1>9. \A x \in Sessions \ {s} : /\ slots'[x] = slots[x]
                                /\ x \in auto' <=> x \in auto
                                /\ x \in autoTimer' <=> x \in autoTimer
                                /\ x \in pushTimer' <=> x \in pushTimer
  BY <1>1, <1>4 DEF IInv, TypeOK
<1>10. s \in table \/ plays[s] = {} \/ role'[s] = "ended"
  BY <1>3, <1>4 DEF FollowInv, Empty
<1> QED
  BY <1>1, <1>2, <1>3, <1>4, <1>6, <1>7, <1>8, <1>9, <1>10, PushKeepsFollow

\* A session leaves: what it was pushed to is noticed by who pushed it.
LEMMA LeaveKeepsFollow ==
  ASSUME IInv, FollowInv, NEW s \in Sessions, LeaveStep(s),
         \A x \in Sessions \ {s} : role'[x] = role[x] /\ name'[x] = name[x],
         role'[s] \in {"new", "ended"},
         role'[s] = "new" => plays'[s] = {} /\ s \notin autoTimer',
         role'[s] = "ended" => name'[s] = name[s],
         auto' \subseteq auto, autoTimer' \ {s} = AutoTimerAfter(s) \ {s},
         s \in autoTimer' => s \in autoTimer,
         \A x \in Sessions \ {s} : slots'[x] = SlotsAfter(s)[x],
         \A x \in Sessions : name'[x] \in crowded => name'[x] \in crowded'
  PROVE  FollowInv'
<1>1. /\ table' = table \ {s} /\ ListsSound'
      /\ \A x \in Sessions \ {s} :
           plays'[x] = IF IsPlay(s) /\ publish[s] = x THEN plays[x] \ {s} ELSE plays[x]
  BY LeaveOK
<1>2. /\ conf' = conf
      /\ \A x \in Sessions \ {s} : peer'[x] = peer[x]
  BY DEF LeaveStep
<1>3. AutoPushed(s) => s \notin auto
  BY DEF AutoPushed, IsPlay, IInv, ContextsOK
<1>4. \A x \in Sessions \ {s} :
        /\ x \in autoTimer' <=> x \in autoTimer \/ (AutoPushed(s) /\ x = publish[s])
        /\ slots'[x] = IF AutoPushed(s) /\ publish[s] = x
                       THEN slots[x] \ {peer[s]} ELSE slots[x]
  <2>1. \A x \in Sessions \ {s} :
          x \in AutoTimerAfter(s) <=> x \in autoTimer \/ (AutoPushed(s) /\ x = publish[s])
    BY <1>3 DEF AutoTimerAfter
  <2>2. \A x \in Sessions \ {s} :
          SlotsAfter(s)[x] = IF AutoPushed(s) /\ publish[s] = x
                             THEN slots[x] \ {peer[s]} ELSE slots[x]
    BY <1>3 DEF SlotsAfter, IInv, TypeOK
  <2> QED
    BY <2>1, <2>2
<1>5. \A x \in Sessions \ {s} :
        /\ x \in pushTimer => x \in pushTimer'
        /\ IsPlay(s) /\ publish[s] = x /\ peer[s] \in conf.pushes => x \in pushTimer'
  BY DEF LeaveStep, PushTimerAfter, IsOwner, IsPlay
<1>6. AutoPushed(s) => publish[s] \in table
  BY DEF AutoPushed, IsPlay, IInv, ListsSound
<1>7. \A x \in Sessions : Source(x)' => Source(x) /\ name'[x] = name[x]
  <2>1. ASSUME NEW x \in Sessions, x # s, Source(x)'
        PROVE  Source(x) /\ name'[x] = name[x]
    BY <1>1, <1>4, <1>6, <2>1 DEF Source
  <2>2. Source(s)' => Source(s) /\ name'[s] = name[s]
    BY <1>1 DEF Source
  <2> QED
    BY <2>1, <2>2
<1>8. OneSource'
  BY <1>7 DEF FollowInv, OneSource
<1>9. ASSUME NEW p \in Sessions PROVE Empty(p)'
  <2>1. CASE p = s
    BY <2>1 DEF Empty
  <2>2. CASE p # s
    <3>1. Empty(p)
      BY DEF FollowInv
    <3> QED
      BY <1>1, <2>2, <3>1 DEF Empty
  <2> QED
    BY <2>1, <2>2
<1>10. ASSUME NEW p \in Sessions, role'[p] = "publish", name'[p] \notin crowded'
       PROVE  /\ ListOK(p)'
              /\ IsClient(p)' => PushesOK(p)'
              /\ p \in auto' => SlotsOK(p)'
  <2>1. /\ p # s /\ role[p] = "publish" /\ name'[p] = name[p]
        /\ name[p] \notin crowded /\ peer'[p] = peer[p]
    BY <1>2, <1>10
  <2>2. /\ ListOK(p) /\ (IsClient(p) => PushesOK(p)) /\ (p \in auto => SlotsOK(p))
        /\ Empty(p)
    BY <2>1 DEF FollowInv
  <2>3. \A q \in plays'[p] : q \in plays[p] /\ q # s /\ peer'[q] = peer[q]
    <3>1. s \in plays[p] => publish[s] = p /\ IsPlay(s)
      BY <2>1, <2>2, MarksAssumption DEF Empty, IInv, ListsSound, IsPlay
    <3>2. \A q \in plays'[p] : q \in Sessions
      BY <1>1, <2>1 DEF IInv, TypeOK
    <3> QED
      BY <1>1, <1>2, <2>1, <3>1, <3>2
  <2>4. ListOK(p)'
    BY <2>2, <2>3 DEF ListOK, IsClient
  <2>5. CASE IsPlay(s) /\ publish[s] = p
    <3>1. plays'[p] = plays[p] \ {s} /\ s \in plays[p]
      <4>1. p \in table /\ publish[s] = p
        BY <2>5 DEF IsPlay, IInv, ListsSound
      <4>2. s \in plays[p]
        BY <2>1, <4>1 DEF IInv, ListsSound
      <4> QED
        BY <1>1, <2>1, <2>5, <4>2
    <3>2. Pushing(p) \ {peer[s]} \subseteq Pushing(p)' /\ Pushing(p)' \subseteq Pushing(p)
      BY <2>3, <3>1 DEF Pushing
    <3>3. peer[s] \in Targets => peer[s] \notin Pushing(p)'
      BY <2>2, <2>3, <3>1, MarksAssumption DEF Pushing, ListOK, IsClient
    <3>4. IsClient(p)' => PushesOK(p)'
      <4>1. PushesOf(name[p]) \subseteq conf.pushes
        BY TargetsOK DEF IInv
      <4> QED
        BY <1>2, <1>5, <2>1, <2>2, <2>5, <3>2, <4>1
        DEF PushesOK, IsClient, PushesOf
    <3>5. p \in auto' => SlotsOK(p)'
      <4>1. CASE peer[s] \in conf.slots /\ p \in auto
        <5>1. AutoPushed(s) /\ slots'[p] = slots[p] \ {peer[s]} /\ p \in autoTimer'
          BY <1>4, <2>1, <2>5, <4>1 DEF AutoPushed
        <5>2. Pushing(p)' = Pushing(p) \ {peer[s]}
          BY <3>2, <3>3, <4>1, TargetsOK DEF IInv
        <5> QED
          BY <1>2, <2>2, <4>1, <5>1, <5>2 DEF SlotsOK
      <4>2. CASE peer[s] \notin conf.slots /\ p \in auto
        <5>1. slots'[p] = slots[p] /\ (p \in autoTimer => p \in autoTimer')
          BY <1>4, <2>1, <4>2 DEF AutoPushed
        <5>2. Pushing(p)' \cap conf.slots = Pushing(p) \cap conf.slots
          BY <3>2, <4>2
        <5> QED
          BY <1>2, <2>2, <4>2, <5>1, <5>2 DEF SlotsOK
      <4> QED
        BY <4>1, <4>2
    <3> QED
      BY <2>4, <3>4, <3>5
  <2>6. CASE ~(IsPlay(s) /\ publish[s] = p)
    <3>1. plays'[p] = plays[p]
      BY <1>1, <2>1, <2>6
    <3>2. Pushing(p)' = Pushing(p)
      BY <2>3, <3>1 DEF Pushing
    <3>3. slots'[p] = slots[p] /\ (p \in autoTimer => p \in autoTimer')
      BY <1>4, <2>1, <2>6 DEF AutoPushed
    <3>4. IsClient(p)' => PushesOK(p)'
      BY <1>2, <1>5, <2>1, <2>2, <3>2 DEF PushesOK, IsClient, PushesOf
    <3>5. p \in auto' => SlotsOK(p)'
      BY <1>2, <2>2, <3>2, <3>3 DEF SlotsOK
    <3> QED
      BY <2>4, <3>4, <3>5
  <2> QED
    BY <2>5, <2>6
<1> QED
  BY <1>8, <1>9, <1>10 DEF FollowInv

LEMMA CloseStreamFollow ==
  ASSUME IInv, FollowInv, NEW s \in Sessions, CloseStream(s) PROVE FollowInv'
<1>1. /\ role' = [role EXCEPT ![s] = "ended"] /\ IsClient(s)
      /\ UNCHANGED <<conf, peer, name, auto, slots, autoTimer, staticTimer, crowded>>
  BY DEF CloseStream
<1>2. /\ role'[s] = "ended"
      /\ \A x \in Sessions \ {s} : role'[x] = role[x]
  BY <1>1 DEF IInv, TypeOK
<1>3. ~AutoPushed(s)
  BY <1>1, TargetsOK, MarksAssumption DEF AutoPushed, IsClient, IInv
<1>4. SlotsAfter(s) = slots /\ AutoTimerAfter(s) \ {s} = autoTimer \ {s}
  BY <1>3 DEF SlotsAfter, AutoTimerAfter
<1>5. CASE conf.sessionRelay
  <2>1. UNCHANGED <<state, lists, pushTimer>>
    BY <1>5 DEF CloseStream
  <2>2. \A x \in Sessions : Source(x)' => Source(x)
    BY <1>1, <1>2, <2>1 DEF Source
  <2>3. OneSource'
    BY <1>1, <2>2 DEF FollowInv, OneSource
  <2>4. \A p \in Sessions : Empty(p)'
    BY <1>2, <2>1 DEF FollowInv, Empty
  <2>5. ASSUME NEW p \in Sessions, role'[p] = "publish", name'[p] \notin crowded'
        PROVE  /\ ListOK(p)'
               /\ IsClient(p)' => PushesOK(p)'
               /\ p \in auto' => SlotsOK(p)'
    <3>1. role[p] = "publish" /\ name[p] \notin crowded
      BY <1>1, <1>2, <2>5
    <3>2. ListOK(p) /\ (IsClient(p) => PushesOK(p)) /\ (p \in auto => SlotsOK(p))
      BY <3>1 DEF FollowInv
    <3> QED
      BY <1>1, <2>1, <3>2 DEF ListOK, PushesOK, SlotsOK, IsClient, Pushing, PushesOf
  <2> QED
    BY <2>3, <2>4, <2>5 DEF FollowInv
<1>6. CASE ~conf.sessionRelay
  <2>1. LeaveStep(s)
    BY <1>6 DEF CloseStream, LeaveStep
  <2> QED
    BY <1>1, <1>2, <1>4, <2>1, LeaveKeepsFollow
<1> QED
  BY <1>5, <1>6

LEMMA DeleteStreamFollow ==
  ASSUME IInv, FollowInv, NEW s \in Sessions, DeleteStream(s) PROVE FollowInv'
<1>1. LeaveStep(s)
  BY DEF DeleteStream, LeaveStep
<1>2. /\ role'[s] = "ended"
      /\ \A x \in Sessions \ {s} : role'[x] = role[x]
  BY DEF DeleteStream, IInv, TypeOK
<1>3. s \notin autoTimer'
  BY AutoAfterOK DEF DeleteStream
<1> QED
  BY <1>1, <1>2, <1>3, LeaveKeepsFollow DEF DeleteStream

LEMMA CloseFollow ==
  ASSUME IInv, FollowInv, NEW s \in Sessions, Close(s) PROVE FollowInv'
<1>1. LeaveStep(s)
  BY StateAfterOK DEF Close, LeaveStep, IInv, TypeOK
<1>2. /\ role'[s] = "new" /\ plays'[s] = {}
      /\ \A x \in Sessions \ {s} : role'[x] = role[x] /\ name'[x] = name[x]
      /\ name' \in [Sessions -> Names \cup {None}]
  <2>1. PlaysAfter(s) \in [Sessions -> SUBSET Sessions]
    BY DEF PlaysAfter, IsPlay, IInv, TypeOK
  <2> QED
    BY <2>1 DEF Close, IInv, TypeOK
<1>3. s \notin autoTimer'
  BY AutoAfterOK DEF Close
<1>4. \A x \in Sessions \ {s} : slots'[x] = SlotsAfter(s)[x]
  BY AutoAfterOK DEF Close
<1>5. \A x \in Sessions : name'[x] \in crowded => name'[x] \in crowded'
  BY <1>2 DEF Close, Range
<1> QED
  BY <1>1, <1>2, <1>3, <1>4, <1>5, LeaveKeepsFollow DEF Close

\* Sessions come that push nothing, or pull.
LEMMA NewcomersFollow ==
  ASSUME IInv, FollowInv, NEW new \in SUBSET Sessions,
         UNCHANGED <<conf, pushTimer, autoTimer, auto, slots>>,
         \A x \in new : ~Source(x) /\ publish[x] = None /\ role'[x] # "publish",
         \A x \in Sessions \ new : /\ name'[x] = name[x] /\ role'[x] = role[x]
                                   /\ peer'[x] = peer[x]
                                   /\ x \in table' <=> x \in table,
         \A x \in new, y \in Sessions :
           Source(x)' /\ Source(y)' /\ name'[x] = name'[y] /\ name'[x] \notin crowded'
             => x = y,
         crowded \subseteq crowded',
         \A p \in Sessions : Empty(p)',
         \A p \in Sessions \ new :
           \/ plays'[p] = plays[p]
           \/ \E c \in Sessions : plays'[p] = plays[p] \cup {c} /\ peer'[c] = Client
  PROVE  FollowInv'
<1>1. OneSource'
  <2> SUFFICES ASSUME NEW x \in Sessions, NEW y \in Sessions,
                      Source(x)', Source(y)', name'[x] = name'[y],
                      name'[x] \notin crowded'
               PROVE  x = y
    BY DEF OneSource
  <2>1. CASE x \in new \/ y \in new
    BY <2>1
  <2>2. CASE x \notin new /\ y \notin new
    <3>1. Source(x) /\ Source(y)
      BY <2>2 DEF Source
    <3> QED
      BY <2>2, <3>1 DEF FollowInv, OneSource
  <2> QED
    BY <2>1, <2>2
<1>2. ASSUME NEW p \in Sessions, role'[p] = "publish", name'[p] \notin crowded'
      PROVE  /\ ListOK(p)'
             /\ IsClient(p)' => PushesOK(p)'
             /\ p \in auto' => SlotsOK(p)'
  <2>1. /\ p \notin new /\ role[p] = "publish" /\ name'[p] = name[p]
        /\ name[p] \notin crowded /\ peer'[p] = peer[p]
    BY <1>2
  <2>2. /\ ListOK(p) /\ (IsClient(p) => PushesOK(p)) /\ (p \in auto => SlotsOK(p))
        /\ Empty(p)
    BY <2>1 DEF FollowInv
  <2>3. \A q \in plays[p] : q \in Sessions /\ peer'[q] = peer[q]
    <3>1. \A q \in plays[p] : q \in Sessions /\ publish[q] # None
      BY <2>1, <2>2, MarksAssumption DEF Empty, IInv, TypeOK, ListsSound
    <3> QED
      BY <3>1
  <2>4. Client \notin conf.slots /\ Client \notin conf.pushes
    BY TargetsOK, MarksAssumption DEF IInv
  <2>5. PICK added \in SUBSET Sessions : /\ plays'[p] = plays[p] \cup added
                                         /\ \A c \in added : peer'[c] = Client
    <3>1. CASE plays'[p] = plays[p]
      <4>1. /\ {} \in SUBSET Sessions /\ plays'[p] = plays[p] \cup {}
            /\ \A c \in {} : peer'[c] = Client
        BY <3>1
      <4> QED
        BY <4>1
    <3>2. CASE plays'[p] # plays[p]
      <4>1. PICK c \in Sessions : plays'[p] = plays[p] \cup {c} /\ peer'[c] = Client
        BY <2>1, <3>2
      <4>2. {c} \in SUBSET Sessions
        OBVIOUS
      <4> QED
        BY <4>1, <4>2
    <3> QED
      BY <3>1, <3>2
  <2>6. Pushing(p) \subseteq Pushing(p)' /\ Pushing(p)' \subseteq Pushing(p) \cup {Client}
    BY <2>3, <2>5 DEF Pushing
  <2>7. ListOK(p)'
    BY <2>2, <2>3, <2>5 DEF ListOK, IsClient
  <2>8. IsClient(p)' => PushesOK(p)'
    BY <2>1, <2>2, <2>6 DEF PushesOK, IsClient, PushesOf
  <2>9. p \in auto' => SlotsOK(p)'
    BY <2>2, <2>4, <2>6 DEF SlotsOK
  <2> QED
    BY <2>7, <2>8, <2>9
<1> QED
  BY <1>1, <1>2 DEF FollowInv

LEMMA FreeNew ==
  ASSUME IInv, FollowInv, NEW s \in Free
  PROVE  /\ s \in Sessions /\ role[s] = "new" /\ publish[s] = None
         /\ s \notin table /\ s \notin autoTimer /\ plays[s] = {} /\ ~Source(s)
<1>1. s \in Sessions /\ state[s] = "free" /\ role[s] = "new" /\ publish[s] = None
  BY DEF Free, IInv, ContextsOK, ListsSound
<1> QED
  BY <1>1, NewListEmpty

LEMMA PlayFoundFollow ==
  ASSUME IInv, FollowInv, NEW s \in Sessions, NEW n \in conf.names, PlayFound(s, n)
  PROVE  FollowInv'
<1>1. /\ publish[s] = None /\ role[s] = "new" /\ peer[s] = Client
  BY FreshOK DEF PlayFound, Fresh, IsClient
<1>2. s \notin table /\ s \notin autoTimer /\ ~Source(s)
  BY <1>1, NewListEmpty
<1>3. Owner(s, n) \in table /\ Owner(s, n) \in Sessions
  BY OwnerOK DEF PlayFound, IInv
<1>4. /\ role'[s] = "play"
      /\ \A x \in Sessions \ {s} : role'[x] = role[x] /\ name'[x] = name[x]
      /\ \A p \in Sessions : plays'[p] = IF p = Owner(s, n) THEN plays[p] \cup {s}
                                                          ELSE plays[p]
  BY <1>3 DEF PlayFound, IInv, TypeOK
<1>5. UNCHANGED <<conf, peer, table, pushTimer, autoTimer, auto, slots, crowded>>
  BY DEF PlayFound
<1>6. \A p \in Sessions : Empty(p)'
  BY <1>3, <1>4, <1>5 DEF FollowInv, Empty
<1>7. ~Source(s)'
  BY <1>2, <1>4, <1>5 DEF Source
<1>8. {s} \in SUBSET Sessions
  OBVIOUS
<1> QED
  BY <1>1, <1>2, <1>4, <1>5, <1>6, <1>7, <1>8, NewcomersFollow

LEMMA PlayFailsFollow ==
  ASSUME IInv, FollowInv, NEW s \in Sessions, NEW n \in conf.names, PlayFails(s, n)
  PROVE  FollowInv'
<1>1. publish[s] = None /\ role[s] = "new"
  BY FreshOK DEF PlayFails, Fresh
<1>2. s \notin table /\ s \notin autoTimer /\ ~Source(s)
  BY <1>1, NewListEmpty
<1>3. /\ role'[s] = "play"
      /\ \A x \in Sessions \ {s} : role'[x] = role[x] /\ name'[x] = name[x]
  BY DEF PlayFails, IInv, TypeOK
<1>4. UNCHANGED <<conf, peer, lists, pushTimer, autoTimer, auto, slots, crowded>>
  BY DEF PlayFails
<1>5. \A p \in Sessions : Empty(p)'
  BY <1>3, <1>4 DEF FollowInv, Empty
<1>6. ~Source(s)'
  BY <1>2, <1>3, <1>4 DEF Source
<1>7. {s} \in SUBSET Sessions
  OBVIOUS
<1> QED
  BY <1>1, <1>2, <1>3, <1>4, <1>5, <1>6, <1>7, NewcomersFollow

LEMMA StaticReconnectFollow ==
  ASSUME IInv, FollowInv, NEW t \in Targets, StaticReconnect(t) PROVE FollowInv'
<1>1. PICK s \in Free, n \in conf.for[t] :
        peer' = [peer EXCEPT ![s] = t] /\ name' = [name EXCEPT ![s] = n]
  BY DEF StaticReconnect
<1>2. /\ s \in Sessions /\ role[s] = "new" /\ publish[s] = None
      /\ s \notin table /\ s \notin autoTimer /\ ~Source(s)
  BY FreeNew
<1>3. UNCHANGED <<conf, role, lists, pushTimer, autoTimer, auto, slots, crowded>>
  BY DEF StaticReconnect
<1>4. \A x \in Sessions \ {s} : peer'[x] = peer[x] /\ name'[x] = name[x]
  BY <1>1 DEF IInv, TypeOK
<1>5. \A p \in Sessions : Empty(p)'
  BY <1>3 DEF FollowInv, Empty
<1>6. ~Source(s)'
  BY <1>2, <1>3 DEF Source
<1>7. {s} \in SUBSET Sessions
  BY <1>2
<1> QED
  BY <1>2, <1>3, <1>4, <1>5, <1>6, <1>7, NewcomersFollow

LEMMA PlayPullsFollow ==
  ASSUME IInv, FollowInv, NEW s \in Sessions, NEW n \in conf.names, PlayPulls(s, n)
  PROVE  FollowInv'
<1>1. /\ publish[s] = None /\ role[s] = "new" /\ state[s] = "open"
  BY FreshOK DEF PlayPulls, Fresh
<1>2. s \notin table /\ s \notin autoTimer /\ ~Source(s)
  BY <1>1, NewListEmpty
<1>3. PICK t \in PullsOf(n), r \in Free :
        /\ peer' = [peer EXCEPT ![r] = t]
        /\ name' = [name EXCEPT ![r] = n, ![s] = n]
        /\ plays' = [plays EXCEPT ![r] = {s}]
        /\ table' = table \cup {r}
  BY DEF PlayPulls
<1>4. /\ r \in Sessions /\ role[r] = "new" /\ publish[r] = None /\ r # s
      /\ r \notin table /\ r \notin autoTimer /\ plays[r] = {} /\ ~Source(r)
  BY <1>1, FreeNew DEF Free
<1>5. /\ UNCHANGED <<conf, pushTimer, autoTimer, auto, slots>>
      /\ role' = [role EXCEPT ![s] = "play"]
      /\ crowded \subseteq crowded'
  BY DEF PlayPulls, Crowd
<1>6. \A x \in Sessions \ {r, s} :
        name'[x] = name[x] /\ role'[x] = role[x] /\ peer'[x] = peer[x]
  BY <1>3, <1>5 DEF IInv, TypeOK
<1>7. /\ name'[r] = n /\ role'[s] = "play" /\ role'[r] = "new"
      /\ \A p \in Sessions : plays'[p] = IF p = r THEN {s} ELSE plays[p]
  BY <1>3, <1>4, <1>5 DEF IInv, TypeOK
<1>8. \A p \in Sessions : Empty(p)'
  BY <1>3, <1>4, <1>6, <1>7 DEF FollowInv, Empty
<1>9. ~Source(s)'
  BY <1>2, <1>3, <1>4, <1>5, <1>7 DEF Source
<1>10. \A y \in Sessions : Source(r)' /\ Source(y)' /\ name'[r] = name'[y]
                           /\ name'[r] \notin crowded' => r = y
  <2> SUFFICES ASSUME NEW y \in Sessions, Source(y)', name'[y] = n,
                      n \notin crowded', y # r
               PROVE  FALSE
    BY <1>7
  <2>1. y # s
    BY <1>9
  <2>2. Source(y) /\ name[y] = n
    BY <1>3, <1>5, <1>6, <2>1 DEF Source
  <2> QED
    BY <2>2, CrowdAlone DEF PlayPulls, IInv
<1>11. {r, s} \in SUBSET Sessions
  BY <1>4
<1>12. /\ \A x \in {r, s} : ~Source(x) /\ publish[x] = None /\ role'[x] # "publish"
       /\ \A x \in Sessions \ {r, s} : x \in table' <=> x \in table
       /\ \A x \in {r, s}, y \in Sessions :
            Source(x)' /\ Source(y)' /\ name'[x] = name'[y] /\ name'[x] \notin crowded'
              => x = y
  BY <1>1, <1>2, <1>3, <1>4, <1>7, <1>9, <1>10
<1> QED
  BY <1>5, <1>6, <1>7, <1>8, <1>11, <1>12, NewcomersFollow

LEMMA FollowInductive ==
  ASSUME IInv, IInv', FollowInv, [Next]_vars PROVE FollowInv'
<1>1. ASSUME UNCHANGED <<conf, peer, role, name, lists, pushTimer, autoTimer, auto,
                         slots, crowded>>
      PROVE  FollowInv'
  BY <1>1 DEF FollowInv, OneSource, Source, Empty, ListOK, PushesOK, SlotsOK,
              Pushing, PushesOf, IsClient
<1>2. ASSUME NEW s \in Sessions, Connect(s) \/ Finalize(s) PROVE FollowInv'
  BY <1>1, <1>2 DEF Connect, Finalize
<1>3. ASSUME NEW s \in Sessions, CloseStream(s) \/ DeleteStream(s) \/ Close(s)
      PROVE  FollowInv'
  BY <1>3, CloseStreamFollow, DeleteStreamFollow, CloseFollow
<1>4. ASSUME NEW s \in Sessions, PushStep(s) PROVE FollowInv'
  BY <1>4, PublishFollow, StaticPublishFollow, PushReconnectFollow,
     AutoReconnectFollow DEF PushStep
<1>5. ASSUME NEW s \in Sessions, NEW n \in conf.names,
             PlayFound(s, n) \/ PlayPulls(s, n) \/ PlayFails(s, n)
      PROVE  FollowInv'
  BY <1>5, PlayFoundFollow, PlayPullsFollow, PlayFailsFollow
<1>6. ASSUME NEW t \in Targets, StaticReconnect(t) PROVE FollowInv'
  BY <1>6, StaticReconnectFollow
<1>7. CASE Respawn
  BY <1>7 DEF Respawn, Started, FollowInv, OneSource, Source, Empty
<1>8. CASE UNCHANGED vars
  BY <1>1, <1>8 DEF vars
<1> QED
  BY <1>2, <1>3, <1>4, <1>5, <1>6, <1>7, <1>8
  DEF Next, Tangled, Ending, Timer, Command, PushStep, PublishCrashes,
      PushReconnectCrashes

LEMMA FollowAlways == Spec => [](IInv /\ FollowInv)
<1>1. Init => FollowInv
  BY DEF Init, Started, FollowInv, OneSource, Source, Empty
<1>2. IInv /\ IInv' /\ FollowInv /\ [Next]_vars => FollowInv'
  BY FollowInductive
<1> QED
  BY <1>1, <1>2, Invariant, PTL DEF Spec

\* A client's stream goes to every server of its push directives, once, or the
\* reconnect timer is armed (ngx_rtmp_relay_push_reconnect).
THEOREM PushesAlwaysComplete == Spec => []PushesComplete
BY FollowAlways, FollowImplies, PTL

\* The slots of auto_push are those of its sessions, through every order in which
\* these end (ngx_rtmp_auto_push_delete_stream).
THEOREM SlotsAlwaysExact == Spec => []SlotsExact
BY FollowAlways, FollowImplies, PTL

=============================================================================
