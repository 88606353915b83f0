--------------------------- MODULE ShutdownProofs ---------------------------
(***************************************************************************)
(* Facts about the end of the daemon, proved for mailboxes of any capacity,*)
(* any number of events and whatever goes wrong.                           *)
(***************************************************************************)
EXTENDS Shutdown, FiniteSets, FiniteSetTheorems, TLAPS

Message == Source \cup {"apply", "set", "finish"}

-----------------------------------------------------------------------------
\* The places of a mailbox that hold a batch, and how many they are.
BatchesAt(q) == {i \in 1..Len(q) : q[i] = "apply"}
Batches(q) == Cardinality(BatchesAt(q))

\* Finitely many places of a mailbox hold a batch, and none of an empty one.
LEMMA BatchesFinite ==
  ASSUME NEW q \in Seq(Message)
  PROVE  IsFiniteSet(BatchesAt(q)) /\ Batches(q) \in Nat
<1>1. IsFiniteSet(1..Len(q))
  BY FS_Interval
<1>2. IsFiniteSet(BatchesAt(q))
  BY <1>1, FS_Subset DEF BatchesAt
<1> QED BY <1>2, FS_CardinalityType DEF Batches

LEMMA BatchesNone == Batches(<<>>) = 0
<1>1. BatchesAt(<<>>) = {}
  BY DEF BatchesAt
<1> QED BY <1>1, FS_EmptySet DEF Batches

\* A message sent to a mailbox is one more batch or none.
LEMMA BatchesSent ==
  ASSUME NEW q \in Seq(Message), NEW m \in Message
  PROVE  Batches(Append(q, m)) = IF m = "apply" THEN Batches(q) + 1 ELSE Batches(q)
<1> DEFINE n == Len(q) + 1
<1>1. /\ n \in Nat /\ Len(Append(q, m)) = n /\ Append(q, m)[n] = m
      /\ 1..n = 1..Len(q) \cup {n} /\ n \notin 1..Len(q)
      /\ \A i \in 1..Len(q) : Append(q, m)[i] = q[i]
  OBVIOUS
<1> HIDE DEF n
<1>2. BatchesAt(Append(q, m)) = IF m = "apply" THEN BatchesAt(q) \cup {n} ELSE BatchesAt(q)
  BY <1>1 DEF BatchesAt
<1>3. IsFiniteSet(BatchesAt(q)) /\ n \notin BatchesAt(q)
  BY <1>1, BatchesFinite DEF BatchesAt
<1> QED BY <1>2, <1>3, FS_AddElement DEF Batches

\* A message taken off a mailbox is one batch less or none.
LEMMA BatchesTaken ==
  ASSUME NEW q \in Seq(Message), q # <<>>
  PROVE  Batches(q) = IF Head(q) = "apply" THEN Batches(Tail(q)) + 1 ELSE Batches(Tail(q))
<1> DEFINE Later == BatchesAt(q) \ {1}
           next == [i \in BatchesAt(Tail(q)) |-> i + 1]
<1>1. /\ Len(q) \in Nat \ {0} /\ Head(q) = q[1]
      /\ Tail(q) \in Seq(Message) /\ Len(Tail(q)) = Len(q) - 1
      /\ \A i \in 1..Len(Tail(q)) : Tail(q)[i] = q[i + 1]
  OBVIOUS
<1>2. IsFiniteSet(BatchesAt(q)) /\ IsFiniteSet(BatchesAt(Tail(q))) /\ IsFiniteSet(Later)
  BY <1>1, BatchesFinite, FS_RemoveElement
<1>3. Batches(Tail(q)) = Cardinality(Later)
  <2>1. \A i \in BatchesAt(Tail(q)) : i \in Nat /\ i + 1 \in Later
    BY <1>1 DEF BatchesAt
  <2>2. ASSUME NEW j \in Later
        PROVE  \E i \in BatchesAt(Tail(q)) : j = i + 1
    <3>1. j \in Nat /\ j - 1 \in BatchesAt(Tail(q)) /\ j = (j - 1) + 1
      BY <1>1, <2>2 DEF BatchesAt
    <3> QED BY <3>1
  <2>3. /\ next \in [BatchesAt(Tail(q)) -> Later]
        /\ \A i \in BatchesAt(Tail(q)) : next[i] = i + 1
    BY <2>1
  <2>4. \A i, j \in BatchesAt(Tail(q)) : next[i] = next[j] => i = j
    BY <2>1, <2>3
  <2>5. \A j \in Later : \E i \in BatchesAt(Tail(q)) : next[i] = j
    BY <2>2, <2>3
  <2> HIDE DEF next, Later
  <2>6. next \in Bijection(BatchesAt(Tail(q)), Later)
    BY <2>3, <2>4, <2>5 DEF Bijection, Injection, Surjection, IsInjective
  <2> QED BY <1>2, <2>6, FS_Bijection DEF Batches, ExistsBijection
<1>4. (1 \in BatchesAt(q)) <=> Head(q) = "apply"
  BY <1>1 DEF BatchesAt
<1>5. CASE Head(q) = "apply"
  <2>1. Batches(q) - 1 = Cardinality(Later)
    BY <1>2, <1>4, <1>5, FS_RemoveElement DEF Batches
  <2> QED BY <1>1, <1>3, <1>5, <2>1, BatchesFinite
<1>6. CASE Head(q) # "apply"
  <2>1. Later = BatchesAt(q)
    BY <1>4, <1>6
  <2> QED BY <1>3, <1>6, <2>1 DEF Batches
<1> QED BY <1>5, <1>6
-----------------------------------------------------------------------------
\* The state in two parts: what a step does to mailboxes, tasks and batches is one of
\* four things, and the rest is only typed.
BoxTypes ==
  /\ box \in [Server -> Seq(Message)]
  /\ \A s \in Server : Len(box[s]) <= Capacity[s]
  /\ open \in [Server -> BOOLEAN]
  /\ ended \in [Server -> {"no", "ok", "err"}]
  /\ owed \in Nat
  /\ hung \in BOOLEAN

TaskTypes ==
  /\ mainPc \in 0..13
  /\ outcome \in {"running", "clean", "error"}
  /\ stage \in [Source -> {"idle", "asking", "waiting", "sending"}]
  /\ applying \in SUBSET Sinks
  /\ gateway \in {"serving", "forwarding", "finishing", "joining"}
  /\ fault \in Faults
  /\ raised \in 0..MaxEvents[fault]

LEMMA TypeParts == TypeOK <=> BoxTypes /\ TaskTypes
BY Zenon DEF TypeOK, BoxTypes, TaskTypes, Message

LEMMA TypePartsNext == TypeOK' <=> BoxTypes' /\ TaskTypes'
BY Zenon DEF TypeOK, BoxTypes, TaskTypes, Message

Quiet == UNCHANGED <<boxVars, ended, owed, hung>>

Takes1(s, m) ==
  /\ Takes(s, m) /\ box' = Taken(s) /\ UNCHANGED ended
  /\ open' = open \/ open' = [open EXCEPT ![s] = FALSE]
  /\ IF s = "hue" /\ m = "apply"
     THEN \/ owed' = owed - 1 /\ UNCHANGED hung
          \/ UNCHANGED owed /\ hung' = TRUE
     ELSE UNCHANGED <<owed, hung>>

Sends1(r, m) ==
  /\ HasRoom(r) /\ box' = Sent(r, m) /\ UNCHANGED <<open, ended, hung>>
  /\ owed' = IF r = "hue" /\ m = "apply" THEN owed + 1 ELSE owed

Ends1(s, how) ==
  /\ ended[s] = "no" /\ End(s, how) /\ UNCHANGED <<owed, hung>>
  /\ s = "hue" => ~hung /\ (how = "ok" => box[s] = <<>>)
  /\ s = "device" => how = "ok"
  /\ s = "redstone" => how = "ok" /\ ended["device"] # "no"

BoxMoves ==
  \/ Quiet
  \/ \E s \in Server, m \in Message : Takes1(s, m)
  \/ \E s \in Server, m \in Message : Sends1(s, m)
  \/ \E s \in Server, how \in {"ok", "err"} : Ends1(s, how)

\* Every step is one of the four, and keeps the type of the rest.
LEMMA Moves ==
  ASSUME BoxTypes, TaskTypes, Next
  PROVE  TaskTypes' /\ BoxMoves
<1>0. \A s \in {"tree", "clock", "redstone", "mcu", "update", "hue", "device"} : s \in Server
  BY DEF Server
<1>1. \A m \in {"clock", "device", "connection", "apply", "set", "finish"} : m \in Message
  BY DEF Message, Source
<1>2. ASSUME UNCHANGED <<stage, applying, gateway, fault, raised>>,
             mainPc' \in 0..13, outcome' \in {"running", "clean", "error"}
      PROVE  TaskTypes'
  BY <1>2 DEF TaskTypes
<1>3. ASSUME UNCHANGED <<mainVars, applying, gateway, fault, raised>>,
             NEW t \in Source, NEW p \in {"idle", "asking", "waiting", "sending"},
             stage' = [stage EXCEPT ![t] = p]
      PROVE  TaskTypes'
  BY <1>3 DEF TaskTypes, mainVars
<1>4. ASSUME UNCHANGED <<mainVars, stage, gateway, fault, raised>>,
             applying' \in SUBSET Sinks
      PROVE  TaskTypes'
  BY <1>4 DEF TaskTypes, mainVars
<1>5. ASSUME UNCHANGED <<mainVars, stage, applying, fault, raised>>,
             gateway' \in {"serving", "forwarding", "finishing", "joining"}
      PROVE  TaskTypes'
  BY <1>5 DEF TaskTypes, mainVars
<1>6. ASSUME UNCHANGED <<mainVars, stage, applying, gateway, fault, raised>>
      PROVE  TaskTypes'
  BY <1>6 DEF TaskTypes, mainVars
<1>7. ASSUME NEW t \in Source, Alive(t), SourceFails(t), UNCHANGED <<owed, hung>>
      PROVE  BoxMoves
  <2>1. CASE t = "clock"
    <3>1. Ends1("clock", "err")
      BY <1>7, <2>1 DEF SourceFails, Alive, Ends1, Server
    <3> QED BY <1>0, <3>1 DEF BoxMoves
  <2>2. CASE t # "clock"
    BY <1>7, <2>2 DEF SourceFails, BoxMoves, Quiet
  <2> QED BY <2>1, <2>2
<1>8. CASE CtrlC
  BY <1>2, <1>8 DEF CtrlC, TaskTypes, BoxMoves, Quiet, faultVars
<1>9. CASE MainFinish
  <2> DEFINE s == FinishOrder[mainPc]
  <2>1. s \in Server /\ mainPc \in 1..6
    BY <1>9 DEF MainFinish, FinishOrder, Server
  <2>2. /\ UNCHANGED <<open, ended, stage, applying, gateway, raised, owed, faultVars>>
        /\ \/ HasRoom(s) /\ box' = Sent(s, "finish") /\ mainPc' = mainPc + 1 /\ UNCHANGED outcome
           \/ outcome' = "error" /\ UNCHANGED <<box, mainPc>>
    BY <1>9 DEF MainFinish
  <2> HIDE DEF s
  <2>3. TaskTypes'
    BY <1>2, <2>1, <2>2 DEF TaskTypes, faultVars
  <2>4. Sends1(s, "finish") \/ Quiet
    BY <2>2 DEF Sends1, Quiet, boxVars, faultVars
  <2> QED BY <1>1, <2>1, <2>3, <2>4 DEF BoxMoves
<1>10. CASE MainJoin
  BY <1>2, <1>10 DEF MainJoin, TaskTypes, BoxMoves, Quiet, faultVars
<1>11. ASSUME NEW t \in Source, Raise(t)
       PROVE  TaskTypes' /\ BoxMoves
  <2>1. /\ raised \in 0..MaxEvents[fault] /\ MaxEvents[fault] \in Nat
        /\ raised < MaxEvents[fault]
    BY <1>11, BoundAssumption DEF Raise, TaskTypes
  <2>2. raised + 1 \in 0..MaxEvents[fault]
    BY <2>1
  <2>3. TaskTypes'
    BY <1>11, <2>2 DEF Raise, TaskTypes, mainVars, faultVars
  <2> QED BY <1>11, <2>3 DEF Raise, BoxMoves, Quiet, faultVars
<1>12. ASSUME NEW t \in Source, AskTree(t)
       PROVE  TaskTypes' /\ BoxMoves
  <2>1. /\ \/ Sends1("tree", t) /\ stage' = [stage EXCEPT ![t] = "waiting"]
           \/ SourceFails(t) /\ Alive(t)
        /\ UNCHANGED <<mainVars, applying, gateway, raised, owed, faultVars>>
    BY <1>12 DEF AskTree, Sends1, faultVars
  <2>2. TaskTypes'
    BY <1>3, <2>1 DEF SourceFails, faultVars
  <2> QED BY <1>0, <1>7, <2>1, <2>2 DEF BoxMoves, Message, faultVars
<1>13. ASSUME NEW t \in Source, SendUpdates(t)
       PROVE  TaskTypes' /\ BoxMoves
  <2>1. /\ \/ Sends1("update", "apply") /\ stage' = [stage EXCEPT ![t] = "idle"]
           \/ SourceFails(t) /\ Alive(t)
        /\ UNCHANGED <<mainVars, applying, gateway, raised, owed, faultVars>>
    BY <1>13 DEF SendUpdates, Sends1, faultVars
  <2>2. TaskTypes'
    BY <1>3, <2>1 DEF SourceFails, faultVars
  <2> QED BY <1>0, <1>1, <1>7, <2>1, <2>2 DEF BoxMoves, faultVars
<1>14. ASSUME NEW t \in Source, TreeGone(t)
       PROVE  TaskTypes' /\ BoxMoves
  <2>1. /\ SourceFails(t) /\ Alive(t)
        /\ UNCHANGED <<mainVars, applying, gateway, raised, owed, faultVars>>
    BY <1>14 DEF TreeGone
  <2>2. TaskTypes'
    BY <1>3, <2>1 DEF SourceFails, faultVars
  <2> QED BY <1>7, <2>1, <2>2 DEF faultVars
<1>15. ASSUME NEW t \in {"clock", "device"}, SourceFinishes(t)
       PROVE  TaskTypes' /\ BoxMoves
  <2>1. Ends1(t, "ok")
    BY <1>15 DEF SourceFinishes, Takes, Running, Ends1, faultVars
  <2>2. TaskTypes'
    BY <1>6, <1>15 DEF SourceFinishes, faultVars
  <2> QED BY <1>0, <2>1, <2>2 DEF BoxMoves
<1>16. CASE DeviceSet
  <2>1. Takes1("device", "set")
    BY <1>16 DEF DeviceSet, Takes1, faultVars
  <2>2. TaskTypes'
    BY <1>6, <1>16 DEF DeviceSet, faultVars
  <2> QED BY <1>0, <1>1, <2>1, <2>2 DEF BoxMoves
<1>17. ASSUME NEW s \in Draining, TakesFinish(s)
       PROVE  TaskTypes' /\ BoxMoves
  <2>1. Takes1(s, "finish")
    BY <1>17 DEF TakesFinish, Takes1, faultVars
  <2>2. TaskTypes'
    BY <1>6, <1>17 DEF TakesFinish, faultVars
  <2> QED BY <1>0, <1>1, <2>1, <2>2 DEF BoxMoves, Draining
<1>18. ASSUME NEW s \in Draining, Drained(s)
       PROVE  TaskTypes' /\ BoxMoves
  <2>1. Ends1(s, "ok")
    BY <1>18 DEF Drained, Running, Ends1, faultVars, Draining
  <2>2. TaskTypes'
    BY <1>6, <1>18 DEF Drained, faultVars
  <2> QED BY <1>0, <2>1, <2>2 DEF BoxMoves, Draining
<1>19. CASE TreeHandleEvent
  <2>1. PICK t \in Source : /\ Takes1("tree", t) /\ stage' = [stage EXCEPT ![t] = "sending"]
                            /\ UNCHANGED <<mainVars, applying, gateway, fault, raised>>
    BY <1>19 DEF TreeHandleEvent, Takes1, faultVars
  <2>2. TaskTypes'
    BY <1>3, <2>1
  <2> QED BY <1>0, <2>1, <2>2 DEF BoxMoves, Message
<1>20. CASE TreePanics
  <2>1. Ends1("tree", "err")
    BY <1>20 DEF TreePanics, Takes, Running, Ends1, faultVars
  <2>2. TaskTypes'
    BY <1>6, <1>20 DEF TreePanics, faultVars
  <2> QED BY <1>0, <2>1, <2>2 DEF BoxMoves
<1>21. CASE HueApply
  <2>1. Takes1("hue", "apply")
    BY <1>21 DEF HueApply, Takes1, faultVars
  <2>2. TaskTypes'
    BY <1>6, <1>21 DEF HueApply, faultVars
  <2> QED BY <1>0, <1>1, <2>1, <2>2 DEF BoxMoves
<1>22. CASE HuePanics
  <2>1. Ends1("hue", "err")
    BY <1>22 DEF HuePanics, Takes, Running, Ends1, faultVars
  <2>2. TaskTypes'
    BY <1>6, <1>22 DEF HuePanics, faultVars
  <2> QED BY <1>0, <2>1, <2>2 DEF BoxMoves
<1>23. CASE HueHangs
  <2>1. Takes1("hue", "apply")
    BY <1>23 DEF HueHangs, Takes1, faultVars
  <2>2. TaskTypes'
    BY <1>6, <1>23 DEF HueHangs, faultVars
  <2> QED BY <1>0, <1>1, <2>1, <2>2 DEF BoxMoves
<1>24. CASE UpdateTakeApply
  <2>1. Takes1("update", "apply")
    BY <1>24 DEF UpdateTakeApply, Takes1, faultVars
  <2>2. TaskTypes'
    BY <1>4, <1>24 DEF UpdateTakeApply, faultVars
  <2> QED BY <1>0, <1>1, <2>1, <2>2 DEF BoxMoves
<1>25. CASE UpdateToHue
  <2>1. Sends1("hue", "apply") \/ Quiet
    BY <1>25 DEF UpdateToHue, Sends1, Quiet, boxVars, faultVars
  <2>2. TaskTypes'
    BY <1>4, <1>25 DEF UpdateToHue, TaskTypes, faultVars
  <2> QED BY <1>0, <1>1, <2>1, <2>2 DEF BoxMoves
<1>26. CASE UpdateToRedstone
  <2>1. Sends1("redstone", "set") \/ Quiet
    BY <1>26 DEF UpdateToRedstone, Sends1, Quiet, boxVars, faultVars
  <2>2. TaskTypes'
    BY <1>4, <1>26 DEF UpdateToRedstone, faultVars
  <2> QED BY <1>0, <1>1, <2>1, <2>2 DEF BoxMoves
<1>27. CASE RedstoneTake
  <2>1. Takes1("redstone", "set") \/ Takes1("redstone", "finish")
    BY <1>27 DEF RedstoneTake, Takes1, faultVars
  <2>2. TaskTypes'
    BY <1>5, <1>27 DEF RedstoneTake, faultVars
  <2> QED BY <1>0, <1>1, <2>1, <2>2 DEF BoxMoves
<1>28. CASE RedstoneToDevice
  <2>1. Sends1("device", "set") \/ Sends1("device", "finish")
    BY <1>28 DEF RedstoneToDevice, Sends1, faultVars
  <2>2. TaskTypes'
    BY <1>5, <1>28 DEF RedstoneToDevice, faultVars
  <2> QED BY <1>0, <1>1, <2>1, <2>2 DEF BoxMoves
<1>29. CASE RedstoneEnds
  <2>1. Ends1("redstone", "ok")
    BY <1>29 DEF RedstoneEnds, Running, Ends1, faultVars
  <2>2. TaskTypes'
    BY <1>6, <1>29 DEF RedstoneEnds, faultVars
  <2> QED BY <1>0, <2>1, <2>2 DEF BoxMoves
<1> QED
  BY <1>8, <1>9, <1>10, <1>11, <1>12, <1>13, <1>14, <1>15, <1>16, <1>17, <1>18, <1>19,
     <1>20, <1>21, <1>22, <1>23, <1>24, <1>25, <1>26, <1>27, <1>28, <1>29
     DEF Next, TaskStep, MainStep, GatewayStep, SourceStep, DrainStep
-----------------------------------------------------------------------------
\* A batch that is owed is in the mailbox of the hue server, as long as the server
\* is there to apply it.
OwedInv ==
  /\ \A s \in Server : ended[s] # "no" => ~open[s]
  /\ hung => ended["hue"] = "no"
  /\ ended["hue"] = "no" /\ ~hung => owed = Batches(box["hue"])
  /\ ended["hue"] = "ok" => owed = 0

\* What main has joined ended well, and so did the device server of a gateway that
\* ended.
JoinInv ==
  /\ \A k \in 1..6 : mainPc > k + 6 => ended[JoinOrder[k]] = "ok"
  /\ outcome = "clean" => mainPc = 13
  /\ ended["device"] # "err"
  /\ ended["redstone"] = "ok" => ended["device"] = "ok"

EndInv == BoxTypes /\ TaskTypes /\ OwedInv /\ JoinInv

LEMMA InitHolds == Init => EndInv
<1> SUFFICES ASSUME Init PROVE EndInv
  OBVIOUS
<1>1. /\ \A s \in Server : Capacity[s] \in Nat \ {0}
      /\ MaxEvents[fault] \in Nat
  BY BoundAssumption DEF Init
<1>2. BoxTypes
  <2>1. /\ box = [s \in Server |-> <<>>] /\ open = [s \in Server |-> TRUE]
        /\ ended = [s \in Server |-> "no"] /\ owed = 0 /\ hung = FALSE
    BY DEF Init
  <2>2. <<>> \in Seq(Message) /\ Len(<<>>) = 0
    OBVIOUS
  <2>3. box \in [Server -> Seq(Message)] /\ \A s \in Server : Len(box[s]) = 0
    BY <2>1, <2>2
  <2>4. \A s \in Server : Len(box[s]) <= Capacity[s]
    BY <1>1, <2>3
  <2> QED BY <2>1, <2>3, <2>4 DEF BoxTypes
<1>3. TaskTypes
  <2>1. /\ mainPc = 0 /\ outcome = "running" /\ stage = [t \in Source |-> "idle"]
        /\ applying = {} /\ gateway = "serving" /\ fault \in Faults /\ raised = 0
    BY DEF Init
  <2> QED BY <1>1, <2>1 DEF TaskTypes
<1>4. OwedInv
  <2>1. Batches(<<>>) = 0
    BY BatchesNone
  <2> QED BY <2>1 DEF Init, OwedInv, Server
<1>5. JoinInv
  BY DEF Init, JoinInv, Server
<1> QED BY <1>2, <1>3, <1>4, <1>5 DEF EndInv

\* A step keeps the types of mailboxes and tasks, and what is owed in the mailbox.
LEMMA BoxStep ==
  ASSUME BoxTypes, OwedInv, BoxMoves
  PROVE  BoxTypes' /\ OwedInv'
<1>0. "hue" \in Server
  BY DEF Server
<1>1. CASE Quiet
  BY <1>1 DEF Quiet, boxVars, BoxTypes, OwedInv
<1>2. ASSUME NEW s \in Server, NEW m \in Message, Takes1(s, m)
      PROVE  BoxTypes' /\ OwedInv'
  <2>1. /\ box[s] \in Seq(Message) /\ box[s] # <<>> /\ Head(box[s]) = m
        /\ Len(box[s]) <= Capacity[s] /\ Capacity[s] \in Nat
    BY <1>2, BoundAssumption DEF Takes1, Takes, BoxTypes
  <2>2. /\ Tail(box[s]) \in Seq(Message) /\ Len(Tail(box[s])) <= Capacity[s]
    BY <2>1
  <2>3. /\ ended' = ended /\ box' = [box EXCEPT ![s] = Tail(box[s])]
        /\ \A r \in Server : open'[r] => open[r]
        /\ open' \in [Server -> BOOLEAN]
    BY <1>2 DEF Takes1, Taken, BoxTypes
  <2>4. /\ box' \in [Server -> Seq(Message)]
        /\ \A r \in Server : Len(box'[r]) <= Capacity[r]
        /\ \A r \in Server : box'[r] = IF r = s THEN Tail(box[s]) ELSE box[r]
    BY <2>2, <2>3 DEF BoxTypes
  <2>5. Batches(box[s]) = IF m = "apply" THEN Batches(Tail(box[s])) + 1 ELSE Batches(Tail(box[s]))
    BY <2>1, BatchesTaken
  <2>6. Batches(Tail(box[s])) \in Nat /\ owed \in Nat
    BY <2>2, BatchesFinite DEF BoxTypes
  <2>7. s = "hue" => ended["hue"] = "no" /\ ~hung
    BY <1>2 DEF Takes1, Takes, Running
  <2>8. CASE s = "hue" /\ m = "apply"
    <3>1. owed = Batches(Tail(box[s])) + 1
      BY <2>5, <2>7, <2>8 DEF OwedInv
    <3>2. \/ owed' = owed - 1 /\ hung' = hung
          \/ owed' = owed /\ hung' = TRUE
      BY <1>2, <2>8 DEF Takes1
    <3>3. owed' \in Nat /\ hung' \in BOOLEAN
      <4>1. hung' \in BOOLEAN
        BY <3>2 DEF BoxTypes
      <4>2. owed' \in Nat
        BY <2>6, <3>1, <3>2
      <4> QED BY <4>1, <4>2
    <3>4. hung' \/ owed' = Batches(Tail(box[s]))
      BY <2>6, <3>1, <3>2
    <3> QED BY <1>0, <2>3, <2>4, <2>7, <2>8, <3>3, <3>4 DEF BoxTypes, OwedInv
  <2>9. CASE ~(s = "hue" /\ m = "apply")
    <3>1. owed' = owed /\ hung' = hung
      BY <1>2, <2>9 DEF Takes1
    <3>2. Batches(box'["hue"]) = Batches(box["hue"])
      BY <1>0, <2>4, <2>5, <2>9
    <3> QED BY <2>3, <2>4, <3>1, <3>2 DEF BoxTypes, OwedInv
  <2> QED BY <2>8, <2>9
<1>3. ASSUME NEW s \in Server, NEW m \in Message, Sends1(s, m)
      PROVE  BoxTypes' /\ OwedInv'
  <2>1. /\ box[s] \in Seq(Message) /\ open[s] /\ Len(box[s]) < Capacity[s]
        /\ Capacity[s] \in Nat /\ owed \in Nat
    BY <1>3, BoundAssumption DEF Sends1, HasRoom, BoxTypes
  <2>2. /\ Append(box[s], m) \in Seq(Message) /\ Len(Append(box[s], m)) <= Capacity[s]
    BY <2>1
  <2>3. /\ ended' = ended /\ open' = open /\ hung' = hung
        /\ box' = [box EXCEPT ![s] = Append(box[s], m)]
        /\ owed' = IF s = "hue" /\ m = "apply" THEN owed + 1 ELSE owed
    BY <1>3 DEF Sends1, Sent
  <2>4. /\ box' \in [Server -> Seq(Message)]
        /\ \A r \in Server : Len(box'[r]) <= Capacity[r]
        /\ \A r \in Server : box'[r] = IF r = s THEN Append(box[s], m) ELSE box[r]
    BY <2>2, <2>3 DEF BoxTypes
  <2>5. Batches(Append(box[s], m)) = IF m = "apply" THEN Batches(box[s]) + 1 ELSE Batches(box[s])
    BY <2>1, BatchesSent
  <2>6. BoxTypes'
    BY <2>1, <2>3, <2>4 DEF BoxTypes
  <2>7. ended["hue"] = "no" /\ ~hung => owed' = Batches(box'["hue"])
    BY <1>0, <2>3, <2>4, <2>5 DEF OwedInv
  <2>8. ended["hue"] = "ok" => owed' = 0
    BY <2>1, <2>3 DEF OwedInv
  <2> QED BY <2>3, <2>6, <2>7, <2>8 DEF OwedInv
<1>4. ASSUME NEW s \in Server, NEW how \in {"ok", "err"}, Ends1(s, how)
      PROVE  BoxTypes' /\ OwedInv'
  <2>1. /\ ended' = [ended EXCEPT ![s] = how] /\ open' = [open EXCEPT ![s] = FALSE]
        /\ box' = [box EXCEPT ![s] = <<>>] /\ owed' = owed /\ hung' = hung
        /\ ended[s] = "no" /\ Capacity[s] \in Nat
    BY <1>4, BoundAssumption DEF Ends1, End
  <2>2. BoxTypes'
    BY <2>1 DEF BoxTypes
  <2>3. \A r \in Server : ended'[r] # "no" => ~open'[r]
    BY <2>1 DEF BoxTypes, OwedInv
  <2>4. CASE s = "hue"
    <3>1. ended'["hue"] = how /\ ~hung /\ (how = "ok" => box["hue"] = <<>>)
      BY <1>0, <1>4, <2>1, <2>4 DEF BoxTypes, Ends1
    <3>2. how = "ok" => owed = 0
      BY <2>1, <2>4, <3>1, BatchesNone DEF OwedInv
    <3> QED BY <2>1, <2>2, <2>3, <3>1, <3>2 DEF OwedInv
  <2>5. CASE s # "hue"
    <3>1. ended'["hue"] = ended["hue"] /\ box'["hue"] = box["hue"]
      BY <1>0, <2>1, <2>5 DEF BoxTypes
    <3> QED BY <2>1, <2>2, <2>3, <3>1 DEF OwedInv
  <2> QED BY <2>4, <2>5
<1> QED BY <1>1, <1>2, <1>3, <1>4 DEF BoxMoves

\* What ended stays ended as it did.
LEMMA EndedStays ==
  ASSUME BoxTypes, BoxMoves, NEW s \in Server, ended[s] # "no"
  PROVE  ended'[s] = ended[s]
<1>1. CASE UNCHANGED ended
  BY <1>1
<1>2. ASSUME NEW r \in Server, NEW how \in {"ok", "err"}, Ends1(r, how)
      PROVE  ended'[s] = ended[s]
  BY <1>2 DEF Ends1, End, BoxTypes
<1> QED BY <1>1, <1>2 DEF BoxMoves, Quiet, Takes1, Sends1

LEMMA JoinStep ==
  ASSUME BoxTypes, TaskTypes, JoinInv, BoxMoves, Next
  PROVE  JoinInv'
<1>0. /\ "device" \in Server /\ "redstone" \in Server
      /\ \A k \in 1..6 : JoinOrder[k] \in Server
  BY DEF Server, JoinOrder
<1>1. /\ ended'["device"] # "err"
      /\ ended'["redstone"] = "ok" => ended'["device"] = "ok"
  <2>1. CASE UNCHANGED ended
    BY <2>1 DEF JoinInv
  <2>2. ASSUME NEW s \in Server, NEW how \in {"ok", "err"}, Ends1(s, how)
        PROVE  /\ ended'["device"] # "err"
               /\ ended'["redstone"] = "ok" => ended'["device"] = "ok"
    <3>1. \A r \in Server : ended'[r] = IF r = s THEN how ELSE ended[r]
      BY <2>2 DEF Ends1, End, BoxTypes
    <3>2. s = "device" => how = "ok"
      BY <2>2 DEF Ends1
    <3>3. s = "redstone" => ended["device"] = "ok"
      BY <1>0, <2>2 DEF Ends1, JoinInv, BoxTypes
    <3> QED BY <1>0, <3>1, <3>2, <3>3 DEF JoinInv
  <2> QED BY <2>1, <2>2 DEF BoxMoves, Quiet, Takes1, Sends1
<1>2. \A k \in 1..6 : mainPc > k + 6 => ended'[JoinOrder[k]] = "ok"
  BY <1>0, EndedStays DEF JoinInv
<1>3. CASE UNCHANGED mainVars
  BY <1>1, <1>2, <1>3 DEF mainVars, JoinInv
<1>4. CASE CtrlC
  BY <1>1, <1>4 DEF CtrlC, Up, JoinInv
<1>5. CASE MainFinish
  <2>1. /\ mainPc \in 1..6 /\ mainPc' \in 1..7 /\ outcome' # "clean"
    BY <1>5 DEF MainFinish, Up
  <2> QED BY <1>1, <2>1 DEF JoinInv
<1>6. CASE MainJoin
  <2>1. /\ mainPc \in 7..12 /\ ended' = ended
        /\ mainPc' = IF ended[JoinOrder[mainPc - 6]] = "ok" THEN mainPc + 1 ELSE mainPc
        /\ outcome' = IF ended[JoinOrder[mainPc - 6]] = "err" THEN "error"
                      ELSE IF mainPc = 12 THEN "clean" ELSE "running"
        /\ ended[JoinOrder[mainPc - 6]] # "no"
    BY <1>6 DEF MainJoin
  <2>2. ended[JoinOrder[mainPc - 6]] \in {"ok", "err"}
    BY <1>0, <2>1 DEF BoxTypes
  <2>3. \A k \in 1..6 : mainPc' > k + 6 => ended'[JoinOrder[k]] = "ok"
    <3>1. ASSUME NEW k \in 1..6, mainPc' > k + 6
          PROVE  ended[JoinOrder[k]] = "ok"
      <4>1. \/ mainPc > k + 6
            \/ k = mainPc - 6 /\ mainPc' = mainPc + 1
        BY <2>1, <3>1
      <4> QED BY <1>2, <2>1, <4>1
    <3> QED BY <2>1, <3>1
  <2>4. outcome' = "clean" => mainPc' = 13
    BY <2>1, <2>2
  <2> QED BY <1>1, <2>3, <2>4 DEF JoinInv
<1>7. UNCHANGED mainVars \/ CtrlC \/ MainFinish \/ MainJoin
  BY Zenon DEF Next, TaskStep, MainStep, GatewayStep, SourceStep, DrainStep, Raise, AskTree,
     TreeGone, SendUpdates, SourceFinishes, DeviceSet, TakesFinish, Drained, TreeHandleEvent,
     TreePanics, HueApply, HuePanics, HueHangs, UpdateTakeApply, UpdateToHue,
     UpdateToRedstone, RedstoneTake, RedstoneToDevice, RedstoneEnds
<1> QED BY <1>3, <1>4, <1>5, <1>6, <1>7

LEMMA StepHolds == EndInv /\ [Next]_vars => EndInv'
<1> SUFFICES ASSUME EndInv, [Next]_vars PROVE EndInv'
  OBVIOUS
<1>1. CASE Next
  BY <1>1, Moves, BoxStep, JoinStep DEF EndInv
<1>2. CASE UNCHANGED vars
  BY <1>2 DEF vars, mainVars, boxVars, faultVars, EndInv, BoxTypes, TaskTypes, OwedInv, JoinInv
<1> QED BY <1>1, <1>2

LEMMA AlwaysHolds == Spec => []EndInv
BY InitHolds, StepHolds, PTL DEF Spec

LEMMA EndInvTypes == EndInv => TypeOK
BY TypeParts DEF EndInv

LEMMA EndInvApplied == EndInv => AcceptedIsApplied
BY DEF EndInv, OwedInv, AcceptedIsApplied

LEMMA EndInvClean == EndInv => CleanMeansEnded
<1> SUFFICES ASSUME EndInv, outcome = "clean", NEW s \in Server PROVE ended[s] = "ok"
  BY DEF CleanMeansEnded
<1>1. \A k \in 1..6 : ended[JoinOrder[k]] = "ok"
  BY DEF EndInv, JoinInv
<1>2. \A r \in Server \ {"device"} : \E k \in 1..6 : JoinOrder[k] = r
  BY DEF Server, JoinOrder
<1>3. ended["redstone"] = "ok"
  BY <1>1, <1>2 DEF Server
<1> QED BY <1>1, <1>2, <1>3 DEF EndInv, JoinInv

\* Every variable keeps its type; above all no mailbox holds more than its capacity,
\* and batches are not applied more often than they were accepted.
THEOREM TypeCorrect == Spec => []TypeOK
BY AlwaysHolds, EndInvTypes, PTL

\* A hue server that ends without an error has applied every batch its mailbox took:
\* close() lets in no more, and recv() gives out what is there before it says None.
THEOREM AcceptedApplied == Spec => []AcceptedIsApplied
BY AlwaysHolds, EndInvApplied, PTL

\* A main that returns Ok leaves no server behind: it joined six of them without an
\* error, and one of these, the gateway, joined the device server.
THEOREM CleanExit == Spec => []CleanMeansEnded
BY AlwaysHolds, EndInvClean, PTL

-----------------------------------------------------------------------------
(***************************************************************************)
(* The two halves of ShutdownEnds that need no fairness.  Every step leaves *)
(* less to do than there was (Left), so that no behaviour goes on for ever; *)
(* and after ctrl-c, while main has not returned, some task can take a      *)
(* step, unless the circle has closed or the bridge hangs (CanStep).        *)
(***************************************************************************)
\* Message m is in the mailbox of s.
Has(s, m) == m \in Range(box[s])

\* What a step does to the mailboxes, message by message.
LEMMA HasTaken ==
  ASSUME BoxTypes, NEW s \in Server, box[s] # <<>>, box' = Taken(s)
  PROVE  /\ \A r \in Server \ {s} : box'[r] = box[r]
         /\ \A m : Has(s, m) <=> m = Head(box[s]) \/ Has(s, m)'
         /\ Len(box'[s]) = Len(box[s]) - 1
<1>1. box[s] \in Seq(Message) /\ box'[s] = Tail(box[s])
  BY DEF BoxTypes, Taken
<1>2. \A i \in 1..Len(Tail(box[s])) : Tail(box[s])[i] = box[s][i + 1]
  BY <1>1
<1>3. DOMAIN box[s] = 1..Len(box[s]) /\ DOMAIN box'[s] = 1..(Len(box[s]) - 1)
  BY <1>1
<1>4. ASSUME NEW m, m \in Range(box[s]), m # Head(box[s]) PROVE m \in Range(box'[s])
  <2>1. PICK i \in 1..Len(box[s]) : box[s][i] = m
    BY <1>3, <1>4 DEF Range
  <2>2. i # 1
    BY <1>1, <1>4, <2>1
  <2>3. i - 1 \in DOMAIN box'[s] /\ box'[s][i - 1] = m
    BY <1>1, <1>2, <1>3, <2>1, <2>2
  <2> QED BY <2>3 DEF Range
<1>5. ASSUME NEW m, m \in Range(box'[s]) PROVE m \in Range(box[s])
  <2>1. PICK i \in 1..(Len(box[s]) - 1) : box'[s][i] = m
    BY <1>3, <1>5 DEF Range
  <2>2. i + 1 \in DOMAIN box[s] /\ box[s][i + 1] = m
    BY <1>1, <1>2, <1>3, <2>1
  <2> QED BY <2>2 DEF Range
<1>6. Head(box[s]) \in Range(box[s])
  BY <1>1, <1>3 DEF Range
<1> QED BY <1>1, <1>4, <1>5, <1>6 DEF Has, Taken, BoxTypes

LEMMA HasSent ==
  ASSUME BoxTypes, NEW s \in Server, NEW m \in Message, box' = Sent(s, m)
  PROVE  /\ \A r \in Server \ {s} : box'[r] = box[r]
         /\ \A x : Has(s, x)' <=> Has(s, x) \/ x = m
         /\ Len(box'[s]) = Len(box[s]) + 1
<1>1. box[s] \in Seq(Message) /\ box'[s] = Append(box[s], m)
  BY DEF BoxTypes, Sent
<1> DEFINE n == Len(box[s]) + 1
<1>2. /\ DOMAIN box[s] = 1..Len(box[s]) /\ DOMAIN box'[s] = 1..n /\ n \in DOMAIN box'[s]
      /\ box'[s][n] = m /\ \A i \in 1..Len(box[s]) : box'[s][i] = box[s][i]
      /\ 1..n = 1..Len(box[s]) \cup {n}
  BY <1>1
<1>3. \A x : x \in Range(box'[s]) <=> x \in Range(box[s]) \/ x = m
  <2> HIDE DEF n
  <2> QED BY <1>2, Zenon DEF Range
<1> QED BY <1>1, <1>3 DEF Has, Sent, BoxTypes

LEMMA HasNone ==
  ASSUME BoxTypes, NEW s \in Server, NEW how, End(s, how)
  PROVE  /\ \A r \in Server \ {s} : /\ box'[r] = box[r] /\ open'[r] = open[r]
                                    /\ ended'[r] = ended[r]
         /\ box'[s] = <<>> /\ open'[s] = FALSE /\ ended'[s] = how
         /\ \A x : ~Has(s, x)'
<1>1. box'[s] = <<>>
  BY DEF BoxTypes, End
<1>2. Range(<<>>) = {}
  BY DEF Range
<1> QED BY <1>1, <1>2 DEF Has, End, BoxTypes

\* Messages are sent to those who know what to do with them.
Accepts == [tree |-> Source, update |-> {"apply"}, hue |-> {"apply"}, redstone |-> {"set"},
            device |-> {"set"}, clock |-> {}, mcu |-> {}]
RightMessages ==
  \A s \in Server : \A m : Has(s, m) => m \in Accepts[s] \cup {"finish"}

\* Who has ended takes no messages, and has none.  Clock, gateway and device server take
\* messages for as long as they are there.
GoneIsClosed ==
  /\ \A s \in Server : ended[s] # "no" => ~open[s] /\ box[s] = <<>>
  /\ \A s \in {"clock", "device", "redstone"} : ended[s] = "no" => open[s]

\* A source that waits for a reply has its event in the tree's mailbox, unless the tree
\* has panicked.
ReplyDue == \A t \in Source : stage[t] = "waiting" => Has("tree", t) \/ ended["tree"] = "err"

\* Whom main has told to finish has been told, or will be when it reads its mailbox.
Told(s) ==
  \/ ~open[s] \/ Has(s, "finish")
  \/ s = "redstone" /\ gateway \in {"finishing", "joining"}
ToldInOrder == \A k \in 1..6 : mainPc > k => Told(FinishOrder[k])

\* The gateway awaits a device server that it has told to finish; before that it is there.
DeviceTold ==
  /\ gateway = "joining" /\ ended["device"] = "no" => Has("device", "finish")
  /\ gateway # "joining" => ended["device"] = "no" /\ ~Has("device", "finish")

\* The update server does not end with a batch in its hands, nor main before it returns.
AtWork == (applying # {} => ended["update"] = "no") /\ (Up => mainPc < 13)

StandInv ==
  RightMessages /\ GoneIsClosed /\ ReplyDue /\ ToldInOrder /\ DeviceTold /\ AtWork

LEMMA InitStand == Init => StandInv
<1> SUFFICES ASSUME Init PROVE StandInv
  OBVIOUS
<1>1. \A s \in Server : box[s] = <<>> /\ open[s] = TRUE /\ ended[s] = "no"
  BY DEF Init
<1>2. \A s \in Server : \A m : ~Has(s, m)
  <2>1. Range(<<>>) = {}
    BY DEF Range
  <2> QED BY <1>1, <2>1 DEF Has
<1>3. \A t \in Source : stage[t] = "idle"
  BY DEF Init
<1>4. {"clock", "device", "redstone"} \subseteq Server
  BY DEF Server
<1>5. RightMessages /\ GoneIsClosed /\ ReplyDue
  BY <1>1, <1>2, <1>3, <1>4 DEF RightMessages, GoneIsClosed, ReplyDue
<1>6. ToldInOrder /\ DeviceTold /\ AtWork
  BY <1>1, <1>2, <1>4 DEF Init, ToldInOrder, DeviceTold, AtWork
<1> QED BY <1>5, <1>6 DEF StandInv

LEMMA StandStep ==
  ASSUME BoxTypes, TaskTypes, StandInv, Next
  PROVE  StandInv'
<1> USE DEF StandInv
<1>0. /\ \A s \in {"tree", "clock", "redstone", "mcu", "update", "hue", "device"} : s \in Server
      /\ \A k \in 1..6 : FinishOrder[k] \in Server \ {"device"}
  BY DEF Server, FinishOrder
<1>1. \A m \in {"clock", "device", "connection", "apply", "set", "finish"} : m \in Message
  BY DEF Message, Source
\* A step of which most of these see nothing.
<1>2. ASSUME UNCHANGED <<boxVars, ended, stage, gateway, mainPc, outcome>>,
             applying' # {} => ended["update"] = "no"
      PROVE  StandInv'
  BY <1>2 DEF RightMessages, GoneIsClosed, ReplyDue, ToldInOrder, Told, DeviceTold, AtWork,
     Has, boxVars, Up
<1>3. ASSUME UNCHANGED <<boxVars, ended, applying, gateway, mainPc, outcome>>,
             \A t \in Source : stage'[t] = "waiting" => stage[t] = "waiting"
      PROVE  StandInv'
  BY <1>3 DEF RightMessages, GoneIsClosed, ReplyDue, ToldInOrder, Told, DeviceTold, AtWork,
     Has, boxVars, Up
<1>4. CASE CtrlC
  BY <1>0, <1>4 DEF CtrlC, RightMessages, GoneIsClosed, ReplyDue, ToldInOrder, Told,
     DeviceTold, AtWork, Has, boxVars, Up
<1>5. CASE MainFinish
  <2> PICK s : s = FinishOrder[mainPc]
    OBVIOUS
  <2>1. s \in Server \ {"device"} /\ mainPc \in 1..6
    BY <1>0, <1>5 DEF MainFinish
  <2>2. CASE /\ HasRoom(s) /\ box' = Sent(s, "finish") /\ mainPc' = mainPc + 1
             /\ UNCHANGED <<outcome, open, ended, stage, applying, gateway>>
    <3>1. /\ \A r \in Server \ {s} : box'[r] = box[r] /\ \A x : Has(r, x)' <=> Has(r, x)
          /\ \A x : Has(s, x)' <=> Has(s, x) \/ x = "finish"
      BY <1>1, <2>1, <2>2, HasSent DEF Has
    <3>2. RightMessages' /\ GoneIsClosed' /\ ReplyDue' /\ DeviceTold' /\ AtWork'
      BY <1>0, <2>1, <2>2, <3>1 DEF RightMessages, GoneIsClosed, ReplyDue, DeviceTold,
         AtWork, HasRoom, Up
    <3>3. ToldInOrder'
      <4> SUFFICES ASSUME NEW k \in 1..6, mainPc' > k PROVE Told(FinishOrder[k])'
        BY DEF ToldInOrder
      <4>1. CASE k = mainPc
        BY <2>2, <3>1, <4>1 DEF Told
      <4>2. CASE k # mainPc
        <5>1. Told(FinishOrder[k])
          BY <2>1, <2>2, <4>2 DEF ToldInOrder
        <5> QED BY <1>0, <2>2, <3>1, <5>1 DEF Told
      <4> QED BY <4>1, <4>2
    <3> QED BY <3>2, <3>3
  <2>3. CASE outcome' = "error" /\ UNCHANGED <<boxVars, mainPc, ended, stage, applying, gateway>>
    BY <2>3 DEF RightMessages, GoneIsClosed, ReplyDue, ToldInOrder, Told, DeviceTold, AtWork,
       Has, boxVars, Up
  <2> QED BY <1>5, <2>2, <2>3 DEF MainFinish, boxVars
<1>6. CASE MainJoin
  <2>1. /\ UNCHANGED <<boxVars, ended, stage, applying, gateway>>
        /\ mainPc \in 7..12 /\ mainPc' \in {mainPc, mainPc + 1}
        /\ outcome' = "running" => mainPc # 12 \/ mainPc' = mainPc
    BY <1>6, <1>0 DEF MainJoin
  <2> QED BY <2>1 DEF RightMessages, GoneIsClosed, ReplyDue, ToldInOrder, Told, DeviceTold,
     AtWork, Has, boxVars, Up
<1>7. ASSUME NEW t \in Source, Raise(t) PROVE StandInv'
  BY <1>3, <1>7 DEF Raise, mainVars, TaskTypes
\* The four things that a step does to mailboxes.
<1>8. ASSUME NEW t \in Source, Alive(t), SourceFails(t), UNCHANGED <<mainVars, applying, gateway>>
      PROVE  StandInv'
  <2>1. \A r \in Source : stage'[r] = "waiting" => stage[r] = "waiting"
    BY <1>8 DEF SourceFails, TaskTypes
  <2>2. CASE t # "clock"
    BY <1>3, <1>8, <2>1, <2>2 DEF SourceFails, mainVars
  <2>3. CASE t = "clock"
    <3>1. End("clock", "err")
      BY <1>8, <2>3 DEF SourceFails
    <3>2. /\ \A r \in Server \ {"clock"} :
               /\ box'[r] = box[r] /\ open'[r] = open[r] /\ ended'[r] = ended[r]
               /\ \A x : Has(r, x)' <=> Has(r, x)
          /\ box'["clock"] = <<>> /\ open'["clock"] = FALSE /\ ended'["clock"] = "err"
          /\ \A x : ~Has("clock", x)'
      BY <1>0, <3>1, HasNone DEF Has
    <3>3. RightMessages' /\ GoneIsClosed'
      BY <1>0, <3>2 DEF RightMessages, GoneIsClosed
    <3>4. ReplyDue'
      BY <1>0, <2>1, <3>2 DEF ReplyDue
    <3>5. ToldInOrder'
      BY <1>0, <1>8, <3>2 DEF ToldInOrder, Told, mainVars
    <3>6. DeviceTold' /\ AtWork'
      BY <1>0, <1>8, <3>2 DEF DeviceTold, AtWork, mainVars, Up
    <3> QED BY <3>3, <3>4, <3>5, <3>6
  <2> QED BY <2>2, <2>3
<1>9. ASSUME NEW s \in Server, NEW m, Takes(s, m), box' = Taken(s)
      PROVE  /\ \A r \in Server \ {s} : box'[r] = box[r] /\ \A x : Has(r, x)' <=> Has(r, x)
             /\ Has(s, m) /\ \A x : Has(s, x)' => Has(s, x)
             /\ \A x : x # m => (Has(s, x) <=> Has(s, x)')
             /\ ended[s] = "no" /\ m \in Accepts[s] \cup {"finish"}
  BY <1>9, HasTaken DEF Takes, Running, RightMessages, Has
<1>10. ASSUME NEW s \in Server, NEW m \in Message, HasRoom(s), box' = Sent(s, m)
       PROVE  /\ \A r \in Server \ {s} : box'[r] = box[r] /\ \A x : Has(r, x)' <=> Has(r, x)
              /\ \A x : Has(s, x)' <=> Has(s, x) \/ x = m
              /\ open[s] /\ ended[s] = "no"
  BY <1>10, HasSent DEF HasRoom, Has, GoneIsClosed
<1>11. ASSUME NEW s \in Server, NEW how \in {"ok", "err"}, End(s, how)
       PROVE  /\ \A r \in Server \ {s} : /\ box'[r] = box[r] /\ open'[r] = open[r]
                                         /\ ended'[r] = ended[r]
                                         /\ \A x : Has(r, x)' <=> Has(r, x)
              /\ box'[s] = <<>> /\ open'[s] = FALSE /\ ended'[s] = how
              /\ \A x : ~Has(s, x)'
  BY <1>11, HasNone DEF Has
<1> USE DEF RightMessages, GoneIsClosed, ReplyDue, ToldInOrder, Told, DeviceTold, AtWork, Up
<1>12. ASSUME NEW s \in Server, NEW how \in {"ok", "err"}, ended[s] = "no", End(s, how),
              UNCHANGED <<mainVars, stage, applying, gateway>>,
              s = "tree" => how = "err" \/ box[s] = <<>>,
              s = "update" => applying = {}, s = "device" => gateway = "joining"
       PROVE  StandInv'
  <2>1. /\ \A r \in Server \ {s} : /\ box'[r] = box[r] /\ open'[r] = open[r]
                                   /\ ended'[r] = ended[r]
                                   /\ \A x : Has(r, x)' <=> Has(r, x)
        /\ box'[s] = <<>> /\ open'[s] = FALSE /\ ended'[s] = how
        /\ \A x : ~Has(s, x)'
    BY <1>11, <1>12
  <2>2. RightMessages' /\ GoneIsClosed'
    BY <1>0, <2>1
  <2>3. ReplyDue'
    <3>1. box["tree"] = <<>> => \A t : ~Has("tree", t)
      BY DEF Has, Range
    <3> QED BY <1>0, <1>12, <2>1, <3>1
  <2>4. ToldInOrder' /\ DeviceTold' /\ AtWork'
    BY <1>0, <1>12, <2>1 DEF mainVars
  <2> QED BY <2>2, <2>3, <2>4
<1>13. ASSUME NEW t \in Source, AskTree(t) PROVE StandInv'
  <2>1. CASE SourceFails(t)
    BY <1>8, <1>13, <2>1 DEF AskTree
  <2>2. CASE /\ HasRoom("tree") /\ box' = Sent("tree", t)
             /\ stage' = [stage EXCEPT ![t] = "waiting"]
             /\ UNCHANGED <<open, ended, mainVars, applying, gateway>>
    <3>1. t \in Message /\ t \in Accepts["tree"]
      BY DEF Message, Accepts
    <3>2. \A r \in Source : stage'[r] = "waiting" => stage[r] = "waiting" \/ r = t
      BY <2>2 DEF TaskTypes
    <3>3. /\ \A r \in Server \ {"tree"} : box'[r] = box[r] /\ \A x : Has(r, x)' <=> Has(r, x)
          /\ \A x : Has("tree", x)' <=> Has("tree", x) \/ x = t
          /\ open["tree"] /\ ended["tree"] = "no"
      BY <1>0, <1>10, <2>2, <3>1
    <3>4. RightMessages' /\ GoneIsClosed'
      BY <1>0, <2>2, <3>1, <3>3
    <3>5. ReplyDue'
      BY <1>0, <2>2, <3>2, <3>3
    <3>6. ToldInOrder' /\ DeviceTold' /\ AtWork'
      BY <1>0, <2>2, <3>3 DEF mainVars
    <3> QED BY <3>4, <3>5, <3>6
  <2> QED BY <1>13, <2>1, <2>2 DEF AskTree
<1>14. ASSUME NEW t \in Source, SendUpdates(t) PROVE StandInv'
  <2>1. CASE SourceFails(t)
    BY <1>8, <1>14, <2>1 DEF SendUpdates
  <2>2. CASE /\ HasRoom("update") /\ box' = Sent("update", "apply")
             /\ stage' = [stage EXCEPT ![t] = "idle"]
             /\ UNCHANGED <<open, ended, mainVars, applying, gateway>>
    <3>1. "apply" \in Accepts["update"]
      BY DEF Accepts
    <3>2. \A r \in Source : stage'[r] = "waiting" => stage[r] = "waiting"
      BY <2>2 DEF TaskTypes
    <3> QED BY <1>0, <1>1, <1>10, <2>2, <3>1, <3>2 DEF mainVars
  <2> QED BY <1>14, <2>1, <2>2 DEF SendUpdates
<1>15. ASSUME NEW t \in Source, TreeGone(t) PROVE StandInv'
  BY <1>8, <1>15 DEF TreeGone
<1>16. ASSUME NEW t \in {"clock", "device"}, SourceFinishes(t) PROVE StandInv'
  <2>1. /\ End(t, "ok") /\ Has(t, "finish") /\ ended[t] = "no"
        /\ UNCHANGED <<mainVars, stage, applying, gateway>>
    BY <1>16, <1>0 DEF SourceFinishes, Takes, Running, Has, Range, BoxTypes
  <2>2. t = "device" => gateway = "joining"
    BY <2>1
  <2> QED BY <1>0, <1>12, <2>1, <2>2
<1>17. CASE DeviceSet
  BY <1>0, <1>9, <1>17 DEF DeviceSet, mainVars
<1>18. ASSUME NEW s \in Draining, TakesFinish(s) PROVE StandInv'
  <2>1. /\ Takes(s, "finish") /\ box' = Taken(s) /\ open' = [open EXCEPT ![s] = FALSE]
        /\ UNCHANGED <<mainVars, ended, stage, applying, gateway>>
        /\ s \in Server \ {"clock", "device", "redstone"}
    BY <1>18 DEF TakesFinish, Draining, Server
  <2>2. \A t \in Source : t # "finish"
    BY DEF Source
  <2>3. ~open'[s] /\ \A r \in Server \ {s} : open'[r] = open[r]
    BY <2>1 DEF BoxTypes
  <2> QED BY <1>0, <1>9, <2>1, <2>2, <2>3 DEF mainVars
<1>19. ASSUME NEW s \in Draining, Drained(s) PROVE StandInv'
  <2>1. /\ End(s, "ok") /\ box[s] = <<>> /\ ended[s] = "no"
        /\ UNCHANGED <<mainVars, stage, applying, gateway>>
        /\ s \in Server \ {"clock", "device", "redstone"}
        /\ s = "update" => applying = {}
    BY <1>19 DEF Drained, Running, Draining, Server
  <2> QED BY <1>12, <2>1
<1>20. CASE TreeHandleEvent
  <2>1. PICK t \in Source : /\ Takes("tree", t) /\ box' = Taken("tree")
                            /\ stage' = [stage EXCEPT ![t] = "sending"]
                            /\ UNCHANGED <<mainVars, open, ended, applying, gateway>>
    BY <1>20 DEF TreeHandleEvent
  <2>2. /\ \A r \in Source \ {t} : stage'[r] = stage[r]
        /\ stage'[t] # "waiting" /\ t # "finish"
    BY <2>1 DEF TaskTypes, Source
  <2> QED BY <1>0, <1>9, <2>1, <2>2 DEF mainVars
<1>21. CASE TreePanics
  BY <1>0, <1>12, <1>21 DEF TreePanics, Takes, Running
<1>22. CASE HueApply
  BY <1>0, <1>9, <1>22 DEF HueApply, mainVars
<1>23. CASE HuePanics
  BY <1>0, <1>12, <1>23 DEF HuePanics, Takes, Running
<1>24. CASE HueHangs
  BY <1>0, <1>9, <1>24 DEF HueHangs, mainVars
<1>25. CASE UpdateTakeApply
  <2>1. /\ UNCHANGED <<mainVars, open, ended, stage, gateway>>
        /\ \A r \in Server \ {"update"} : box'[r] = box[r] /\ \A x : Has(r, x)' <=> Has(r, x)
        /\ \A x : Has("update", x)' => Has("update", x)
        /\ \A x : x # "apply" => (Has("update", x) <=> Has("update", x)')
        /\ ended["update"] = "no"
    BY <1>0, <1>9, <1>25 DEF UpdateTakeApply
  <2>2. RightMessages' /\ GoneIsClosed' /\ ReplyDue'
    BY <1>0, <2>1
  <2>3. ToldInOrder' /\ DeviceTold' /\ AtWork'
    BY <1>0, <2>1 DEF mainVars
  <2> QED BY <2>2, <2>3
<1>26. CASE UpdateToHue
  <2>1. CASE HasRoom("hue") /\ box' = Sent("hue", "apply")
    <3>1. "apply" \in Accepts["hue"]
      BY DEF Accepts
    <3> QED BY <1>0, <1>1, <1>10, <1>26, <2>1, <3>1 DEF UpdateToHue, mainVars
  <2>2. CASE UNCHANGED box
    BY <1>2, <1>26, <2>2 DEF UpdateToHue, mainVars, boxVars
  <2> QED BY <1>26, <2>1, <2>2 DEF UpdateToHue
<1>27. CASE UpdateToRedstone
  <2>1. CASE HasRoom("redstone") /\ box' = Sent("redstone", "set")
    <3>1. "set" \in Accepts["redstone"]
      BY DEF Accepts
    <3> QED BY <1>0, <1>1, <1>10, <1>27, <2>1, <3>1 DEF UpdateToRedstone, mainVars
  <2>2. CASE UNCHANGED box
    BY <1>2, <1>27, <2>2 DEF UpdateToRedstone, mainVars, boxVars
  <2> QED BY <1>27, <2>1, <2>2 DEF UpdateToRedstone
<1>28. CASE RedstoneTake
  BY <1>0, <1>9, <1>28 DEF RedstoneTake, mainVars
<1>29. CASE RedstoneToDevice
  <2>1. "set" \in Accepts["device"]
    BY DEF Accepts
  <2> QED BY <1>0, <1>1, <1>10, <1>29, <2>1 DEF RedstoneToDevice, mainVars
<1>30. CASE RedstoneEnds
  BY <1>0, <1>12, <1>30 DEF RedstoneEnds, Running
<1> QED
  BY <1>4, <1>5, <1>6, <1>7, <1>13, <1>14, <1>15, <1>16, <1>17, <1>18, <1>19, <1>20,
     <1>21, <1>22, <1>23, <1>24, <1>25, <1>26, <1>27, <1>28, <1>29, <1>30, Zenon
     DEF Next, TaskStep, MainStep, GatewayStep, SourceStep, DrainStep

-----------------------------------------------------------------------------
\* Some task can take a step: the guards of the actions of TaskStep.
CanSend(s) == HasRoom(s) \/ ~open[s]

MainCan ==
  /\ Up
  /\ \/ mainPc \in 1..6 /\ CanSend(FinishOrder[mainPc])
     \/ mainPc \in 7..12 /\ ended[JoinOrder[mainPc - 6]] # "no"

SourceCan(t) ==
  \/ /\ Alive(t)
     /\ \/ stage[t] = "asking" /\ CanSend("tree")
        \/ stage[t] = "waiting" /\ ended["tree"] = "err"
        \/ stage[t] = "sending" /\ CanSend("update")
  \/ t \in {"clock", "device"} /\ stage[t] = "idle" /\ Takes(t, "finish")
  \/ t = "device" /\ stage[t] = "idle" /\ Takes(t, "set")

GatewayCan ==
  \/ gateway = "serving" /\ (Takes("redstone", "set") \/ Takes("redstone", "finish"))
  \/ gateway \in {"forwarding", "finishing"} /\ Running("redstone") /\ HasRoom("device")
  \/ gateway = "joining" /\ Running("redstone") /\ ended["device"] # "no"

DrainCan(s) ==
  \/ /\ s = "update" => applying = {}
     /\ Takes(s, "finish") \/ (Running(s) /\ ~open[s] /\ box[s] = <<>>)
  \/ s = "tree" /\ \E t \in Source : Takes(s, t)
  \/ s = "hue" /\ Takes(s, "apply")
  \/ /\ s = "update"
     /\ \/ applying = {} /\ Takes(s, "apply")
        \/ Running(s) /\ "hue" \in applying /\ CanSend("hue")
        \/ Running(s) /\ applying = {"redstone"} /\ CanSend("redstone")

CanStep ==
  \/ MainCan \/ GatewayCan
  \/ \E t \in Source : SourceCan(t)
  \/ \E s \in Draining : DrainCan(s)

\* After ctrl-c somebody can go on until main has returned, unless the circle of full
\* mailboxes has closed or the hue server waits for an answer that never comes.
NoStandstill == mainPc > 0 /\ Up /\ ~Circle /\ ~hung => CanStep

\* Who has a message, or takes no more for want of room, is there to take one.
LEMMA HeadOfBox ==
  ASSUME BoxTypes, StandInv, Up, ~hung, NEW s \in Server, box[s] # <<>>
  PROVE  \E m \in Accepts[s] \cup {"finish"} : Takes(s, m)
<1>1. box[s] \in Seq(Message) /\ ended[s] = "no"
  BY DEF BoxTypes, StandInv, GoneIsClosed
<1>2. Has(s, Head(box[s]))
  BY <1>1 DEF Has, Range
<1> QED BY <1>1, <1>2 DEF StandInv, RightMessages, Takes, Running

LEMMA RoomOrFull ==
  ASSUME BoxTypes, NEW s \in Server
  PROVE  CanSend(s) \/ (Full(s) /\ box[s] # <<>>)
<1>1. box[s] \in Seq(Message) /\ Len(box[s]) <= Capacity[s] /\ Capacity[s] \in Nat \ {0}
  BY BoundAssumption DEF BoxTypes
<1>2. Len(<<>>) = 0
  OBVIOUS
<1> QED BY <1>1, <1>2 DEF CanSend, HasRoom, Full

LEMMA NobodyWaits ==
  ASSUME BoxTypes, TaskTypes, StandInv, mainPc > 0, Up, ~Circle, ~hung
  PROVE  CanStep
<1> SUFFICES ASSUME ~CanStep PROVE FALSE
  OBVIOUS
<1>0. /\ \A s \in {"tree", "clock", "redstone", "mcu", "update", "hue", "device"} : s \in Server
      /\ \A s \in {"tree", "mcu", "update", "hue"} : s \in Draining
      /\ \A t \in {"clock", "device", "connection"} : t \in Source
  BY DEF Server, Draining, Source
\* The tree has nothing to do, and so nobody waits for it.
<1>1. box["tree"] = <<>>
  <2>1. \A m \in Accepts["tree"] \cup {"finish"} : ~Takes("tree", m)
    BY <1>0 DEF CanStep, DrainCan, Accepts
  <2> QED BY <1>0, <2>1, HeadOfBox
<1>2. ASSUME NEW t \in Source, Alive(t) PROVE stage[t] \in {"idle", "sending"}
  <2>1. stage[t] # "asking"
    BY <1>0, <1>1, <1>2, RoomOrFull DEF CanStep, SourceCan
  <2>2. stage[t] # "waiting"
    <3>1. ~Has("tree", t)
      BY <1>1 DEF Has, Range
    <3> QED BY <1>0, <1>2, <3>1 DEF CanStep, SourceCan, StandInv, ReplyDue
  <2> QED BY <2>1, <2>2 DEF TaskTypes
\* Nor has the hue server.
<1>3. box["hue"] = <<>>
  <2>1. \A m \in Accepts["hue"] \cup {"finish"} : ~Takes("hue", m)
    BY <1>0 DEF CanStep, DrainCan, Accepts
  <2> QED BY <1>0, <2>1, HeadOfBox
\* The update server can only wait for the gateway.
<1>4. applying # {} => applying = {"redstone"} /\ Full("redstone")
  <2> SUFFICES ASSUME applying # {} PROVE applying = {"redstone"} /\ Full("redstone")
    OBVIOUS
  <2>1. Running("update")
    BY <1>0 DEF StandInv, AtWork, Running
  <2>2. "hue" \notin applying
    BY <1>0, <1>3, <2>1, RoomOrFull DEF CanStep, DrainCan
  <2>3. applying = {"redstone"}
    BY <2>2 DEF TaskTypes, Sinks
  <2>4. ~CanSend("redstone")
    BY <1>0, <2>1, <2>3 DEF CanStep, DrainCan
  <2> QED BY <1>0, <2>3, <2>4, RoomOrFull
<1>5. box["update"] # <<>> => applying # {}
  <2>1. applying = {} => \A m \in Accepts["update"] \cup {"finish"} : ~Takes("update", m)
    BY <1>0 DEF CanStep, DrainCan, Accepts
  <2> QED BY <1>0, <2>1, HeadOfBox
<1>6. ASSUME NEW t \in Source, Alive(t), stage[t] = "sending"
      PROVE  Full("update") /\ applying = {"redstone"} /\ Full("redstone")
  BY <1>0, <1>4, <1>5, <1>6, RoomOrFull DEF CanStep, SourceCan
\* If the gateway is not reading its mailbox it waits for the device server, and that
\* for the update server: the circle.
<1>7. ended["device"] = "no" /\ box["device"] # <<>> => stage["device"] = "sending"
  <2> SUFFICES ASSUME ended["device"] = "no", box["device"] # <<>>, stage["device"] # "sending"
               PROVE  FALSE
    OBVIOUS
  <2>1. stage["device"] = "idle"
    BY <1>0, <1>2 DEF Alive
  <2>2. \A m \in Accepts["device"] \cup {"finish"} : ~Takes("device", m)
    BY <1>0, <2>1 DEF CanStep, SourceCan, Accepts
  <2> QED BY <1>0, <2>2, HeadOfBox
<1>8. ended["redstone"] = "no" => gateway = "serving"
  <2> SUFFICES ASSUME ended["redstone"] = "no", gateway # "serving" PROVE FALSE
    OBVIOUS
  <2>1. Running("redstone")
    BY DEF Running
  <2>2. ended["device"] = "no" /\ box["device"] # <<>>
    <3>1. CASE gateway = "joining"
      <4>1. ended["device"] = "no" /\ Has("device", "finish")
        BY <2>1, <3>1 DEF CanStep, GatewayCan, StandInv, DeviceTold
      <4> QED BY <4>1 DEF Has, Range
    <3>2. CASE gateway # "joining"
      <4>1. ended["device"] = "no" /\ open["device"]
        BY <3>2 DEF StandInv, DeviceTold, GoneIsClosed
      <4>2. ~HasRoom("device")
        BY <2>1, <3>2 DEF CanStep, GatewayCan, TaskTypes
      <4> QED BY <1>0, <4>1, <4>2, RoomOrFull DEF CanSend
    <3> QED BY <3>1, <3>2
  <2>3. stage["device"] = "sending" /\ Full("update") /\ applying = {"redstone"} /\ Full("redstone")
    BY <1>0, <1>6, <1>7, <2>2 DEF Alive
  <2>4. gateway = "joining" \/ Full("device")
    <3> SUFFICES ASSUME gateway # "joining" PROVE Full("device")
      OBVIOUS
    <3>1. open["device"]
      BY DEF StandInv, DeviceTold, GoneIsClosed
    <3>2. ~HasRoom("device")
      BY <2>1 DEF CanStep, GatewayCan, TaskTypes
    <3> QED BY <1>0, <3>1, <3>2, RoomOrFull DEF CanSend
  <2> QED BY <2>3, <2>4 DEF Circle, TaskTypes
<1>9. box["redstone"] = <<>>
  <2>1. \A m \in Accepts["redstone"] \cup {"finish"} : ~Takes("redstone", m)
    BY <1>8 DEF CanStep, GatewayCan, Accepts, Takes, Running
  <2> QED BY <1>0, <2>1, HeadOfBox
\* And so nobody waits for anybody, and main cannot wait either.
<1>10. applying = {} /\ box["update"] = <<>>
  <2>1. Capacity["redstone"] # 0
    BY BoundAssumption DEF Server
  <2>2. ~Full("redstone")
    BY <1>9, <2>1 DEF Full
  <2> QED BY <1>4, <1>5, <2>2
<1>11. box["clock"] = <<>>
  <2>1. \A m \in Accepts["clock"] \cup {"finish"} : ~Takes("clock", m)
    <3> SUFFICES ASSUME Takes("clock", "finish") PROVE FALSE
      BY DEF Accepts
    <3>1. Alive("clock")
      BY DEF Takes, Running, Alive
    <3>2. stage["clock"] = "idle"
      BY <1>0, <1>2, <1>6, <1>10, <3>1
    <3> QED BY <1>0, <3>2 DEF CanStep, SourceCan
  <2> QED BY <1>0, <2>1, HeadOfBox
<1>12. box["mcu"] = <<>>
  <2>1. \A m \in Accepts["mcu"] \cup {"finish"} : ~Takes("mcu", m)
    BY <1>0 DEF CanStep, DrainCan, Accepts
  <2> QED BY <1>0, <2>1, HeadOfBox
<1>13. \A s \in Server \ {"device"} : box[s] = <<>>
  BY <1>1, <1>3, <1>9, <1>10, <1>11, <1>12 DEF Server
<1>14. mainPc \in 7..12
  <2>1. mainPc \notin 1..6
    <3> SUFFICES ASSUME mainPc \in 1..6 PROVE FALSE
      OBVIOUS
    <3>1. FinishOrder[mainPc] \in Server \ {"device"}
      BY DEF FinishOrder, Server
    <3> QED BY <1>13, <3>1, RoomOrFull DEF CanStep, MainCan
  <2> QED BY <2>1 DEF TaskTypes, StandInv, AtWork
<1>15. PICK s : s = JoinOrder[mainPc - 6]
  OBVIOUS
<1>16. s \in Server \ {"device"} /\ ended[s] = "no" /\ \E k \in 1..6 : s = FinishOrder[k]
  BY <1>14, <1>15 DEF CanStep, MainCan, JoinOrder, FinishOrder, Server
<1>17. ~open[s] \/ (s = "redstone" /\ gateway # "serving")
  <2>1. Told(s)
    BY <1>14, <1>16 DEF StandInv, ToldInOrder
  <2>2. ~Has(s, "finish")
    BY <1>13, <1>16 DEF Has, Range
  <2> QED BY <2>1, <2>2 DEF Told
<1>18. s \in Draining /\ ~open[s] /\ Running(s)
  BY <1>8, <1>16, <1>17 DEF StandInv, GoneIsClosed, Draining, Server, Running
<1> QED BY <1>10, <1>13, <1>16, <1>18 DEF CanStep, DrainCan

LEMMA AlwaysStands == Spec => [](EndInv /\ StandInv)
<1>1. EndInv /\ StandInv /\ [Next]_vars => EndInv' /\ StandInv'
  <2> SUFFICES ASSUME EndInv, StandInv, [Next]_vars PROVE StandInv'
    BY StepHolds
  <2>1. CASE Next
    BY <2>1, StandStep DEF EndInv
  <2>2. CASE UNCHANGED vars
    BY <2>2 DEF vars, mainVars, boxVars, faultVars, StandInv, RightMessages, GoneIsClosed,
       ReplyDue, ToldInOrder, Told, DeviceTold, AtWork, Has, Up
  <2> QED BY <2>1, <2>2
<1> QED BY <1>1, InitHolds, InitStand, PTL DEF Spec

\* A daemon told to end does not stand still, whatever its sources are doing and
\* whichever server has panicked: no main that waits to send or to join, no server that
\* waits for room or for a message, waits for somebody who waits for ever, but for the
\* circle through the device server and for a bridge that does not answer.
THEOREM NeverStandsStill == Spec => []NoStandstill
<1>1. EndInv /\ StandInv => NoStandstill
  BY NobodyWaits DEF EndInv, NoStandstill
<1> QED BY <1>1, AlwaysStands, PTL

-----------------------------------------------------------------------------
\* What is left to be done: what every event, every message, every place of a task and
\* every call of main still costs, weighed so that whatever a step passes on weighs less
\* than what it has done away with.
StageLoad == [idle |-> 0, asking |-> 11, waiting |-> 1, sending |-> 8]
Weight == [tree |-> 9, update |-> 7, redstone |-> 3, hue |-> 1, device |-> 1, clock |-> 1,
           mcu |-> 1]

Asks(f) == StageLoad[f["clock"]] + StageLoad[f["device"]] + StageLoad[f["connection"]]
Lengths(b) == [s \in Server |-> Len(b[s])]
Mail(n) == 9 * n["tree"] + 7 * n["update"] + 3 * n["redstone"] + n["hue"] + n["device"]
             + n["clock"] + n["mcu"]
Hands(a, g) == (IF "hue" \in a THEN 2 ELSE 0) + (IF "redstone" \in a THEN 4 ELSE 0)
                 + (IF g \in {"forwarding", "finishing"} THEN 2 ELSE 0)
Calls(pc, o) == 10 * (13 - pc) + (IF o = "running" THEN 1 ELSE 0)
Unended(e, s) == IF e[s] = "no" THEN 1 ELSE 0
Servers(e) == Unended(e, "tree") + Unended(e, "clock") + Unended(e, "redstone")
                + Unended(e, "mcu") + Unended(e, "update") + Unended(e, "hue")
                + Unended(e, "device")

Left == 12 * (MaxEvents[fault] - raised) + Asks(stage) + Mail(Lengths(box))
          + Hands(applying, gateway) + Calls(mainPc, outcome) + Servers(ended)

\* Every part of it is a natural number.
LEMMA PartsNat ==
  ASSUME BoxTypes, TaskTypes
  PROVE  /\ MaxEvents[fault] - raised \in Nat /\ raised \in Nat /\ MaxEvents[fault] \in Nat
         /\ Asks(stage) \in Nat /\ Mail(Lengths(box)) \in Nat /\ Hands(applying, gateway) \in Nat
         /\ Calls(mainPc, outcome) \in Nat /\ Servers(ended) \in Nat
<1>1. MaxEvents[fault] \in Nat
  BY BoundAssumption DEF TaskTypes
<1>2. \A t \in Source : StageLoad[stage[t]] \in Nat
  BY DEF TaskTypes, StageLoad
<1>3. \A s \in Server : Lengths(box)[s] \in Nat
  BY DEF BoxTypes, Lengths
<1>4. Asks(stage) \in Nat
  BY <1>2 DEF Asks, Source
<1>5. Mail(Lengths(box)) \in Nat
  BY <1>3 DEF Mail, Server
<1>6. Hands(applying, gateway) \in Nat /\ Calls(mainPc, outcome) \in Nat
  BY DEF Hands, Calls, TaskTypes
<1>7. Servers(ended) \in Nat
  BY DEF Servers, Unended
<1> QED BY <1>1, <1>4, <1>5, <1>6, <1>7 DEF TaskTypes

LEMMA LeftNat ==
  ASSUME BoxTypes, TaskTypes
  PROVE  Left \in Nat
BY PartsNat DEF Left

\* A message sent to a mailbox is its weight more, one taken off it its weight less, and
\* the mail of a server that ends does not become more.
LEMMA MailMore ==
  ASSUME NEW n, \A r \in Server : n[r] \in Nat, NEW s \in Server,
         NEW k, \A r \in Server : k[r] = IF r = s THEN n[r] + 1 ELSE n[r]
  PROVE  Mail(k) = Mail(n) + Weight[s]
<1>1. PICK a, b, c, d, e, f, g \in Nat :
        /\ n["tree"] = a /\ n["update"] = b /\ n["redstone"] = c
        /\ n["hue"] = d /\ n["device"] = e /\ n["clock"] = f /\ n["mcu"] = g
  BY DEF Server
<1>2. Mail(n) = 9 * a + 7 * b + 3 * c + d + e + f + g
  BY <1>1 DEF Mail
<1>3. CASE s = "tree"
  <2>1. /\ k["tree"] = a + 1 /\ k["update"] = b /\ k["redstone"] = c /\ k["hue"] = d
        /\ k["device"] = e /\ k["clock"] = f /\ k["mcu"] = g /\ Weight[s] = 9
    BY <1>1, <1>3 DEF Weight, Server
  <2> QED BY <1>2, <2>1 DEF Mail
<1>4. CASE s = "update"
  <2>1. /\ k["tree"] = a /\ k["update"] = b + 1 /\ k["redstone"] = c /\ k["hue"] = d
        /\ k["device"] = e /\ k["clock"] = f /\ k["mcu"] = g /\ Weight[s] = 7
    BY <1>1, <1>4 DEF Weight, Server
  <2> QED BY <1>2, <2>1 DEF Mail
<1>5. CASE s = "redstone"
  <2>1. /\ k["tree"] = a /\ k["update"] = b /\ k["redstone"] = c + 1 /\ k["hue"] = d
        /\ k["device"] = e /\ k["clock"] = f /\ k["mcu"] = g /\ Weight[s] = 3
    BY <1>1, <1>5 DEF Weight, Server
  <2> QED BY <1>2, <2>1 DEF Mail
<1>6. CASE s = "hue"
  <2>1. /\ k["tree"] = a /\ k["update"] = b /\ k["redstone"] = c /\ k["hue"] = d + 1
        /\ k["device"] = e /\ k["clock"] = f /\ k["mcu"] = g /\ Weight[s] = 1
    BY <1>1, <1>6 DEF Weight, Server
  <2> QED BY <1>2, <2>1 DEF Mail
<1>7. CASE s = "device"
  <2>1. /\ k["tree"] = a /\ k["update"] = b /\ k["redstone"] = c /\ k["hue"] = d
        /\ k["device"] = e + 1 /\ k["clock"] = f /\ k["mcu"] = g /\ Weight[s] = 1
    BY <1>1, <1>7 DEF Weight, Server
  <2> QED BY <1>2, <2>1 DEF Mail
<1>8. CASE s = "clock"
  <2>1. /\ k["tree"] = a /\ k["update"] = b /\ k["redstone"] = c /\ k["hue"] = d
        /\ k["device"] = e /\ k["clock"] = f + 1 /\ k["mcu"] = g /\ Weight[s] = 1
    BY <1>1, <1>8 DEF Weight, Server
  <2> QED BY <1>2, <2>1 DEF Mail
<1>9. CASE s = "mcu"
  <2>1. /\ k["tree"] = a /\ k["update"] = b /\ k["redstone"] = c /\ k["hue"] = d
        /\ k["device"] = e /\ k["clock"] = f /\ k["mcu"] = g + 1 /\ Weight[s] = 1
    BY <1>1, <1>9 DEF Weight, Server
  <2> QED BY <1>2, <2>1 DEF Mail
<1> QED BY <1>3, <1>4, <1>5, <1>6, <1>7, <1>8, <1>9 DEF Server

LEMMA MailNat ==
  ASSUME NEW n, \A r \in Server : n[r] \in Nat
  PROVE  Mail(n) \in Nat
BY DEF Mail, Server

LEMMA MailSent ==
  ASSUME BoxTypes, NEW r \in Server, NEW m
  PROVE  Mail(Lengths(Sent(r, m))) = Mail(Lengths(box)) + Weight[r]
<1>1. /\ Len(Append(box[r], m)) = Len(box[r]) + 1
      /\ \A q \in Server : Lengths(box)[q] \in Nat
  BY DEF BoxTypes, Lengths
<1>2. \A q \in Server : Lengths(Sent(r, m))[q] = IF q = r THEN Lengths(box)[q] + 1
                                                         ELSE Lengths(box)[q]
  BY <1>1 DEF Sent, BoxTypes, Lengths
<1> QED BY <1>1, <1>2, MailMore

LEMMA MailTaken ==
  ASSUME BoxTypes, NEW s \in Server, box[s] # <<>>
  PROVE  Mail(Lengths(Taken(s))) = Mail(Lengths(box)) - Weight[s]
<1>1. /\ Len(box[s]) \in Nat \ {0} /\ Len(Tail(box[s])) = Len(box[s]) - 1
      /\ \A r \in Server : Len(box[r]) \in Nat
  BY DEF BoxTypes
<1>2. \A r \in Server : /\ Lengths(Taken(s))[r] \in Nat
                        /\ Lengths(box)[r] = IF r = s THEN Lengths(Taken(s))[r] + 1
                                                      ELSE Lengths(Taken(s))[r]
  BY <1>1 DEF Taken, BoxTypes, Lengths
<1>3. Mail(Lengths(box)) = Mail(Lengths(Taken(s))) + Weight[s]
  BY <1>2, MailMore
<1>4. Mail(Lengths(Taken(s))) \in Nat
  BY <1>2, MailNat
<1>5. Weight[s] \in Nat
  BY DEF Weight, Server
<1> QED BY <1>3, <1>4, <1>5

LEMMA EndLess ==
  ASSUME BoxTypes, NEW s \in Server, NEW how, how # "no", ended[s] = "no", End(s, how)
  PROVE  /\ Servers(ended)' = Servers(ended) - 1
         /\ Mail(Lengths(box))' \in Nat /\ Mail(Lengths(box))' <= Mail(Lengths(box))
<1>1. \A r \in Server : ended'[r] = IF r = s THEN how ELSE ended[r]
  BY DEF End, BoxTypes
<1>2. /\ \A r \in Server : Lengths(box)[r] \in Nat
      /\ \A r \in Server : Lengths(box')[r] = IF r = s THEN 0 ELSE Lengths(box)[r]
  BY DEF End, BoxTypes, Lengths
<1>3. Servers(ended)' = Servers(ended) - 1
  BY <1>1 DEF Servers, Unended, Server
<1>4. Mail(Lengths(box))' \in Nat /\ Mail(Lengths(box))' <= Mail(Lengths(box))
  <2> DEFINE n == Lengths(box)
             k == Lengths(box')
  <2> HIDE DEF n, k
  <2>1. /\ \A r \in Server : n[r] \in Nat
        /\ \A r \in Server : k[r] \in Nat /\ k[r] <= n[r]
    BY <1>2 DEF n, k
  <2>2. Mail(k) \in Nat /\ Mail(k) <= Mail(n)
    BY <2>1 DEF Mail, Server
  <2> QED BY <2>2 DEF n, k
<1> QED BY <1>3, <1>4

\* What a source that moves on had and what it has.
LEMMA AsksMove ==
  ASSUME TaskTypes, NEW t \in Source, NEW to \in {"idle", "asking", "waiting", "sending"},
         stage' = [stage EXCEPT ![t] = to]
  PROVE  Asks(stage)' = Asks(stage) - StageLoad[stage[t]] + StageLoad[to]
<1>1. /\ \A u \in Source : stage'[u] = IF u = t THEN to ELSE stage[u]
      /\ \A u \in Source : StageLoad[stage[u]] \in Nat
      /\ StageLoad[to] \in Nat
  BY DEF TaskTypes, StageLoad
<1> HIDE DEF StageLoad
<1> QED BY <1>1 DEF Asks, Source

\* Every step leaves less to be done.
LEMMA StepLeft ==
  ASSUME BoxTypes, TaskTypes, Next
  PROVE  Left' < Left
<1>0. /\ \A s \in {"tree", "clock", "redstone", "mcu", "update", "hue", "device"} : s \in Server
      /\ \A t \in Source : t \in {"clock", "device", "connection"}
      /\ \A s \in Draining : s \in Server
  BY DEF Server, Source, Draining
<1>1. PICK e, a, n, h, c, v \in Nat :
        /\ MaxEvents[fault] - raised = e /\ Asks(stage) = a /\ Mail(Lengths(box)) = n
        /\ Hands(applying, gateway) = h /\ Calls(mainPc, outcome) = c /\ Servers(ended) = v
  BY PartsNat
\* What a step does not touch.
<1>2. /\ fault' = fault
      /\ UNCHANGED raised => (MaxEvents[fault] - raised)' = e
      /\ UNCHANGED stage => Asks(stage)' = a
      /\ UNCHANGED box => Mail(Lengths(box))' = n
      /\ UNCHANGED <<applying, gateway>> => Hands(applying, gateway)' = h
      /\ UNCHANGED mainVars => Calls(mainPc, outcome)' = c
      /\ UNCHANGED ended => Servers(ended)' = v
  <2>1. fault' = fault
    BY DEF Next, TaskStep, MainStep, GatewayStep, SourceStep, DrainStep, CtrlC, MainFinish,
       MainJoin, Raise, AskTree, TreeGone, SendUpdates, SourceFinishes, DeviceSet,
       TakesFinish, Drained, TreeHandleEvent, TreePanics, HueApply, HuePanics, HueHangs,
       UpdateTakeApply, UpdateToHue, UpdateToRedstone, RedstoneTake, RedstoneToDevice,
       RedstoneEnds, faultVars
  <2> QED BY <1>1, <2>1 DEF mainVars
\* What it does to a mailbox, to a source or to a server.
<1>3. ASSUME NEW s \in Server, box[s] # <<>>, box' = Taken(s)
      PROVE  Mail(Lengths(box))' = n - Weight[s]
  BY <1>1, <1>3, MailTaken
<1>4. ASSUME NEW s \in Server, NEW m, box' = Sent(s, m)
      PROVE  Mail(Lengths(box))' = n + Weight[s]
  BY <1>1, <1>4, MailSent
<1>5. ASSUME NEW t \in Source, NEW to \in {"idle", "asking", "waiting", "sending"},
             stage' = [stage EXCEPT ![t] = to]
      PROVE  /\ stage[t] = "idle" /\ to = "asking" => Asks(stage)' = a + 11
             /\ stage[t] = "asking" /\ to = "waiting" => Asks(stage)' = a - 10
             /\ stage[t] = "sending" /\ to = "idle" => Asks(stage)' = a - 8
             /\ to = "sending" => Asks(stage)' \in Int /\ Asks(stage)' <= a + 8
             /\ stage[t] # "idle" /\ to = "idle" => Asks(stage)' \in Int /\ Asks(stage)' < a
  <2>1. PICK x, y \in Nat : StageLoad[stage[t]] = x /\ StageLoad[to] = y
    BY DEF StageLoad, TaskTypes
  <2>2. Asks(stage)' = a - x + y
    BY <1>1, <1>5, <2>1, AsksMove
  <2>3. /\ stage[t] = "idle" => x = 0
        /\ stage[t] = "asking" => x = 11
        /\ stage[t] = "sending" => x = 8
        /\ stage[t] # "idle" => x > 0
        /\ to = "idle" => y = 0
        /\ to = "asking" => y = 11
        /\ to = "waiting" => y = 1
        /\ to = "sending" => y = 8
    BY <2>1 DEF StageLoad, TaskTypes
  <2> HIDE DEF StageLoad
  <2> QED BY <2>2, <2>3
<1>6. ASSUME NEW s \in Server, NEW how \in {"ok", "err"}, ended[s] = "no", End(s, how)
      PROVE  /\ Servers(ended)' = v - 1
             /\ Mail(Lengths(box))' \in Nat /\ Mail(Lengths(box))' <= n
  BY <1>1, <1>6, EndLess
<1>7. /\ Weight["tree"] = 9 /\ Weight["update"] = 7 /\ Weight["redstone"] = 3
      /\ \A s \in Server : Weight[s] \in Nat \ {0} /\ Weight[s] <= 9
      /\ Weight["hue"] = 1 /\ Weight["device"] = 1
  BY DEF Weight, Server
\* A server ends, or a source gives up.
<1>8. ASSUME NEW s \in Server, NEW how \in {"ok", "err"}, ended[s] = "no", End(s, how),
             UNCHANGED <<mainVars, stage, applying, gateway, raised>>
      PROVE  Left' < Left
  BY <1>1, <1>2, <1>6, <1>8 DEF Left
<1>9. ASSUME NEW t \in Source, Alive(t), stage[t] # "idle", SourceFails(t),
             UNCHANGED <<mainVars, applying, gateway, raised>>
      PROVE  Left' < Left
  <2>1. Asks(stage)' \in Int /\ Asks(stage)' < a
    BY <1>5, <1>9 DEF SourceFails
  <2>2. CASE t = "clock"
    <3>1. ended["clock"] = "no" /\ End("clock", "err")
      BY <1>0, <1>9, <2>2 DEF SourceFails, Alive
    <3> QED BY <1>0, <1>1, <1>2, <1>6, <1>9, <2>1, <3>1 DEF Left
  <2>3. CASE t # "clock"
    <3>1. UNCHANGED <<box, ended>>
      BY <1>9, <2>3 DEF SourceFails, boxVars
    <3> QED BY <1>1, <1>2, <1>9, <2>1, <3>1 DEF Left
  <2> QED BY <2>2, <2>3
\* A message is taken and nothing comes of it.
<1>10. ASSUME NEW s \in Server, box[s] # <<>>, box' = Taken(s),
              UNCHANGED <<mainVars, ended, stage, applying, gateway, raised>>
       PROVE  Left' < Left
  <2>1. PICK w \in Nat \ {0} : Weight[s] = w
    BY <1>7
  <2>2. Mail(Lengths(box))' = n - w
    BY <1>3, <1>10, <2>1
  <2> QED BY <1>1, <1>2, <1>10, <2>2 DEF Left
<1>11. CASE CtrlC
  <2>1. Calls(mainPc, outcome)' = c - 10
    BY <1>1, <1>11 DEF CtrlC, Calls, TaskTypes
  <2> QED BY <1>1, <1>2, <1>11, <2>1 DEF CtrlC, boxVars, Left
<1>12. CASE MainFinish
  <2> PICK s : s = FinishOrder[mainPc]
    OBVIOUS
  <2>1. /\ s \in Server /\ mainPc \in 1..6 /\ outcome = "running"
        /\ UNCHANGED <<ended, stage, applying, gateway, raised>>
    BY <1>0, <1>12 DEF MainFinish, FinishOrder, Up
  <2>2. CASE box' = Sent(s, "finish") /\ mainPc' = mainPc + 1 /\ UNCHANGED outcome
    <3>1. Calls(mainPc, outcome)' = c - 10
      BY <1>1, <2>1, <2>2 DEF Calls
    <3>2. Mail(Lengths(box))' = n + Weight[s] /\ Weight[s] \in Nat /\ Weight[s] <= 9
      BY <1>4, <1>7, <2>1, <2>2
    <3> QED BY <1>1, <1>2, <2>1, <3>1, <3>2 DEF Left
  <2>3. CASE outcome' = "error" /\ UNCHANGED <<box, mainPc>>
    <3>1. Calls(mainPc, outcome)' = c - 1
      BY <1>1, <2>1, <2>3 DEF Calls
    <3> QED BY <1>1, <1>2, <2>1, <2>3, <3>1 DEF Left
  <2> QED BY <1>12, <2>2, <2>3 DEF MainFinish
<1>13. CASE MainJoin
  <2>1. /\ mainPc \in 7..12 /\ outcome = "running"
        /\ UNCHANGED <<boxVars, ended, stage, applying, gateway, raised>>
        /\ \/ mainPc' = mainPc /\ outcome' = "error"
           \/ mainPc' = mainPc + 1
    <3>1. \A s \in {"clock", "redstone", "mcu", "hue", "update", "tree"} :
            ended[s] # "no" => ended[s] \in {"ok", "err"}
      BY <1>0 DEF BoxTypes
    <3>2. JoinOrder[mainPc - 6] \in {"clock", "redstone", "mcu", "hue", "update", "tree"}
      BY <1>13 DEF MainJoin, JoinOrder
    <3> QED BY <1>13, <3>1, <3>2 DEF MainJoin, Up
  <2>2. Calls(mainPc, outcome)' \in Int /\ Calls(mainPc, outcome)' < c
    BY <1>1, <2>1 DEF Calls
  <2> QED BY <1>1, <1>2, <2>1, <2>2 DEF boxVars, Left
<1>14. ASSUME NEW t \in Source, Raise(t) PROVE Left' < Left
  <2>1. /\ stage[t] = "idle" /\ stage' = [stage EXCEPT ![t] = "asking"]
        /\ raised' = raised + 1 /\ raised \in Int /\ MaxEvents[fault] \in Int
        /\ UNCHANGED <<mainVars, box, ended, applying, gateway>>
    BY <1>14, PartsNat DEF Raise, boxVars
  <2>2. Asks(stage)' = a + 11
    BY <1>5, <2>1
  <2>3. (MaxEvents[fault] - raised)' = e - 1
    BY <1>1, <1>2, <2>1
  <2> QED BY <1>1, <1>2, <2>1, <2>2, <2>3 DEF Left
<1>15. ASSUME NEW t \in Source, AskTree(t) PROVE Left' < Left
  <2>1. CASE SourceFails(t)
    BY <1>9, <1>15, <2>1 DEF AskTree
  <2>2. CASE box' = Sent("tree", t) /\ stage' = [stage EXCEPT ![t] = "waiting"]
             /\ UNCHANGED ended
    <3>1. Asks(stage)' = a - 10
      BY <1>5, <1>15, <2>2 DEF AskTree
    <3>2. Mail(Lengths(box))' = n + 9
      BY <1>0, <1>4, <1>7, <2>2
    <3> QED BY <1>1, <1>2, <1>15, <2>2, <3>1, <3>2 DEF AskTree, Left
  <2> QED BY <1>15, <2>1, <2>2 DEF AskTree
<1>16. ASSUME NEW t \in Source, SendUpdates(t) PROVE Left' < Left
  <2>1. CASE SourceFails(t)
    BY <1>9, <1>16, <2>1 DEF SendUpdates
  <2>2. CASE box' = Sent("update", "apply") /\ stage' = [stage EXCEPT ![t] = "idle"]
             /\ UNCHANGED ended
    <3>1. Asks(stage)' = a - 8
      BY <1>5, <1>16, <2>2 DEF SendUpdates
    <3>2. Mail(Lengths(box))' = n + 7
      BY <1>0, <1>4, <1>7, <2>2
    <3> QED BY <1>1, <1>2, <1>16, <2>2, <3>1, <3>2 DEF SendUpdates, Left
  <2> QED BY <1>16, <2>1, <2>2 DEF SendUpdates
<1>17. ASSUME NEW t \in Source, TreeGone(t) PROVE Left' < Left
  BY <1>9, <1>17 DEF TreeGone
<1>18. ASSUME NEW t \in {"clock", "device"}, SourceFinishes(t) PROVE Left' < Left
  BY <1>0, <1>8, <1>18 DEF SourceFinishes, Takes, Running
<1>19. CASE DeviceSet
  BY <1>0, <1>10, <1>19 DEF DeviceSet, Takes
<1>20. ASSUME NEW s \in Draining, TakesFinish(s) PROVE Left' < Left
  BY <1>0, <1>10, <1>20 DEF TakesFinish, Takes
<1>21. ASSUME NEW s \in Draining, Drained(s) PROVE Left' < Left
  BY <1>0, <1>8, <1>21 DEF Drained, Running
<1>22. CASE TreeHandleEvent
  <2>1. PICK t \in Source : /\ Takes("tree", t) /\ box' = Taken("tree")
                            /\ stage' = [stage EXCEPT ![t] = "sending"]
                            /\ UNCHANGED <<mainVars, ended, applying, gateway, raised>>
    BY <1>22 DEF TreeHandleEvent
  <2>2. Asks(stage)' \in Int /\ Asks(stage)' <= a + 8
    BY <1>5, <2>1
  <2>3. Mail(Lengths(box))' = n - 9
    BY <1>0, <1>3, <1>7, <2>1, PartsNat DEF Takes
  <2> QED BY <1>1, <1>2, <2>1, <2>2, <2>3 DEF Left
<1>23. CASE TreePanics
  BY <1>0, <1>8, <1>23 DEF TreePanics, Takes, Running
<1>24. CASE HueApply
  BY <1>0, <1>10, <1>24 DEF HueApply, Takes
<1>25. CASE HuePanics
  BY <1>0, <1>8, <1>25 DEF HuePanics, Takes, Running
<1>26. CASE HueHangs
  BY <1>0, <1>10, <1>26 DEF HueHangs, Takes
<1>27. CASE UpdateTakeApply
  <2>1. Mail(Lengths(box))' = n - 7
    BY <1>0, <1>1, <1>3, <1>7, <1>27 DEF UpdateTakeApply, Takes
  <2>2. Hands(applying, gateway)' \in Int /\ Hands(applying, gateway)' <= h + 6
    BY <1>1, <1>27 DEF UpdateTakeApply, Hands
  <2> QED BY <1>1, <1>2, <1>27, <2>1, <2>2 DEF UpdateTakeApply, Left
<1>28. CASE UpdateToHue
  <2>1. Hands(applying, gateway)' = h - 2
    BY <1>1, <1>28 DEF UpdateToHue, Hands
  <2>2. Mail(Lengths(box))' \in {n, n + 1}
    BY <1>0, <1>2, <1>4, <1>7, <1>28 DEF UpdateToHue
  <2> QED BY <1>1, <1>2, <1>28, <2>1, <2>2 DEF UpdateToHue, Left
<1>29. CASE UpdateToRedstone
  <2>1. Hands(applying, gateway)' = h - 4
    BY <1>1, <1>29 DEF UpdateToRedstone, Hands
  <2>2. Mail(Lengths(box))' \in {n, n + 3}
    BY <1>0, <1>2, <1>4, <1>7, <1>29 DEF UpdateToRedstone
  <2> QED BY <1>1, <1>2, <1>29, <2>1, <2>2 DEF UpdateToRedstone, Left
<1>30. CASE RedstoneTake
  <2>1. Hands(applying, gateway)' = h + 2
    BY <1>1, <1>30 DEF RedstoneTake, Hands
  <2>2. Mail(Lengths(box))' = n - 3
    BY <1>0, <1>1, <1>3, <1>7, <1>30 DEF RedstoneTake, Takes
  <2> QED BY <1>1, <1>2, <1>30, <2>1, <2>2 DEF RedstoneTake, Left
<1>31. CASE RedstoneToDevice
  <2>1. Hands(applying, gateway)' = h - 2
    BY <1>1, <1>31 DEF RedstoneToDevice, Hands
  <2>2. Mail(Lengths(box))' = n + 1
    BY <1>0, <1>4, <1>7, <1>31 DEF RedstoneToDevice
  <2> QED BY <1>1, <1>2, <1>31, <2>1, <2>2 DEF RedstoneToDevice, Left
<1>32. CASE RedstoneEnds
  BY <1>0, <1>8, <1>32 DEF RedstoneEnds, Running
<1> QED
  BY <1>11, <1>12, <1>13, <1>14, <1>15, <1>16, <1>17, <1>18, <1>19, <1>20, <1>21, <1>22,
     <1>23, <1>24, <1>25, <1>26, <1>27, <1>28, <1>29, <1>30, <1>31, <1>32, Zenon
     DEF Next, TaskStep, MainStep, GatewayStep, SourceStep, DrainStep

\* Every step of the daemon, of whichever task, leaves less to be done, and what is left
\* is a natural number: from every state the daemon takes only so many steps more.
\* Together with NeverStandsStill this is ShutdownEnds but for the fairness that makes a
\* task go on that can.
THEOREM StepsTowardsEnd == Spec => [](Left \in Nat) /\ [][Left' < Left]_vars
<1>1. EndInv => Left \in Nat
  BY LeftNat DEF EndInv
<1>2. EndInv /\ [Next]_vars => [Left' < Left]_vars
  BY StepLeft DEF EndInv
<1> QED BY <1>1, <1>2, AlwaysHolds, PTL DEF Spec
=============================================================================
