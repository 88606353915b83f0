--------------------------- MODULE RedstoneProofs ---------------------------
(***************************************************************************)
(* Facts about the Redstone gateway and its device servers, proved for any *)
(* devices, houses, periods, mailbox capacity and faults.                  *)
(***************************************************************************)
EXTENDS Redstone, TLAPS

Phases ==
  {"query", "report", "connect", "stream", "tell", "hung", "retry", "exited", "panicked"}
Messages == {"set", "ping", "finish"}

\* The parts of the state that a step of a device server may touch have types.
DeviceTypes ==
  /\ phase \in [Device -> Phases]
  /\ box \in [Device -> Seq(Messages)]
  /\ \A d \in Device : Len(box[d]) <= Capacity
  /\ retryLeft \in [Device -> 0..RetryDelay]
  /\ age \in [Device -> Elapsed]
  /\ lost \in SUBSET Device
  /\ held \in [Device -> Elapsed]
  /\ pong \in [Device -> BOOLEAN]

GatewayTypes ==
  /\ server \in {"running", "finishing", "stopped", "failed"}
  /\ sending \in {"set", "ping"}
  /\ todo \in SUBSET Device
  /\ joining \in Device \cup {NoDevice}
  /\ pingLeft \in 0..PingPeriod
  /\ sets \in 0..MaxSets

LEMMA TypeParts ==
  TypeOK <=> /\ DeviceTypes /\ GatewayTypes
             /\ uptime \in Elapsed /\ alive \in [Device -> BOOLEAN]
             /\ linksFail \in LinksFail
             /\ things \in Houses /\ devices \in Devices(things)
BY Zenon DEF TypeOK, DeviceTypes, GatewayTypes, Phases, Messages

LEMMA TypePartsNext ==
  TypeOK' <=> /\ DeviceTypes' /\ GatewayTypes'
              /\ uptime' \in Elapsed /\ alive' \in [Device -> BOOLEAN]
              /\ linksFail' \in LinksFail
              /\ things' \in Houses /\ devices' \in Devices(things')
BY Zenon DEF TypeOK, DeviceTypes, GatewayTypes, Phases, Messages

\* What is left of a mailbox once its first message is taken.
LEMMA TakenBox ==
  ASSUME DeviceTypes, NEW d \in Device, NEW m, Next1(d, m)
  PROVE  /\ Tail(box[d]) \in Seq(Messages) /\ Len(Tail(box[d])) <= Capacity
         /\ m \in Messages
BY TimeAssumption DEF DeviceTypes, Next1

\* The mailbox of a device server is as it was, one message shorter or empty.
Rest(d, rest) ==
  \/ rest = box[d] \/ rest = <<>>
  \/ box[d] # <<>> /\ rest = Tail(box[d])

LEMMA RestTypes ==
  ASSUME DeviceTypes, NEW d \in Device, NEW rest, Rest(d, rest)
  PROVE  rest \in Seq(Messages) /\ Len(rest) <= Capacity
<1>1. box[d] \in Seq(Messages) /\ Len(box[d]) <= Capacity
  BY DEF DeviceTypes
<1>2. <<>> \in Seq(Messages) /\ Len(<<>>) <= Capacity
  BY TimeAssumption
<1>3. box[d] # <<>> => Tail(box[d]) \in Seq(Messages) /\ Len(Tail(box[d])) <= Capacity
  BY <1>1, TimeAssumption
<1> QED BY <1>1, <1>2, <1>3 DEF Rest

LEMMA EnterTypes ==
  ASSUME DeviceTypes, uptime \in Elapsed, NEW d \in Device, NEW p \in Phases,
         NEW rest, Rest(d, rest), Enter(d, p, rest)
  PROVE  DeviceTypes' /\ UNCHANGED <<gatewayVars, uptime, alive, fixedVars>>
<1>1. phase' = [phase EXCEPT ![d] = p] /\ phase' \in [Device -> Phases]
  BY DEF Enter, DeviceTypes
<1>2. PICK r \in Seq(Messages) : Len(r) <= Capacity /\ box' = [box EXCEPT ![d] = r]
  <2>1. rest \in Seq(Messages) /\ Len(rest) <= Capacity
    BY RestTypes
  <2>2. <<>> \in Seq(Messages) /\ Len(<<>>) <= Capacity
    BY TimeAssumption
  <2> QED BY <2>1, <2>2 DEF Enter
<1>3. /\ box' \in [Device -> Seq(Messages)]
      /\ \A e \in Device : Len(box'[e]) <= Capacity
  BY <1>2 DEF DeviceTypes
<1>4. retryLeft' \in [Device -> 0..RetryDelay] /\ age' \in [Device -> Elapsed]
        /\ pong' \in [Device -> BOOLEAN]
  BY TimeAssumption DEF Enter, DeviceTypes, Elapsed
<1>5. lost' \in SUBSET Device
  BY DEF Enter, DeviceTypes
<1>6. held' \in [Device -> Elapsed]
  <2>1. held[d] \in Elapsed /\ 0 \in Elapsed
    BY TimeAssumption DEF DeviceTypes, Elapsed
  <2>2. \/ held' = [held EXCEPT ![d] = held[d]]
        \/ held' = [held EXCEPT ![d] = 0]
    BY DEF Enter
  <2> QED BY <2>1, <2>2 DEF DeviceTypes
<1> QED BY <1>1, <1>3, <1>4, <1>5, <1>6 DEF Enter, DeviceTypes

\* What a step of a device server comes to: it goes to another place of its loop,
\* it begins to hang, or it stays connected, or where it is, and may take a message.
Enters(d) ==
  \E p \in Phases : \E rest :
    /\ Enter(d, p, rest) /\ Rest(d, rest) /\ ~Gone(d)
    /\ p = "exited" => linksFail \/ Next1(d, "finish") \/ Orphaned(d)
    /\ p = "panicked" => linksFail
Hangs(d) ==
  /\ ~Gone(d)
  /\ phase' = [phase EXCEPT ![d] = "hung"]
  /\ UNCHANGED <<gatewayVars, box>>
Stays(d) ==
  /\ UNCHANGED gatewayVars
  /\ UNCHANGED phase \/ \E p \in {"stream", "tell"} :
                        ~Gone(d) /\ phase' = [phase EXCEPT ![d] = p]
  /\ \/ UNCHANGED box
     \/ box[d] # <<>> /\ box' = [box EXCEPT ![d] = Tail(@)]

LEMMA DeviceSteps ==
  ASSUME TypeOK, NEW d \in Device, DeviceNext(d)
  PROVE  TypeOK' /\ UNCHANGED fixedVars /\ (Enters(d) \/ Hangs(d) \/ Stays(d))
<1>0. /\ DeviceTypes /\ uptime \in Elapsed /\ alive \in [Device -> BOOLEAN]
      /\ 0 \in Elapsed
  BY TypeParts, TimeAssumption DEF Elapsed
<1>1. ASSUME NEW p \in Phases, NEW rest, Enter(d, p, rest), Rest(d, rest),
             ~Gone(d), p = "exited" => linksFail \/ Next1(d, "finish") \/ Orphaned(d),
             p = "panicked" => linksFail
      PROVE  TypeOK' /\ UNCHANGED fixedVars /\ Enters(d)
  <2>1. DeviceTypes' /\ UNCHANGED <<gatewayVars, uptime, alive, fixedVars>>
    BY <1>0, <1>1, EnterTypes
  <2>2. Enters(d)
    BY <1>1, Zenon DEF Enters
  <2> QED BY <2>1, <2>2, TypeParts, TypePartsNext DEF gatewayVars, fixedVars, GatewayTypes
<1>2. ASSUME DeviceTypes', alive' \in [Device -> BOOLEAN],
             UNCHANGED <<gatewayVars, uptime, fixedVars>>
      PROVE  TypeOK' /\ UNCHANGED fixedVars
  BY <1>2, TypeParts, TypePartsNext DEF gatewayVars, fixedVars, GatewayTypes
<1>3. Rest(d, box[d]) /\ Rest(d, <<>>) /\ \A m : Next1(d, m) => Rest(d, Tail(box[d]))
  BY DEF Rest, Next1
<1>4. ASSUME NEW m, Next1(d, m), box' = [box EXCEPT ![d] = Tail(@)]
      PROVE  /\ box' \in [Device -> Seq(Messages)]
             /\ \A e \in Device : Len(box'[e]) <= Capacity
  <2>1. Tail(box[d]) \in Seq(Messages) /\ Len(Tail(box[d])) <= Capacity
    BY <1>0, <1>4, TakenBox
  <2> QED BY <1>0, <1>4, <2>1 DEF DeviceTypes
<1>5. CASE RequestOk(d)
  BY <1>1, <1>3, <1>5 DEF RequestOk, NothingToAsk, Gone, Phases
<1>6. CASE RequestFails(d)
  BY <1>1, <1>3, <1>6 DEF RequestFails, Requesting, Gone, Phases
<1>7. CASE RequestHangs(d)
  <2>1. /\ phase' = [phase EXCEPT ![d] = "hung"] /\ ~Gone(d)
        /\ alive' = [alive EXCEPT ![Asked(d)] = FALSE]
        /\ pong' = [pong EXCEPT ![Asked(d)] = FALSE]
        /\ lost' = lost \cup {Asked(d)} /\ Asked(d) \in Device
        /\ UNCHANGED <<gatewayVars, box, retryLeft, age, held, uptime, fixedVars>>
    BY <1>7 DEF RequestHangs, Requesting, Reached, Gone
  <2>2. DeviceTypes' /\ alive' \in [Device -> BOOLEAN]
    BY <1>0, <2>1 DEF DeviceTypes, Phases
  <2> QED BY <1>2, <2>1, <2>2 DEF Hangs
<1>8. CASE ValuePanics(d)
  BY <1>1, <1>3, <1>8 DEF ValuePanics, Gone, Phases
<1>9. CASE Hear(d)
  <2>1. DeviceTypes' /\ UNCHANGED <<gatewayVars, phase, box, uptime, alive, fixedVars>>
    BY <1>0, <1>9 DEF Hear, DeviceTypes
  <2> QED BY <1>0, <1>2, <2>1 DEF Stays
<1>10. CASE StreamError(d)
  BY <1>1, <1>3, <1>10 DEF StreamError, Connected, Gone, Phases
<1>11. CASE PeerCloses(d)
  BY <1>1, <1>3, <1>11 DEF PeerCloses, Close, Gone, Phases
<1>12. CASE StreamTakesSet(d)
  <2>1. /\ box[d] # <<>> /\ box' = [box EXCEPT ![d] = Tail(@)]
        /\ UNCHANGED <<gatewayVars, phase, retryLeft, age, lost, held, uptime, peerVars>>
    BY <1>12 DEF StreamTakesSet, Next1
  <2>2. DeviceTypes'
    BY <1>0, <1>4, <1>12, <2>1 DEF StreamTakesSet, DeviceTypes, peerVars
  <2> QED BY <1>0, <1>2, <2>1, <2>2 DEF Stays, peerVars
<1>13. CASE StreamPings(d)
  <2>1. /\ box[d] # <<>> /\ box' = [box EXCEPT ![d] = Tail(@)]
        /\ pong' = [pong EXCEPT ![d] = alive[d]]
        /\ UNCHANGED <<gatewayVars, phase, retryLeft, age, lost, held, uptime, alive,
                       fixedVars>>
    BY <1>13 DEF StreamPings, Next1
  <2>2. DeviceTypes'
    BY <1>0, <1>4, <1>13, <2>1 DEF StreamPings, DeviceTypes
  <2> QED BY <1>0, <1>2, <2>1, <2>2 DEF Stays
<1>14. CASE StreamTimesOut(d)
  BY <1>1, <1>3, <1>14 DEF StreamTimesOut, Gone, Phases
<1>15. CASE StreamFinishes(d)
  <2>1. ~Gone(d)
    BY <1>15 DEF StreamFinishes, Gone
  <2>2. PICK rest : Rest(d, rest) /\ Close(d, rest)
          /\ (Next1(d, "finish") \/ Orphaned(d))
    BY <1>3, <1>15 DEF StreamFinishes
  <2> QED BY <1>1, <2>1, <2>2 DEF Close, Phases
<1>16. CASE RetryDrops(d)
  BY <1>1, <1>3, <1>16 DEF RetryDrops, Gone, Phases
<1>17. CASE RetryFinishes(d)
  BY <1>1, <1>3, <1>17 DEF RetryFinishes, Gone, Phases
<1>18. CASE RetryExpires(d)
  BY <1>1, <1>3, <1>18 DEF RetryExpires, Gone, Phases
<1>19. CASE Vanish(d)
  <2>1. /\ DeviceTypes' /\ alive' \in [Device -> BOOLEAN]
        /\ UNCHANGED <<gatewayVars, phase, box, uptime, fixedVars>>
    BY <1>0, <1>19 DEF Vanish, DeviceTypes, deviceVars
  <2> QED BY <1>2, <2>1 DEF Stays
<1>20. CASE Return(d)
  <2>1. /\ DeviceTypes' /\ alive' \in [Device -> BOOLEAN]
        /\ UNCHANGED <<gatewayVars, phase, box, uptime, fixedVars>>
    BY <1>0, <1>20 DEF Return, DeviceTypes, deviceVars
  <2> QED BY <1>2, <2>1 DEF Stays
<1>21. CASE HearText(d)
  <2>1. /\ phase' = [phase EXCEPT ![d] = "tell"] /\ ~Gone(d)
        /\ age' = [age EXCEPT ![d] = 0] /\ held' = [held EXCEPT ![d] = 0]
        /\ UNCHANGED <<gatewayVars, box, retryLeft, lost, uptime, peerVars>>
    BY <1>21 DEF HearText, Gone
  <2>2. DeviceTypes'
    BY <1>0, <2>1 DEF DeviceTypes, Phases, peerVars
  <2> QED BY <1>0, <1>2, <2>1, <2>2 DEF Stays, peerVars
<1>22. CASE TextTold(d)
  <2>1. /\ phase' = [phase EXCEPT ![d] = "stream"] /\ ~Gone(d)
        /\ UNCHANGED <<gatewayVars, box, retryLeft, age, lost, held, uptime, peerVars>>
    BY <1>22 DEF TextTold, Gone
  <2>2. DeviceTypes'
    BY <1>0, <2>1 DEF DeviceTypes, Phases, peerVars
  <2> QED BY <1>0, <1>2, <2>1, <2>2 DEF Stays, peerVars
<1>23. CASE Reported(d)
  BY <1>1, <1>3, <1>23 DEF Reported, Gone, Phases
<1>24. CASE EventRefused(d)
  BY <1>1, <1>3, <1>24 DEF EventRefused, Telling, Gone, Phases
<1>25. CASE EventHangs(d)
  BY <1>1, <1>3, <1>25 DEF EventHangs, Telling, Gone, Phases
<1> QED BY <1>5, <1>6, <1>7, <1>8, <1>9, <1>10, <1>11, <1>12, <1>13, <1>14,
           <1>15, <1>16, <1>17, <1>18, <1>19, <1>20, <1>21, <1>22, <1>23, <1>24, <1>25
        DEF DeviceNext, ServerStep, EventEnds

LEMMA RouteInDevice ==
  ASSUME TypeOK, NEW path
  PROVE  Route(devices, path) \in SUBSET Device
<1>1. DOMAIN devices = {Url(t) : t \in things}
  BY DEF TypeOK, Devices
<1>2. {Url(t) : t \in things} = Device
  BY DeviceAssumption DEF TypeOK
<1> QED BY <1>1, <1>2 DEF Route

\* Sending puts one message at the end of one mailbox that had room.
LEMMA PutTypes ==
  ASSUME DeviceTypes, NEW d \in Device, NEW m \in Messages, Put(d, m)
  PROVE  /\ box' \in [Device -> Seq(Messages)]
         /\ \A e \in Device : Len(box'[e]) <= Capacity
         /\ ~Gone(d)
         /\ \A e \in Device : e # d => box'[e] = box[e]
         /\ Len(box'[d]) = Len(box[d]) + 1 /\ box'[d][Len(box[d]) + 1] = m
         /\ \A i \in 1..Len(box[d]) : box'[d][i] = box[d][i]
<1>1. /\ box[d] \in Seq(Messages) /\ Len(box[d]) < Capacity /\ ~Gone(d)
      /\ box' = [box EXCEPT ![d] = Append(box[d], m)]
  BY DEF Put, DeviceTypes
<1>2. Append(box[d], m) \in Seq(Messages) /\ Len(Append(box[d], m)) <= Capacity
  BY <1>1, TimeAssumption
<1> QED BY <1>1, <1>2 DEF DeviceTypes

LEMMA GatewayStepTypes ==
  ASSUME TypeOK, GatewayNext \/ Tick
  PROVE  TypeOK' /\ UNCHANGED fixedVars
<1>0. /\ DeviceTypes /\ GatewayTypes /\ uptime \in Elapsed
      /\ alive \in [Device -> BOOLEAN]
      /\ PingPeriod \in Nat \ {0} /\ SeenLimit \in Nat /\ RetryDelay \in Nat
  BY TypeParts, TimeAssumption
<1>1. ASSUME GatewayTypes', DeviceTypes', uptime' \in Elapsed, UNCHANGED peerVars
      PROVE  TypeOK' /\ UNCHANGED fixedVars
  BY <1>1, TypeParts, TypePartsNext DEF peerVars, fixedVars
<1>2. ASSUME GatewayTypes', UNCHANGED <<deviceVars, uptime, peerVars>>
      PROVE  TypeOK' /\ UNCHANGED fixedVars
  <2>1. DeviceTypes'
    BY <1>0, <1>2 DEF DeviceTypes, deviceVars, peerVars
  <2> QED BY <1>0, <1>1, <1>2, <2>1
<1>3. CASE GatewayPing \/ GatewayFinish \/ GatewayJoin \/ GatewayJoinFails \/ GatewayStop
  <2>1. GatewayTypes' /\ UNCHANGED <<deviceVars, uptime, peerVars>>
    BY <1>0, <1>3 DEF GatewayPing, GatewayFinish, GatewayJoin, GatewayJoinFails,
       GatewayStop, GatewayTypes
  <2> QED BY <1>2, <2>1
<1>4. ASSUME NEW path \in SinkPaths(things), GatewaySetProperty(path)
      PROVE  TypeOK' /\ UNCHANGED fixedVars
  <2>1. todo' \in SUBSET Device
    BY <1>4, RouteInDevice DEF GatewaySetProperty
  <2>2. GatewayTypes' /\ UNCHANGED <<deviceVars, uptime, peerVars>>
    BY <1>0, <1>4, <2>1, TimeAssumption DEF GatewaySetProperty, GatewayTypes
  <2> QED BY <1>2, <2>2
<1>5. ASSUME NEW d \in Device, GatewayFail(d) PROVE TypeOK' /\ UNCHANGED fixedVars
  <2>1. GatewayTypes' /\ UNCHANGED <<deviceVars, uptime, peerVars>>
    BY <1>0, <1>5 DEF GatewayFail, GatewayTypes
  <2> QED BY <1>2, <2>1
<1>6. ASSUME NEW d \in Device, GatewaySend(d) \/ GatewaySendFinish(d)
      PROVE  TypeOK' /\ UNCHANGED fixedVars
  <2>1. PICK m \in Messages : Put(d, m)
    BY <1>0, <1>6 DEF GatewaySend, GatewaySendFinish, GatewayTypes, Messages
  <2>2. /\ box' \in [Device -> Seq(Messages)]
        /\ \A e \in Device : Len(box'[e]) <= Capacity
    BY <1>0, <2>1, PutTypes
  <2>3. UNCHANGED <<phase, retryLeft, age, lost, held, uptime, peerVars>>
    BY <1>6 DEF GatewaySend, GatewaySendFinish
  <2>4. DeviceTypes'
    BY <1>0, <2>2, <2>3 DEF DeviceTypes, peerVars
  <2>5. GatewayTypes'
    BY <1>0, <1>6 DEF GatewaySend, GatewaySendFinish, GatewayTypes
  <2> QED BY <1>0, <1>1, <2>3, <2>4, <2>5
<1>7. CASE Tick
  <2>1. \A t \in Elapsed : Later(t) \in Elapsed
    BY <1>0 DEF Elapsed, Later
  <2>2. \A n \in Nat : \A t \in 0..n : Sooner(t) \in 0..n
    BY DEF Sooner
  <2>3. retryLeft' \in [Device -> 0..RetryDelay] /\ uptime' \in Elapsed
    BY <1>0, <1>7, <2>1, <2>2 DEF Tick, DeviceTypes
  <2>4. age' \in [Device -> Elapsed] /\ held' \in [Device -> Elapsed]
    <3>1. 0 \in Elapsed
      BY <1>0 DEF Elapsed
    <3> QED BY <1>0, <1>7, <2>1, <3>1 DEF Tick, DeviceTypes
  <2>5. GatewayTypes'
    <3>1. pingLeft' \in 0..PingPeriod
      BY <1>0, <1>7, <2>2 DEF Tick, GatewayTypes
    <3> QED BY <1>0, <1>7, <3>1 DEF Tick, GatewayTypes
  <2>6. DeviceTypes' /\ UNCHANGED peerVars
    BY <1>0, <1>7, <2>3, <2>4 DEF Tick, DeviceTypes, peerVars
  <2> QED BY <1>1, <2>3, <2>5, <2>6
<1> QED BY <1>3, <1>4, <1>5, <1>6, <1>7 DEF GatewayNext, GatewayRuns

LEMMA InitTypeOK == Init => TypeOK
<1> SUFFICES ASSUME Init PROVE TypeOK
  OBVIOUS
<1>1. /\ PingPeriod \in Nat /\ MaxSets \in Nat /\ RetryDelay \in Nat
      /\ Capacity \in Nat /\ 0 \in Elapsed
  BY TimeAssumption DEF Elapsed
<1>2. GatewayTypes
  BY <1>1 DEF Init, GatewayTypes
<1>3. DeviceTypes
  BY <1>1 DEF Init, DeviceTypes, Phases
<1> QED BY <1>1, <1>2, <1>3, TypeParts DEF Init

LEMMA StepTypeOK == TypeOK /\ [Next]_vars => TypeOK' /\ UNCHANGED fixedVars
<1> SUFFICES ASSUME TypeOK, [Next]_vars PROVE TypeOK' /\ UNCHANGED fixedVars
  OBVIOUS
<1>1. CASE UNCHANGED vars
  BY <1>1 DEF TypeOK, vars, gatewayVars, deviceVars, peerVars, fixedVars
<1> QED BY <1>1, GatewayStepTypes, DeviceSteps DEF Next

\* Every state has the declared types: no mailbox holds more than its capacity and
\* no clock leaves its range.
THEOREM TypeCorrect == Spec => []TypeOK
BY InitTypeOK, StepTypeOK, PTL DEF Spec

-----------------------------------------------------------------------------
NoFinish(d) == \A i \in 1..Len(box[d]) : box[d][i] # "finish"

\* While the gateway shuts down every device server is still to be told, is being
\* awaited or has exited; nobody was told before its turn.
TurnInv ==
  /\ server = "stopped" => \A d \in Device : phase[d] = "exited"
  /\ server = "finishing"
       => \A d \in Device : d \in todo \/ d = joining \/ phase[d] = "exited"
  /\ server \in {"stopped", "failed"} => todo = {}
  /\ joining # NoDevice => server = "finishing" /\ joining \notin todo
  /\ \A d \in Device : d \in todo \/ server = "running" => NoFinish(d)

\* Without failing connections nobody panics, and only those exit that were told to.
CalmInv ==
  linksFail \/
    /\ server # "failed"
    /\ \A d \in Device :
         /\ phase[d] # "panicked"
         /\ phase[d] = "exited" => server # "running" /\ d \notin todo

LEMMA InitTurnInv == Init => TurnInv /\ CalmInv
BY DEF Init, TurnInv, CalmInv, NoFinish

\* What is left of a mailbox has no message that was not in it.
LEMMA RestNoFinish ==
  ASSUME DeviceTypes, NEW d \in Device, NEW rest, Rest(d, rest), NoFinish(d)
  PROVE  \A i \in 1..Len(rest) : rest[i] # "finish"
<1>1. box[d] \in Seq(Messages)
  BY DEF DeviceTypes
<1>2. CASE box[d] # <<>> /\ rest = Tail(box[d])
  BY <1>1, <1>2 DEF NoFinish
<1>3. CASE rest = <<>>
  BY <1>3
<1> QED BY <1>2, <1>3 DEF Rest, NoFinish

LEMMA DeviceTurnInv ==
  ASSUME TypeOK, TurnInv, CalmInv, NEW d \in Device,
         Enters(d) \/ Hangs(d) \/ Stays(d), UNCHANGED fixedVars
  PROVE  TurnInv' /\ CalmInv'
<1>0. /\ DeviceTypes /\ phase \in [Device -> Phases] /\ box \in [Device -> Seq(Messages)]
      /\ server \in {"running", "finishing", "stopped", "failed"}
  BY TypeParts DEF DeviceTypes, GatewayTypes
<1>1. UNCHANGED <<server, todo, joining, linksFail>>
  BY DEF Enters, Hangs, Stays, Enter, gatewayVars, fixedVars
<1>2. \A e \in Device : e # d => phase'[e] = phase[e]
  BY <1>0 DEF Enters, Hangs, Stays, Enter
<1>3. phase[d] = "exited" => phase'[d] = "exited"
  BY <1>0 DEF Enters, Hangs, Stays, Gone
<1>4. phase'[d] = "panicked" => phase[d] = "panicked" \/ linksFail
  BY <1>0 DEF Enters, Hangs, Stays, Enter
<1>5. phase'[d] = "exited"
        => phase[d] = "exited" \/ linksFail \/ Next1(d, "finish") \/ Orphaned(d)
  BY <1>0 DEF Enters, Hangs, Stays, Enter
<1>6. ASSUME NEW e \in Device, NoFinish(e) PROVE NoFinish(e)'
  <2>1. CASE e = d
    <3>1. PICK rest : box'[d] = rest /\ (rest = <<>> \/ Rest(d, rest))
      BY <1>0 DEF Enters, Hangs, Stays, Enter, Rest
    <3> QED BY <1>0, <1>6, <2>1, <3>1, RestNoFinish DEF NoFinish
  <2>2. CASE e # d
    <3>1. box'[e] = box[e]
      BY <1>0, <2>2 DEF Enters, Hangs, Stays, Enter
    <3> QED BY <1>6, <3>1 DEF NoFinish
  <2> QED BY <2>1, <2>2
<1>7. TurnInv'
  BY <1>1, <1>2, <1>3, <1>6 DEF TurnInv
<1>8. CalmInv'
  <2> SUFFICES ASSUME ~linksFail
               PROVE  /\ server # "failed"
                      /\ \A e \in Device :
                           /\ phase'[e] # "panicked"
                           /\ phase'[e] = "exited" => server # "running" /\ e \notin todo
    BY <1>1 DEF CalmInv
  <2>1. Next1(d, "finish") => d \notin todo /\ server # "running"
    <3> SUFFICES ASSUME Next1(d, "finish") PROVE ~NoFinish(d)
      BY DEF TurnInv
    <3>1. 1 \in 1..Len(box[d]) /\ box[d][1] = "finish"
      BY <1>0 DEF Next1
    <3> QED BY <3>1 DEF NoFinish
  <2>2. Orphaned(d) => d \notin todo /\ server # "running"
    BY DEF Orphaned, TurnInv
  <2> QED BY <1>2, <1>4, <1>5, <2>1, <2>2 DEF CalmInv
<1> QED BY <1>7, <1>8

LEMMA GatewayTurnInv ==
  ASSUME TypeOK, TurnInv, CalmInv, GatewayNext \/ Tick, UNCHANGED fixedVars
  PROVE  TurnInv' /\ CalmInv'
<1>0. /\ DeviceTypes /\ GatewayTypes
      /\ UNCHANGED linksFail /\ NoDevice \notin Device
  BY TypeParts, DeviceAssumption DEF fixedVars
<1>1. CASE GatewayPing
  BY <1>0, <1>1 DEF GatewayPing, Waiting, TurnInv, CalmInv, NoFinish, deviceVars
<1>2. CASE GatewayFinish
  BY <1>0, <1>2 DEF GatewayFinish, Waiting, TurnInv, CalmInv, NoFinish, deviceVars
<1>3. CASE GatewayJoin
  BY <1>0, <1>3 DEF GatewayJoin, TurnInv, CalmInv, NoFinish, deviceVars
<1>4. CASE GatewayJoinFails
  <2>1. joining \in Device
    BY <1>0, <1>4 DEF GatewayJoinFails, GatewayTypes
  <2>2. linksFail
    BY <1>4, <2>1 DEF GatewayJoinFails, CalmInv
  <2> QED BY <1>0, <1>4, <2>2 DEF GatewayJoinFails, TurnInv, CalmInv, NoFinish, deviceVars
<1>5. CASE GatewayStop
  BY <1>0, <1>5 DEF GatewayStop, TurnInv, CalmInv, NoFinish, deviceVars
<1>6. ASSUME NEW path, GatewaySetProperty(path) PROVE TurnInv' /\ CalmInv'
  BY <1>0, <1>6, RouteInDevice
     DEF GatewaySetProperty, Waiting, TurnInv, CalmInv, NoFinish, deviceVars
<1>7. ASSUME NEW d \in Device, GatewaySend(d) PROVE TurnInv' /\ CalmInv'
  <2>1. sending \in Messages /\ sending # "finish"
    BY <1>0 DEF GatewayTypes, Messages
  <2>2. /\ server = "running" /\ todo' = todo \ {d} /\ d \in todo
        /\ UNCHANGED <<server, joining, phase>> /\ Put(d, sending)
    BY <1>7 DEF GatewaySend
  <2>3. ASSUME NEW e \in Device, NoFinish(e) PROVE NoFinish(e)'
    <3>1. CASE e = d
      <4>1. Len(box[d]) \in Nat
        BY <1>0 DEF DeviceTypes
      <4> QED BY <1>0, <2>1, <2>2, <2>3, <3>1, <4>1, PutTypes DEF NoFinish
    <3>2. CASE e # d
      <4>1. box'[e] = box[e]
        BY <1>0, <2>1, <2>2, <3>2, PutTypes
      <4> QED BY <2>3, <4>1 DEF NoFinish
    <3> QED BY <3>1, <3>2
  <2> QED BY <1>0, <2>2, <2>3 DEF TurnInv, CalmInv
<1>8. ASSUME NEW d \in Device, GatewaySendFinish(d) PROVE TurnInv' /\ CalmInv'
  <2>1. /\ server = "finishing" /\ todo' = todo \ {d} /\ d \in todo
        /\ joining = NoDevice /\ joining' = d
        /\ UNCHANGED <<server, phase>> /\ Put(d, "finish")
    BY <1>8 DEF GatewaySendFinish
  <2>2. ASSUME NEW e \in Device, e # d, NoFinish(e) PROVE NoFinish(e)'
    <3>1. box'[e] = box[e]
      BY <1>0, <2>1, <2>2, PutTypes DEF Messages
    <3> QED BY <2>2, <3>1 DEF NoFinish
  <2> QED BY <1>0, <2>1, <2>2 DEF TurnInv, CalmInv
<1>9. ASSUME NEW d \in Device, GatewayFail(d) PROVE TurnInv' /\ CalmInv'
  <2>1. linksFail
    BY <1>9 DEF GatewayFail, Gone, CalmInv
  <2> QED BY <1>0, <1>9, <2>1 DEF GatewayFail, TurnInv, CalmInv, NoFinish, deviceVars
<1>10. CASE Tick
  BY <1>0, <1>10 DEF Tick, TurnInv, CalmInv, NoFinish
<1> QED BY <1>1, <1>2, <1>3, <1>4, <1>5, <1>6, <1>7, <1>8, <1>9, <1>10
        DEF GatewayNext, GatewayRuns

SafeInv == TypeOK /\ TurnInv /\ CalmInv

LEMMA StepSafeInv == SafeInv /\ [Next]_vars => SafeInv'
<1> SUFFICES ASSUME SafeInv, [Next]_vars PROVE SafeInv'
  OBVIOUS
<1>0. TypeOK' /\ UNCHANGED fixedVars
  BY StepTypeOK DEF SafeInv
<1>1. CASE UNCHANGED vars
  BY <1>0, <1>1 DEF SafeInv, TurnInv, CalmInv, NoFinish, vars, gatewayVars, deviceVars,
     fixedVars
<1>2. CASE GatewayNext \/ Tick
  BY <1>0, <1>2, GatewayTurnInv DEF SafeInv
<1>3. ASSUME NEW d \in Device, DeviceNext(d) PROVE SafeInv'
  BY <1>0, <1>3, DeviceSteps, DeviceTurnInv DEF SafeInv
<1> QED BY <1>1, <1>2, <1>3 DEF Next

LEMMA SafeInvAlways == Spec => []SafeInv
<1>1. Init => SafeInv
  BY InitTypeOK, InitTurnInv DEF SafeInv
<1> QED BY <1>1, StepSafeInv, PTL DEF Spec

\* However many devices there are, a gateway that stopped has seen the server of
\* each of them exit, and told none to finish before it was its turn.
THEOREM StopsInTurn == Spec => []ShutdownInTurn
<1>1. SafeInv => ShutdownInTurn
  BY DEF SafeInv, TurnInv, NoFinish, ShutdownInTurn
<1> QED BY <1>1, SafeInvAlways, PTL

\* Neither shutdown nor the loop of a device server makes the gateway fail: that
\* takes a connection or a request that fails.
THEOREM FailsOnlyWithLinks == Spec => []GatewaySurvives
<1>1. SafeInv => GatewaySurvives
  BY DEF SafeInv, CalmInv, GatewaySurvives
<1> QED BY <1>1, SafeInvAlways, PTL

-----------------------------------------------------------------------------
LEMMA PathParts ==
  ASSUME NEW t, t.base \in Seq(STRING), NEW node
  PROVE  Front(Path(t, node)) = t.base /\ Last(Path(t, node)) = node.name
<1>1. ASSUME NEW s \in Seq(STRING), NEW x
      PROVE  Front(Append(s, x)) = s /\ Last(Append(s, x)) = x
  <2>1. s \in Seq(STRING \cup {x}) /\ x \in STRING \cup {x}
    OBVIOUS
  <2>2. ASSUME NEW S, NEW r \in Seq(S), NEW y \in S
        PROVE  Front(Append(r, y)) = r /\ Last(Append(r, y)) = y
    BY DEF Front, Last
  <2> QED BY <2>1, <2>2
<1> QED BY <1>1 DEF Path

\* What the gateway made of the tree, in a form to reason with.
LEMMA DeviceFacts ==
  ASSUME NEW house \in Houses, NEW devs \in Devices(house)
  PROVE  /\ DOMAIN devs = Device
         /\ \A u \in Device :
              /\ \E t \in house : Url(t) = u /\ devs[u].path = t.base
              /\ devs[u].sources = PropertiesOf(house, u, "source")
<1>1. {Url(t) : t \in house} = Device
  BY DeviceAssumption
<1>2. /\ DOMAIN devs = Device
      /\ \A u \in Device :
           /\ \E t \in FirstThings(house, u) : devs[u].path = t.base
           /\ devs[u].sources = PropertiesOf(house, u, "source")
  BY <1>1 DEF Devices
<1>3. \A u : \A t \in FirstThings(house, u) : t \in house /\ Url(t) = u
  BY DEF FirstThings
<1> QED BY <1>2, <1>3

\* A thing at the default port is asked where it is.
AtPort80 == \A house \in Houses : \A t \in house : Url(t)[2] = 80

LEMMA AddressedByTypes ==
  ASSUME TypeOK, AtPort80
  PROVE  Addressed
<1>0. things \in Houses /\ devices \in Devices(things)
  BY DEF TypeOK
<1> SUFFICES ASSUME NEW t \in things, NEW node \in t.nodes
             PROVE  LET url == Url(t)  path == Path(t, node)
                    IN  \/ /\ node.kind = "sink"
                           /\ Route(devices, path) \subseteq {url}
                           /\ WellNamed => Route(devices, path) = {url}
                                            /\ Told(path) = Property(node)
                        \/ /\ node.kind = "source"
                           /\ Property(node) \in devices[url].sources /\ QueriedAt(url) = url
                           /\ WellNamed => EventPath(devices, url, Property(node)) = path
  BY DEF Addressed
<1> DEFINE url == Url(t)
           path == Path(t, node)
<1>1. /\ t.base \in Seq(STRING) /\ node.kind \in {"source", "sink"}
      /\ \A t2 \in things : t.base = t2.base => t = t2
  BY <1>0, HouseAssumption
<1>2. Front(path) = t.base /\ Last(path) = node.name
  BY <1>1, PathParts
<1>3. url \in Device
  BY <1>0, DeviceAssumption
<1>4. DOMAIN devices = Device /\ devices[url].sources = PropertiesOf(things, url, "source")
  BY <1>0, <1>3, DeviceFacts
<1>5. \A u \in Device : \E t2 \in things : Url(t2) = u /\ devices[u].path = t2.base
  BY <1>0, DeviceFacts
<1>6. WellNamed => devices[url].path = t.base /\ Property(node) = node.name
  <2>1. WellNamed => devices[url].path = t.base
    BY <1>3, <1>5 DEF WellNamed
  <2>2. WellNamed => node.property = {}
    BY DEF WellNamed
  <2> QED BY <2>1, <2>2 DEF Property, ChildOr
<1>7. CASE node.kind = "sink"
  <2>1. Route(devices, path) = {u \in Device : devices[u].path = t.base}
    BY <1>2, <1>4 DEF Route
  <2>2. Route(devices, path) \subseteq {url}
    BY <1>1, <1>5, <2>1
  <2>3. WellNamed => Route(devices, path) = {url} /\ Told(path) = Property(node)
    BY <1>2, <1>3, <1>6, <2>1, <2>2 DEF Told
  <2> QED BY <1>7, <2>2, <2>3
<1>8. CASE node.kind = "source"
  <2>1. Property(node) \in PropertiesOf(things, url, "source")
    <3>1. node \in Of(t, "source") /\ t \in {t2 \in things : Url(t2) = url}
      BY <1>8 DEF Of
    <3>2. Property(node) \in {Property(n) : n \in Of(t, "source")}
      BY <3>1
    <3> QED BY <3>1, <3>2, Zenon DEF PropertiesOf
  <2>2. QueriedAt(url) = url
    <3>1. url[2] = 80
      BY <1>0 DEF AtPort80
    <3> QED BY <3>1 DEF QueriedAt, Url
  <2>3. WellNamed => EventPath(devices, url, Property(node)) = path
    BY <1>6 DEF EventPath, Path
  <2> QED BY <1>4, <1>8, <2>1, <2>2, <2>3
<1> QED BY <1>1, <1>7, <1>8

\* In any tree whose things are at the default port, a property that is set reaches
\* the device of its thing or none, and what that device tells, and is asked for, is
\* an event of the right node; with well chosen names it always gets there.
THEOREM AlwaysAddressed == AtPort80 /\ Spec => []Addressed
<1>1. ASSUME AtPort80 PROVE TypeOK => Addressed
  BY <1>1, AddressedByTypes
<1>2. AtPort80 => (Spec => []Addressed)
  <2> SUFFICES ASSUME AtPort80 PROVE Spec => []Addressed
    OBVIOUS
  <2>1. TypeOK => Addressed
    BY <1>1
  <2> QED BY <2>1, TypeCorrect, PTL
<1> QED BY <1>2

-----------------------------------------------------------------------------
\* Silence of a device that answers: what the gateway did since the last ping, at
\* most a period for each property that was set and one for the ping, and the time in
\* which the device server or the gateway was kept.
Most(d) == (1 + sets) * PingPeriod + held[d]

LEMMA MostFacts ==
  ASSUME TypeOK, NEW d \in Device
  PROVE  /\ Most(d) \in Nat /\ held[d] \in Nat /\ age[d] \in Nat
         /\ pingLeft \in Nat /\ uptime \in Nat /\ PingPeriod \in Nat /\ SeenLimit \in Nat
         /\ pingLeft <= PingPeriod /\ PingPeriod + held[d] <= Most(d)
<1>1. /\ sets \in Nat /\ PingPeriod \in Nat /\ SeenLimit \in Nat /\ pingLeft \in Nat
      /\ held[d] \in Nat /\ age[d] \in Nat /\ uptime \in Nat /\ pingLeft <= PingPeriod
  BY TimeAssumption, TypeParts DEF GatewayTypes, DeviceTypes, Elapsed
<1>2. PICK product \in Nat : product = sets * PingPeriod
  BY <1>1
<1>3. (1 + sets) * PingPeriod = PingPeriod + product
  BY <1>1, <1>2
<1> QED BY <1>1, <1>2, <1>3 DEF Most

HasPing(d) == \E i \in 1..Len(box[d]) : box[d][i] = "ping"
Answering(d) == HasPing(d) \/ pong[d]

\* However long ago a connected device was last seen, the next ping, or its answer
\* to the last one, comes before it has been too long.
OnTime(d) ==
  /\ HasPing(d) => age[d] <= Most(d)
  /\ Waiting => \/ age[d] + pingLeft <= Most(d)
                \/ Answering(d) /\ age[d] <= Most(d)
  /\ server = "running" /\ todo # {}
       => \/ age[d] + PingPeriod <= Most(d)
          \/ sending = "ping" /\ age[d] <= Most(d) /\ (d \in todo \/ Answering(d))

\* A device that has not been lost is there, and its server is in its first connection
\* or on the way there, which is counted from its start.
Holding(d) ==
  /\ alive[d] /\ phase[d] # "retry"
  /\ phase[d] \in {"query", "report", "connect"} => uptime <= held[d]
  /\ Connected(d) => OnTime(d)

PingInv == \A d \in Device : d \in lost \/ Holding(d)

LEMMA InitPingInv == Init => PingInv
BY TimeAssumption DEF Init, PingInv, Holding, Connected

\* Time that is counted on both sides.
LEMMA LaterTogether ==
  ASSUME SeenLimit \in Nat, NEW a \in Elapsed, NEW h \in Elapsed, NEW m \in Nat,
         NEW x \in Nat, x <= m, a + x <= m + h
  PROVE  Later(a) + x <= m + Later(h)
BY DEF Elapsed, Later

\* A ping that is late is late because its server was starved.
LEMMA TimesOutStarved ==
  ASSUME TypeOK, NEW d \in Device, Holding(d), StreamTimesOut(d)
  PROVE  Starved(d)
<1>1. HasPing(d)
  BY TypeParts DEF StreamTimesOut, Next1, HasPing, DeviceTypes
<1>2. age[d] <= Most(d) /\ age[d] > SeenLimit
  BY <1>1 DEF Holding, Connected, OnTime, StreamTimesOut
<1>3. Most(d) > SeenLimit
  BY <1>2, MostFacts
<1> QED BY <1>3 DEF Starved, Most

\* A step of a device server or of a device leaves all others alone, but for the one
\* that it asked in vain.
LEMMA MovedAlone ==
  ASSUME TypeOK, NEW d \in Device, DeviceNext(d)
  PROVE  /\ UNCHANGED <<gatewayVars, uptime>> /\ lost \subseteq lost'
         /\ \A e \in Device \ {d} :
              /\ UNCHANGED <<phase[e], box[e], age[e], held[e]>>
              /\ UNCHANGED <<alive[e], pong[e]>> \/ e \in lost'
<1>0. /\ phase \in [Device -> Phases] /\ box \in [Device -> Seq(Messages)]
      /\ age \in [Device -> Elapsed] /\ held \in [Device -> Elapsed]
      /\ pong \in [Device -> BOOLEAN] /\ alive \in [Device -> BOOLEAN]
  BY TypeParts DEF DeviceTypes
<1> DEFINE Alone == /\ UNCHANGED <<gatewayVars, uptime>> /\ lost \subseteq lost'
                    /\ \A e \in Device \ {d} :
                         /\ UNCHANGED <<phase[e], box[e], age[e], held[e]>>
                         /\ UNCHANGED <<alive[e], pong[e]>> \/ e \in lost'
<1>1. ASSUME NEW p, NEW rest, Enter(d, p, rest) PROVE Alone
  BY <1>0, <1>1 DEF Enter
<1>2. RequestOk(d) \/ RequestFails(d) \/ Reported(d) \/ EventRefused(d) \/ EventHangs(d)
        => Alone
  BY <1>1 DEF RequestOk, RequestFails, Reported, EventRefused, EventHangs
<1>3. RequestHangs(d) => Alone
  BY <1>0 DEF RequestHangs
<1>4. ValuePanics(d) \/ StreamError(d) \/ PeerCloses(d) => Alone
  BY <1>1 DEF ValuePanics, StreamError, PeerCloses, Close
<1>5. Hear(d) \/ HearText(d) \/ TextTold(d) => Alone
  BY <1>0 DEF Hear, HearText, TextTold, peerVars
<1>6. StreamTakesSet(d) \/ StreamPings(d) => Alone
  BY <1>0 DEF StreamTakesSet, StreamPings, peerVars
<1>7. StreamTimesOut(d) \/ StreamFinishes(d) => Alone
  BY <1>1 DEF StreamTimesOut, StreamFinishes, Close
<1>8. RetryDrops(d) \/ RetryFinishes(d) \/ RetryExpires(d) => Alone
  BY <1>1 DEF RetryDrops, RetryFinishes, RetryExpires
<1>9. Vanish(d) \/ Return(d) => Alone
  BY <1>0 DEF Vanish, Return, deviceVars
<1> QED BY <1>2, <1>3, <1>4, <1>5, <1>6, <1>7, <1>8, <1>9
        DEF DeviceNext, ServerStep, EventEnds

\* What Holding(d) says depends on these.
LEMMA SameHolding ==
  ASSUME NEW d \in Device, Holding(d),
         UNCHANGED <<gatewayVars, uptime, phase[d], box[d], age[d], held[d], alive[d],
                     pong[d]>>
  PROVE  Holding(d)'
<1>1. /\ Connected(d)' <=> Connected(d)
      /\ Most(d)' = Most(d) /\ (HasPing(d)' <=> HasPing(d))
      /\ Waiting' <=> Waiting
  BY DEF Connected, Most, HasPing, Waiting, gatewayVars
<1>2. OnTime(d) => OnTime(d)'
  BY <1>1 DEF OnTime, Answering, gatewayVars
<1> QED BY <1>1, <1>2 DEF Holding

\* The server of a device that is not lost by what it does.
LEMMA OwnHolding ==
  ASSUME TypeOK, NEW d \in Device, DeviceNext(d), Holding(d), d \notin lost'
  PROVE  Holding(d)'
<1>0. /\ phase \in [Device -> Phases] /\ box \in [Device -> Seq(Messages)]
      /\ age \in [Device -> Elapsed] /\ held \in [Device -> Elapsed]
      /\ pong \in [Device -> BOOLEAN] /\ alive \in [Device -> BOOLEAN]
      /\ alive[d] /\ phase[d] # "retry" /\ UNCHANGED gatewayVars
  BY TypeParts, MovedAlone DEF DeviceTypes, Holding
<1>1. PICK product \in Nat, a \in Nat, l \in Nat, h \in Nat, u \in Nat, period \in Nat :
        /\ product = (1 + sets) * PingPeriod /\ a = age[d] /\ l = pingLeft /\ h = held[d]
        /\ u = uptime /\ period = PingPeriod /\ l <= period /\ period <= product
  <2>1. /\ Most(d) \in Nat /\ age[d] \in Nat /\ pingLeft \in Nat /\ held[d] \in Nat
        /\ uptime \in Nat /\ PingPeriod \in Nat /\ pingLeft <= PingPeriod
        /\ PingPeriod + held[d] <= Most(d)
    BY MostFacts
  <2>2. (1 + sets) * PingPeriod \in Nat
    BY TypeParts, TimeAssumption DEF GatewayTypes
  <2>3. PingPeriod <= (1 + sets) * PingPeriod
    BY <2>1, <2>2 DEF Most
  <2> QED BY <2>1, <2>2, <2>3
<1>2. ASSUME NEW p \in Phases \ {"retry", "stream", "tell"}, NEW rest, Enter(d, p, rest),
             p \in {"query", "report", "connect"} => phase[d] \in {"query", "report", "connect"}
      PROVE  Holding(d)'
  <2>1. phase'[d] = p /\ uptime' = uptime /\ alive'[d]
    BY <1>0, <1>2 DEF Enter
  <2>2. p \in {"query", "report", "connect"} => held'[d] = held[d]
    BY <1>0, <1>2, <2>1 DEF Enter, Underway
  <2> QED BY <1>2, <2>1, <2>2 DEF Holding, Connected
<1>3. ASSUME NEW rest, Enter(d, "stream", rest), phase[d] = "connect"
      PROVE  Holding(d)'
  <2>1. phase'[d] = "stream" /\ age'[d] = u /\ alive'[d] /\ held'[d] = h /\ u <= h
    BY <1>0, <1>1, <1>3 DEF Enter, Underway, Connected, Holding
  <2>2. UNCHANGED <<server, sending, todo, pingLeft, sets>>
    BY <1>0 DEF gatewayVars
  <2>3. Most(d)' = product + h
    BY <1>1, <2>1, <2>2 DEF Most
  <2>4. u <= product + h /\ u + l <= product + h /\ u + period <= product + h
    BY <1>1, <2>1
  <2>5. OnTime(d)'
    BY <1>1, <2>1, <2>2, <2>3, <2>4 DEF OnTime
  <2> QED BY <2>1, <2>5 DEF Holding
<1>4. ASSUME age'[d] = 0, held'[d] = 0, alive'[d], phase'[d] \in {"stream", "tell"}
      PROVE  Holding(d)'
  <2>1. UNCHANGED <<server, sending, todo, pingLeft, sets>>
    BY <1>0 DEF gatewayVars
  <2>2. Most(d)' = product + 0
    BY <1>1, <1>4, <2>1 DEF Most
  <2>3. OnTime(d)'
    BY <1>1, <1>4, <2>1, <2>2 DEF OnTime
  <2> QED BY <1>4, <2>3 DEF Holding
<1>5. ASSUME UNCHANGED <<age[d], held[d], alive[d]>>, Connected(d), Connected(d)',
             HasPing(d)' => HasPing(d), Answering(d) => Answering(d)'
      PROVE  Holding(d)'
  <2>1. UNCHANGED <<server, sending, todo, pingLeft, sets>>
    BY <1>0 DEF gatewayVars
  <2>2. Most(d)' = Most(d)
    BY <1>5, <2>1 DEF Most
  <2>3. OnTime(d)'
    BY <1>5, <2>1, <2>2 DEF OnTime, Holding, Waiting
  <2>4. phase'[d] \notin {"retry", "query", "report", "connect"}
    BY <1>5 DEF Connected
  <2> QED BY <1>0, <1>5, <2>3, <2>4 DEF Holding
<1>6. ASSUME NEW rest PROVE ~Enter(d, "retry", rest)
  BY DEF Enter
<1>7. RequestOk(d) => Holding(d)'
  BY <1>2, <1>3 DEF RequestOk, NothingToAsk, Phases
<1>8. ~RequestFails(d) /\ ~EventRefused(d) /\ ~StreamError(d) /\ ~StreamTimesOut(d)
  BY <1>6 DEF RequestFails, EventRefused, StreamError, StreamTimesOut
<1>9. RequestHangs(d) => Holding(d)'
  <2> SUFFICES ASSUME RequestHangs(d) PROVE Holding(d)'
    OBVIOUS
  <2>1. phase'[d] = "hung" /\ (alive'[d] = alive[d] \/ d \in lost')
    BY <1>0 DEF RequestHangs
  <2> QED BY <1>0, <2>1 DEF Holding, Connected
<1>10. Reported(d) => Holding(d)'
  BY <1>2 DEF Reported, Phases
<1>11. EventHangs(d) => Holding(d)'
  BY <1>2 DEF EventHangs, Phases
<1>12. ValuePanics(d) => Holding(d)'
  BY <1>2 DEF ValuePanics, Phases
<1>13. PeerCloses(d) \/ StreamFinishes(d) => Holding(d)'
  BY <1>2, <1>6 DEF PeerCloses, StreamFinishes, Close, Phases
<1>14. Hear(d) => Holding(d)'
  BY <1>0, <1>4 DEF Hear
<1>15. HearText(d) => Holding(d)'
  BY <1>0, <1>4 DEF HearText, peerVars
<1>16. TextTold(d) => Holding(d)'
  <2> SUFFICES ASSUME TextTold(d) PROVE Holding(d)'
    OBVIOUS
  <2>1. /\ Connected(d) /\ Connected(d)' /\ UNCHANGED <<box, age, held, alive, pong>>
    BY <1>0 DEF TextTold, Connected, peerVars
  <2> QED BY <1>5, <2>1 DEF HasPing, Answering
<1>17. StreamTakesSet(d) => Holding(d)'
  <2> SUFFICES ASSUME StreamTakesSet(d) PROVE Holding(d)'
    OBVIOUS
  <2>1. /\ phase[d] = "stream" /\ box[d] # <<>> /\ Head(box[d]) = "set"
        /\ box'[d] = Tail(box[d]) /\ UNCHANGED <<phase, age, held, alive, pong>>
    BY <1>0 DEF StreamTakesSet, Next1, peerVars
  <2>2. PICK seq \in Seq(Messages) : seq = box[d]
    BY <1>0
  <2>3. seq # <<>> /\ Head(seq) = "set"
    BY <2>1, <2>2
  <2>4. \A i \in 1..Len(Tail(seq)) : i + 1 \in 1..Len(seq) /\ Tail(seq)[i] = seq[i + 1]
    BY <2>3
  <2>5. \A i \in 1..Len(seq) : seq[i] = "ping"
          => i - 1 \in 1..Len(Tail(seq)) /\ Tail(seq)[i - 1] = "ping"
    BY <2>3
  <2>6. box'[d] = Tail(seq)
    BY <2>1, <2>2
  <2>7. HasPing(d)' => HasPing(d)
    BY <2>2, <2>4, <2>6 DEF HasPing
  <2>8. HasPing(d) => HasPing(d)'
    BY <2>2, <2>5, <2>6 DEF HasPing
  <2> QED BY <1>5, <2>1, <2>7, <2>8 DEF Answering, Connected
<1>18. StreamPings(d) => Holding(d)'
  <2> SUFFICES ASSUME StreamPings(d) PROVE Holding(d)'
    OBVIOUS
  <2>1. /\ phase[d] = "stream" /\ box[d] # <<>>
        /\ box'[d] = Tail(box[d]) /\ UNCHANGED <<phase, age, held, alive>>
        /\ pong'[d] = TRUE
    BY <1>0 DEF StreamPings, Next1
  <2>2. PICK seq \in Seq(Messages) : seq = box[d]
    BY <1>0
  <2>3. \A i \in 1..Len(Tail(seq)) : i + 1 \in 1..Len(seq) /\ Tail(seq)[i] = seq[i + 1]
    BY <2>1, <2>2
  <2>4. HasPing(d)' => HasPing(d)
    BY <2>1, <2>2, <2>3 DEF HasPing
  <2> QED BY <1>5, <2>1, <2>4 DEF Answering, Connected
<1>19. ~RetryDrops(d) /\ ~RetryFinishes(d) /\ ~RetryExpires(d)
  BY <1>0 DEF RetryDrops, RetryFinishes, RetryExpires
<1>20. ~Vanish(d) /\ ~Return(d)
  BY <1>0 DEF Vanish, Return
<1> QED BY <1>7, <1>8, <1>9, <1>10, <1>11, <1>12, <1>13, <1>14, <1>15, <1>16, <1>17,
           <1>18, <1>19, <1>20 DEF DeviceNext, ServerStep, EventEnds

\* Time passes only while a connected server has no ping to take and none to be
\* answered, but where it is counted.
LEMMA TickHolding ==
  ASSUME TypeOK, Tick, NEW d \in Device, d \notin lost, Holding(d)
  PROVE  Holding(d)'
<1>0. /\ phase \in [Device -> Phases] /\ box \in [Device -> Seq(Messages)]
      /\ age \in [Device -> Elapsed] /\ held \in [Device -> Elapsed] /\ uptime \in Elapsed
      /\ pong \in [Device -> BOOLEAN]
      /\ PingPeriod \in Nat /\ SeenLimit \in Nat
      /\ server \in {"running", "finishing", "stopped", "failed"}
  BY TypeParts, TimeAssumption DEF DeviceTypes, GatewayTypes
<1>1. /\ ~Due
      /\ UNCHANGED <<server, sending, todo, sets, phase, box, alive, pong>>
      /\ pingLeft' = IF Waiting THEN Sooner(pingLeft) ELSE pingLeft
      /\ uptime' = Later(uptime)
      /\ Connected(d) => age'[d] = Later(age[d])
      /\ held'[d] = IF Underway(d) /\ (phase[d] # "stream" \/ todo # {})
                    THEN Later(held[d]) ELSE held[d]
  BY <1>0 DEF Tick, peerVars
<1>2. phase[d] \in {"query", "report", "connect"} => (uptime <= held[d])'
  <2> SUFFICES ASSUME phase[d] \in {"query", "report", "connect"}
               PROVE  uptime' <= held'[d]
    OBVIOUS
  <2>1. uptime' = Later(uptime) /\ held'[d] = Later(held[d]) /\ uptime <= held[d]
    BY <1>1 DEF Underway, Holding
  <2> QED BY <1>0, <2>1 DEF Elapsed, Later
<1>3. Connected(d) => OnTime(d)'
  <2> SUFFICES ASSUME Connected(d) PROVE OnTime(d)'
    OBVIOUS
  <2>1. PICK a \in Elapsed, h \in Elapsed, m \in Nat, l \in Nat :
          /\ a = age[d] /\ h = held[d] /\ m = (1 + sets) * PingPeriod /\ l = pingLeft
          /\ l <= PingPeriod /\ PingPeriod <= m
    <3>1. (1 + sets) * PingPeriod \in Nat
      BY TypeParts, TimeAssumption DEF GatewayTypes
    <3>2. /\ pingLeft \in Nat /\ pingLeft <= PingPeriod
          /\ PingPeriod + held[d] <= Most(d) /\ held[d] \in Nat
      BY MostFacts
    <3>3. PingPeriod <= (1 + sets) * PingPeriod
      BY <1>0, <3>1, <3>2 DEF Most
    <3> QED BY <1>0, <3>1, <3>2, <3>3
  <2>2. /\ Most(d) = m + h /\ Most(d)' = m + held'[d] /\ age'[d] = Later(a)
        /\ Waiting' = Waiting /\ (HasPing(d)' <=> HasPing(d))
        /\ Answering(d)' <=> Answering(d)
    BY <1>1, <2>1 DEF Most, Waiting, HasPing, Answering
  <2>3. PICK left \in Nat : left = pingLeft' /\ left <= l
    BY <1>1, <2>1 DEF Sooner
  <2>4. a \in Nat /\ h \in Nat /\ Later(a) \in Nat /\ Later(h) \in Nat
    BY <1>0 DEF Elapsed, Later
  <2>5. OnTime(d)
    BY DEF Holding
  <2>6. CASE held'[d] = Later(h)
    <3>1. a + 0 <= m + h => Later(a) + 0 <= m + Later(h)
      BY <1>0, <2>1, LaterTogether
    <3>2. a + l <= m + h => Later(a) + l <= m + Later(h)
      BY <1>0, <2>1, LaterTogether
    <3>3. a + PingPeriod <= m + h => Later(a) + PingPeriod <= m + Later(h)
      BY <1>0, <2>1, LaterTogether
    <3>4. a <= m + h => Later(a) <= m + Later(h)
      BY <2>1, <2>4, <3>1
    <3>5. a + l <= m + h => Later(a) + left <= m + Later(h)
      BY <2>1, <2>3, <2>4, <3>2
    <3> QED BY <1>1, <2>1, <2>2, <2>3, <2>5, <2>6, <3>3, <3>4, <3>5 DEF OnTime
  <2>7. CASE held'[d] # Later(h)
    <3>1. phase[d] = "stream" /\ todo = {} /\ held'[d] = h
      BY <1>1, <2>1, <2>7 DEF Underway
    <3>2. ~Answering(d)
      BY <1>0, <1>1, <3>1 DEF Due, Answering, HasPing
    <3>3. ASSUME Waiting PROVE Later(a) + left <= m + h
      <4>1. a + l <= m + h
        BY <2>1, <2>2, <2>5, <3>2, <3>3 DEF OnTime
      <4>2. l # 0 /\ left = Sooner(l)
        BY <1>1, <2>1, <2>3, <3>3 DEF Due
      <4>3. Later(a) <= a + 1 /\ left = l - 1
        BY <1>0, <2>1, <2>4, <4>2 DEF Later, Sooner
      <4> QED BY <2>1, <2>3, <2>4, <4>1, <4>3
    <3> QED BY <1>1, <2>2, <2>3, <3>1, <3>2, <3>3 DEF OnTime, Answering
  <2> QED BY <2>6, <2>7
<1> QED BY <1>1, <1>2, <1>3 DEF Holding, Connected

\* The gateway puts no ping off by more than the property that it sends instead.
LEMMA GatewayHolding ==
  ASSUME TypeOK, GatewayNext, NEW d \in Device, Holding(d)
  PROVE  Holding(d)'
<1>0. /\ TypeOK /\ DeviceTypes /\ NoDevice \notin Device
      /\ sending \in {"set", "ping"} /\ todo \subseteq Device
      /\ joining \in Device \cup {NoDevice} /\ sets \in Nat
  BY TypeParts, DeviceAssumption, TimeAssumption DEF GatewayTypes
<1>1. PICK a \in Nat, most \in Nat, l \in Nat, period \in Nat :
        /\ a = age[d] /\ most = Most(d) /\ l = pingLeft /\ period = PingPeriod
        /\ l <= period /\ period <= most
  <2>1. /\ age[d] \in Nat /\ Most(d) \in Nat /\ pingLeft \in Nat /\ PingPeriod \in Nat
        /\ held[d] \in Nat /\ pingLeft <= PingPeriod /\ PingPeriod + held[d] <= Most(d)
    BY MostFacts
  <2>2. PingPeriod <= Most(d)
    BY <2>1
  <2> QED BY <2>1, <2>2
<1>2. ASSUME UNCHANGED <<phase, age, held, uptime, alive, pong>>, Connected(d) => OnTime(d)'
      PROVE  Holding(d)'
  BY <1>2 DEF Holding, Connected
<1>3. sets' = sets /\ held' = held => Most(d)' = most
  BY <1>1 DEF Most
<1>4. ASSUME server' # "running", sets' = sets, HasPing(d)' => HasPing(d),
             UNCHANGED <<phase, age, held, uptime, alive, pong>>
      PROVE  Holding(d)'
  <2>1. Connected(d) => OnTime(d)'
    BY <1>1, <1>3, <1>4 DEF Holding, OnTime, Waiting
  <2> QED BY <1>2, <1>4, <2>1
<1>5. UNCHANGED box => (HasPing(d)' <=> HasPing(d))
  BY DEF HasPing
<1>6. CASE GatewayPing
  <2>1. /\ UNCHANGED <<phase, box, age, held, uptime, alive, pong, sets>> /\ Waiting /\ l = 0
        /\ todo' = Device /\ sending' = "ping"
    BY <1>1, <1>6 DEF GatewayPing, deviceVars, peerVars
  <2>2. Connected(d) => OnTime(d)'
    <3> SUFFICES ASSUME Connected(d) PROVE OnTime(d)'
      OBVIOUS
    <3>1. a <= most
      BY <1>1, <2>1 DEF Holding, OnTime
    <3> QED BY <1>1, <1>3, <2>1, <3>1 DEF OnTime, Waiting
  <2> QED BY <1>2, <2>1, <2>2
<1>7. CASE GatewayFinish
  BY <1>4, <1>5, <1>7 DEF GatewayFinish, deviceVars, peerVars
<1>8. CASE GatewayJoin
  BY <1>4, <1>5, <1>8 DEF GatewayJoin, deviceVars, peerVars
<1>9. CASE GatewayJoinFails
  BY <1>4, <1>5, <1>9 DEF GatewayJoinFails, deviceVars, peerVars
<1>10. CASE GatewayStop
  BY <1>4, <1>5, <1>10 DEF GatewayStop, deviceVars, peerVars
<1>11. ASSUME NEW e \in Device, GatewayFail(e) PROVE Holding(d)'
  BY <1>4, <1>5, <1>11 DEF GatewayFail, deviceVars, peerVars
<1>12. ASSUME NEW path, GatewaySetProperty(path) PROVE Holding(d)'
  <2>1. /\ UNCHANGED <<phase, box, age, held, uptime, alive, pong>> /\ Waiting
        /\ sets' = sets + 1 /\ (todo' = {} => pingLeft' = PingPeriod)
    BY <1>12 DEF GatewaySetProperty, deviceVars, peerVars
  <2>2. Connected(d) => OnTime(d)'
    <3> SUFFICES ASSUME Connected(d) PROVE OnTime(d)'
      OBVIOUS
    <3>1. a <= most
      BY <1>1, <2>1 DEF Holding, OnTime
    <3>2. Most(d)' = most + period
      <4>1. PICK h \in Nat : h = held[d]
        BY <1>0, MostFacts
      <4>2. (1 + (sets + 1)) * period = (1 + sets) * period + period
        BY <1>0, <1>1
      <4>3. (1 + sets) * period \in Nat
        BY <1>0, <1>1
      <4> QED BY <1>1, <2>1, <4>1, <4>2, <4>3 DEF Most
    <3>3. a <= most + period /\ a + period <= most + period
      BY <1>1, <3>1
    <3> QED BY <1>1, <2>1, <3>2, <3>3 DEF OnTime, Waiting
  <2> QED BY <1>2, <2>1, <2>2
<1>13. ASSUME NEW e \in Device, GatewaySend(e) PROVE Holding(d)'
  <2>1. /\ server = "running" /\ e \in todo /\ Put(e, sending) /\ todo' = todo \ {e}
        /\ todo' = {} => pingLeft' = PingPeriod
        /\ UNCHANGED <<server, sending, sets, phase, age, held, uptime, alive, pong>>
    BY <1>13 DEF GatewaySend, peerVars
  <2>2. /\ HasPing(d) => HasPing(d)'
        /\ HasPing(d)' => HasPing(d) \/ (d = e /\ sending = "ping")
        /\ d = e /\ sending = "ping" => HasPing(d)'
    <3>1. CASE d # e
      <4>1. box'[d] = box[d]
        BY <1>0, <2>1, <3>1, PutTypes DEF Messages
      <4> QED BY <3>1, <4>1 DEF HasPing
    <3>2. CASE d = e
      <4>1. PICK len \in Nat : len = Len(box[d])
        BY <1>0 DEF DeviceTypes
      <4>2. /\ Len(box'[d]) = len + 1 /\ box'[d][len + 1] = sending
            /\ \A i \in 1..len : box'[d][i] = box[d][i]
        BY <1>0, <2>1, <3>2, <4>1, PutTypes DEF Messages
      <4>3. \A i \in 1..(len + 1) : i \in 1..len \/ i = len + 1
        BY <4>1
      <4>4. 1..len \subseteq 1..(len + 1) /\ len + 1 \in 1..(len + 1)
        BY <4>1
      <4> QED BY <3>2, <4>1, <4>2, <4>3, <4>4 DEF HasPing
    <3> QED BY <3>1, <3>2
  <2>3. Connected(d) => OnTime(d)'
    <3> SUFFICES ASSUME Connected(d) PROVE OnTime(d)'
      OBVIOUS
    <3>1. /\ HasPing(d) => a <= most
          /\ \/ a + period <= most
             \/ sending = "ping" /\ a <= most /\ (d \in todo \/ Answering(d))
      BY <1>1, <2>1 DEF Holding, OnTime
    <3>2. a <= most
      BY <1>1, <3>1
    <3>3. Answering(d) => Answering(d)'
      BY <2>1, <2>2 DEF Answering
    <3>4. sending = "ping" /\ d \in todo => d \in todo' \/ Answering(d)'
      BY <2>1, <2>2 DEF Answering
    <3>5. age'[d] = a /\ Most(d)' = most
      BY <1>1, <1>3, <2>1
    <3> QED BY <1>1, <2>1, <3>1, <3>2, <3>3, <3>4, <3>5 DEF OnTime, Waiting
  <2> QED BY <1>2, <2>1, <2>3
<1>14. ASSUME NEW e \in Device, GatewaySendFinish(e) PROVE Holding(d)'
  <2>1. /\ server' = "finishing" /\ Put(e, "finish")
        /\ UNCHANGED <<sets, phase, age, held, uptime, alive, pong>>
    BY <1>14 DEF GatewaySendFinish, peerVars
  <2>2. HasPing(d)' => HasPing(d)
    <3>1. CASE d # e
      <4>1. box'[d] = box[d]
        BY <1>0, <2>1, <3>1, PutTypes DEF Messages
      <4> QED BY <3>1, <4>1 DEF HasPing
    <3>2. CASE d = e
      <4>1. PICK len \in Nat : len = Len(box[d])
        BY <1>0 DEF DeviceTypes
      <4>2. /\ Len(box'[d]) = len + 1 /\ box'[d][len + 1] = "finish"
            /\ \A i \in 1..len : box'[d][i] = box[d][i]
        BY <1>0, <2>1, <3>2, <4>1, PutTypes DEF Messages
      <4>3. \A i \in 1..(len + 1) : i \in 1..len \/ i = len + 1
        BY <4>1
      <4> QED BY <4>1, <4>2, <4>3 DEF HasPing
    <3> QED BY <3>1, <3>2
  <2> QED BY <1>4, <2>1, <2>2
<1> QED BY <1>6, <1>7, <1>8, <1>9, <1>10, <1>11, <1>12, <1>13, <1>14
        DEF GatewayNext, GatewayRuns

LEMMA StepPingInv == TypeOK /\ PingInv /\ [Next]_vars => PingInv'
<1> SUFFICES ASSUME TypeOK, PingInv, [Next]_vars, NEW d \in Device, d \notin lost'
             PROVE  Holding(d)'
  BY DEF PingInv
<1>1. CASE UNCHANGED vars
  <2>1. UNCHANGED <<gatewayVars, uptime, phase, box, age, held, lost, alive, pong>>
    BY <1>1 DEF vars, deviceVars, peerVars
  <2>2. Holding(d)
    BY <2>1 DEF PingInv
  <2> QED BY <2>1, <2>2, SameHolding
<1>2. CASE GatewayNext
  <2>1. lost' = lost
    BY <1>2 DEF GatewayNext, GatewayRuns, GatewayPing, GatewayFinish, GatewayJoin,
       GatewayJoinFails, GatewayStop, GatewaySetProperty, GatewaySend, GatewaySendFinish,
       GatewayFail, deviceVars
  <2>2. Holding(d)
    BY <2>1 DEF PingInv
  <2> QED BY <1>2, <2>2, GatewayHolding
<1>3. CASE Tick
  <2>1. d \notin lost /\ Holding(d)
    BY <1>3 DEF Tick, PingInv
  <2> QED BY <1>3, <2>1, TickHolding
<1>4. ASSUME NEW e \in Device, DeviceNext(e) PROVE Holding(d)'
  <2>1. lost \subseteq lost'
    BY <1>4, MovedAlone
  <2>2. Holding(d)
    BY <2>1 DEF PingInv
  <2>3. CASE e = d
    BY <1>4, <2>2, <2>3, OwnHolding
  <2>4. CASE e # d
    <3>1. UNCHANGED <<gatewayVars, uptime, phase[d], box[d], age[d], held[d], alive[d],
                      pong[d]>>
      BY <1>4, <2>4, MovedAlone
    <3> QED BY <2>2, <3>1, SameHolding
  <2> QED BY <2>3, <2>4
<1> QED BY <1>1, <1>2, <1>3, <1>4 DEF Next

\* The server of a device that answers its pings does not time out on its first
\* connection, unless the properties that are set, the events that wait and the mailboxes
\* that are full have kept a ping, or its answer, from it for too long: whatever the
\* devices, the faults and the sizes.
THEOREM AnswersKeepConnection == Spec => FirstConnectionHolds
<1>1. TypeOK /\ PingInv
        => \A d \in Device : StreamTimesOut(d) => d \in lost \/ Starved(d)
  BY TimesOutStarved DEF PingInv
<1>2. TypeOK /\ PingInv /\ [Next]_vars
        => [\A d \in Device : StreamTimesOut(d) => d \in lost \/ Starved(d)]_vars
  BY <1>1
<1> QED BY <1>2, InitPingInv, StepPingInv, TypeCorrect, PTL DEF Spec, FirstConnectionHolds
=============================================================================
