------------------------------ MODULE HueBridge ------------------------------
(***************************************************************************)
(* The Hue bridge and the task that talks to it.  The bridge sets several  *)
(* lights at once only through a group, so the task keeps a map from sets  *)
(* of lights to groups: it reads the groups of the bridge when it starts,  *)
(* or deletes them when told not to use them, and makes one more for every *)
(* set of lights that has none.  The requests of a batch are sent one      *)
(* after the other, and each may fail, or succeed without its answer       *)
(* arriving.  Other applications may delete groups and make their own, and *)
(* the bridge gives out a free number again.                               *)
(*                                                                         *)
(* A path stands for the light of its name; names are distinct.            *)
(***************************************************************************)
EXTENDS Color, FiniteSets, SequencesExt

CONSTANTS
  Light,      \* the lights that the tree names
  Known,      \* those of them that the bridge knows
  Value,      \* the values they may be given
  Samples,    \* colors to try the conversion with
  GroupId,    \* the numbers of groups: as many as the bridge has room for
  UseCached,  \* whether existing groups are used: one of these holds
  MaxBatches, \* bound: batches of values
  MaxEdits    \* bound: what other applications do to groups

ASSUME LightAssumption == IsFiniteSet(Light) /\ Known \subseteq Light
ASSUME ValueAssumption == Value \cup Samples \subseteq Texts
ASSUME GroupAssumption == GroupId \subseteq Nat \ {0} /\ IsFiniteSet(GroupId)
ASSUME BoundAssumption ==
  UseCached \subseteq BOOLEAN /\ MaxBatches \in Nat /\ MaxEdits \in Nat

VARIABLES
  pc,        \* starting, clearing, running, or how it ended: failed, panicked
  useCached, \* whether existing groups are used
  groupMap,  \* the group of each set of lights, 0 if it has none
  todo,      \* what is left of a batch: sets of lights with their value
  lightsOf,  \* bridge: the lights of each group there is, none if there is none
  lit,       \* bridge: the state of each light
  batch,     \* history: the last batch of values
  trouble,   \* history: whether anything went wrong with it
  touched,   \* history: the groups that other applications deleted or made
  made,      \* history: the groups made by this task
  lost,      \* history: the sets of lights whose new group it never heard of
  batches,   \* history: number of batches
  edits      \* history: what other applications did

bridgeVars == <<lightsOf, lit>>
historyVars == <<touched, made, lost, batches, edits>>
vars == <<pc, useCached, groupMap, todo, bridgeVars, batch, trouble, historyVars>>

NoLights == {}
Dark == [on |-> FALSE, ct |-> 40, bri |-> 0, hue |-> 0, sat |-> 0]
Item == [lights : SUBSET Light, value : Value]

TypeOK ==
  /\ pc \in {"starting", "clearing", "running", "failed", "panicked"}
  /\ useCached \in UseCached
  /\ groupMap \in [SUBSET Known -> GroupId \cup {0}]
  /\ todo \in Seq(Item)
  /\ lightsOf \in [GroupId -> SUBSET Known]
  /\ \A l \in Known : lit[l] \in
       [on : BOOLEAN, ct : 40..200, bri : 0..(ByteLimit - 1),
        hue : 0..(WordLimit - 1), sat : 0..(ByteLimit - 1)]
  /\ DOMAIN batch \subseteq Light /\ \A l \in DOMAIN batch : batch[l] \in Value
  /\ trouble \in BOOLEAN
  /\ touched \in SUBSET GroupId
  /\ made \in SUBSET GroupId /\ lost \in SUBSET SUBSET Known
  /\ batches \in 0..MaxBatches /\ edits \in 0..MaxEdits

Init ==
  /\ pc = "starting"
  /\ useCached \in UseCached
  /\ groupMap = [S \in SUBSET Known |-> 0]
  /\ todo = <<>>
  /\ lightsOf \in [GroupId -> SUBSET Known]
  /\ lit = [l \in Known |-> Dark]
  /\ batch = <<>> /\ trouble = FALSE
  /\ touched = {} /\ made = {} /\ lost = {}
  /\ batches = 0 /\ edits = 0

-----------------------------------------------------------------------------
\* The maps that reading the groups may give: of groups with the same lights
\* one is remembered.
GroupsRead ==
  {m \in [SUBSET Known -> GroupId \cup {0}] :
     \A S \in SUBSET Known :
       LET same == IF S = NoLights THEN {} ELSE {g \in GroupId : lightsOf[g] = S}
       IN IF same = {} THEN m[S] = 0 ELSE m[S] \in same}

Setup ==
  /\ pc = "starting"
  /\ groupMap' \in GroupsRead
  /\ pc' = IF useCached THEN "running" ELSE "clearing"
  /\ UNCHANGED <<useCached, todo, bridgeVars, batch, trouble, historyVars>>

\* Mutant of DeleteGroup: a group is deleted and stays in the map.
DeleteGroupKeeps ==
  /\ pc = "clearing"
  /\ \E S \in SUBSET Known :
       /\ groupMap[S] # 0
       /\ lightsOf' = [lightsOf EXCEPT ![groupMap[S]] = NoLights]
  /\ pc' = "running"
  /\ UNCHANGED <<useCached, groupMap, todo, lit, batch, trouble, historyVars>>

DeleteGroup ==
  /\ pc = "clearing"
  /\ \E S \in SUBSET Known :
       /\ groupMap[S] # 0
       /\ groupMap' = [groupMap EXCEPT ![S] = 0]
       /\ lightsOf' = [lightsOf EXCEPT ![groupMap[S]] = NoLights]
  /\ UNCHANGED <<pc, useCached, todo, lit, batch, trouble, historyVars>>

ClearingDone ==
  /\ pc = "clearing"
  /\ \A S \in SUBSET Known : groupMap[S] = 0
  /\ pc' = "running"
  /\ UNCHANGED <<useCached, groupMap, todo, bridgeVars, batch, trouble, historyVars>>

\* A request that fails while starting ends the daemon.
SetupFails ==
  /\ pc \in {"starting", "clearing"}
  /\ pc' = "failed"
  /\ UNCHANGED <<useCached, groupMap, todo, bridgeVars, batch, trouble, historyVars>>

-----------------------------------------------------------------------------
\* The lights of a batch by value, in the order of a hash map.
Items(b) ==
  {[lights |-> {l \in DOMAIN b : b[l] = v}, value |-> v] :
     v \in {b[l] : l \in DOMAIN b}}

\* A value that is not a string drops the batch before anything was sent.
TakeBatch(b) ==
  /\ pc = "running" /\ todo = <<>>
  /\ batches < MaxBatches
  /\ batches' = batches + 1
  /\ batch' = b
  /\ trouble' = \E l \in DOMAIN b : b[l].form = "number"
  /\ IF trouble' THEN todo' = <<>> ELSE todo' \in SetToSeqs(Items(b))
  /\ UNCHANGED <<pc, useCached, groupMap, bridgeVars, touched, made, lost, edits>>

Now(i) == pc = "running" /\ todo # <<>> /\ i = Head(todo)
Abandon == todo' = <<>> /\ trouble' = TRUE

\* The map of lights is indexed without looking whether the light is there.
UnknownLight(i) ==
  /\ Now(i)
  /\ ~(i.lights \subseteq Known)
  /\ pc' = "panicked"
  /\ UNCHANGED <<useCached, groupMap, todo, bridgeVars, batch, trouble,
                 historyVars>>

Fresh == {g \in GroupId : lightsOf[g] = NoLights}

\* Mutant of MakeGroup: the new group is not remembered.
MakeGroupForgets(i) ==
  /\ Now(i)
  /\ i.lights \subseteq Known /\ groupMap[i.lights] = 0
  /\ \E g \in Fresh :
       /\ lightsOf' = [lightsOf EXCEPT ![g] = i.lights]
       /\ made' = made \cup {g}
  /\ UNCHANGED <<pc, useCached, groupMap, todo, lit, batch, trouble, touched,
                 lost, batches, edits>>

\* Mutant of MakeGroup: a group is made for the batches to come only.
MakeGroupSkips(i) ==
  /\ Now(i)
  /\ i.lights \subseteq Known /\ groupMap[i.lights] = 0
  /\ \E g \in Fresh :
       /\ lightsOf' = [lightsOf EXCEPT ![g] = i.lights]
       /\ made' = made \cup {g}
       /\ groupMap' = [groupMap EXCEPT ![i.lights] = g]
  /\ todo' = Tail(todo)
  /\ UNCHANGED <<pc, useCached, lit, batch, trouble, touched, lost, batches,
                 edits>>

\* Without the number of the new group the rest of the batch is abandoned.
MakeGroup(i) ==
  /\ Now(i)
  /\ i.lights \subseteq Known /\ groupMap[i.lights] = 0
  /\ \E g \in Fresh :
       /\ lightsOf' = [lightsOf EXCEPT ![g] = i.lights]
       /\ made' = made \cup {g}
       /\ \/ /\ groupMap' = [groupMap EXCEPT ![i.lights] = g]
             /\ UNCHANGED <<todo, trouble, lost>>
          \/ /\ Abandon
             /\ lost' = lost \cup {i.lights}
             /\ UNCHANGED groupMap
  /\ UNCHANGED <<pc, useCached, lit, batch, touched, batches, edits>>

\* The request is not answered with a new group, as when the bridge is full.
MakeGroupFails(i) ==
  /\ Now(i)
  /\ i.lights \subseteq Known /\ groupMap[i.lights] = 0
  /\ Abandon
  /\ UNCHANGED <<pc, useCached, groupMap, bridgeVars, batch, historyVars>>

\* What the bridge does with a state for a group: what the state does not name
\* stays as it was.
Show(g, state) ==
  lit' = [l \in Known |->
            [k \in DOMAIN lit[l] |->
               IF l \in lightsOf[g] /\ k \in DOMAIN state THEN state[k]
               ELSE lit[l][k]]]

\* Mutant of UpdateGroup: any group that has the lights will do.
UpdateGroupOfMore(i) ==
  /\ Now(i)
  /\ i.lights \subseteq Known /\ groupMap[i.lights] # 0
  /\ todo' = Tail(todo)
  /\ \E S \in SUBSET Known, state \in LightStates(i.value) :
       i.lights \subseteq S /\ groupMap[S] # 0 /\ Show(groupMap[S], state)
  /\ UNCHANGED <<pc, useCached, groupMap, lightsOf, batch, trouble, historyVars>>

\* A failure to set a group is logged, and an answer that says that there is no
\* such group is not looked at: the next group is tried.
UpdateGroup(i) ==
  /\ Now(i)
  /\ i.lights \subseteq Known /\ groupMap[i.lights] # 0
  /\ todo' = Tail(todo)
  /\ \E state \in LightStates(i.value) :
       \/ Show(groupMap[i.lights], state) /\ UNCHANGED trouble
       \/ Show(groupMap[i.lights], state) /\ trouble' = TRUE
       \/ UNCHANGED lit /\ trouble' = TRUE
  /\ UNCHANGED <<pc, useCached, groupMap, lightsOf, batch, historyVars>>

\* Mutant of NoColor: whatever its numbers, a color temperature is sent.
NoColorSent(i) ==
  /\ Now(i)
  /\ i.lights \subseteq Known /\ groupMap[i.lights] # 0
  /\ LightStates(i.value) = {} /\ i.value.form = "mired"
  /\ Show(groupMap[i.lights], [on |-> TRUE, ct |-> i.value.args[1]])
  /\ Abandon
  /\ UNCHANGED <<pc, useCached, groupMap, lightsOf, batch, historyVars>>

\* A string that is no color abandons the rest of the batch.
NoColor(i) ==
  /\ Now(i)
  /\ i.lights \subseteq Known /\ groupMap[i.lights] # 0
  /\ LightStates(i.value) = {}
  /\ Abandon
  /\ UNCHANGED <<pc, useCached, groupMap, bridgeVars, batch, historyVars>>

-----------------------------------------------------------------------------
\* Another application deletes a group, or makes one.
OthersEdit(g, S) ==
  /\ pc = "running" /\ edits < MaxEdits
  /\ (lightsOf[g] = NoLights) # (S = NoLights)
  /\ edits' = edits + 1
  /\ lightsOf' = [lightsOf EXCEPT ![g] = S]
  /\ touched' = touched \cup {g}
  /\ made' = made \ {g}
  /\ UNCHANGED <<pc, useCached, groupMap, todo, lit, batch, trouble, lost, batches>>

Batches == UNION {[S -> Value] : S \in (SUBSET Light) \ {{}}}

Next ==
  \/ Setup \/ DeleteGroup \/ ClearingDone \/ SetupFails
  \/ \E b \in Batches : TakeBatch(b)
  \/ \E i \in Item : UnknownLight(i) \/ MakeGroup(i) \/ MakeGroupFails(i)
                        \/ UpdateGroup(i) \/ NoColor(i)
  \/ \E g \in GroupId, S \in SUBSET Known : OthersEdit(g, S)

Spec == Init /\ [][Next]_vars

-----------------------------------------------------------------------------
\* A group in the map is on the bridge and has the lights it is filed under,
\* with or without the groups found there, unless another application had its
\* hand in it: nobody looks again.
GroupsTrue ==
  pc = "running" =>
    \A S \in SUBSET Known :
      groupMap[S] \in GroupId \ touched => lightsOf[groupMap[S]] = S

\* A request changes the lights it is meant for and no other, to the value they
\* were given, as long as its group is the one that was found or made.
OnlyAsked ==
  [][\A l \in Known :
       lit'[l] # lit[l] =>
         /\ todo # <<>>
         /\ Shows(lit'[l], Head(todo).value)
         /\ \/ l \in Head(todo).lights
            \/ groupMap[Head(todo).lights] \in touched]_vars

\* Whatever red, green and blue are, the state that is sent has the brightness
\* and the saturation they stand for, and the hue if that is 0.
RgbTrue ==
  pc = "starting" =>
    \A t \in Samples : \A s \in LightStates(t) : Shows(s, t)

\* A batch with which nothing went wrong is shown, all of it, before the next.
BatchShown ==
  pc = "running" /\ todo = <<>> /\ ~trouble /\ touched = {} =>
    \A l \in DOMAIN batch : Shows(lit[l], batch[l])

\* The task makes one group for a set of lights and no second one, but when it
\* never heard of the first: the room for groups is not used up by batches.
MadeOnce ==
  \A g, h \in made :
    g # h /\ lightsOf[g] = lightsOf[h] => lightsOf[g] \in lost
=============================================================================
