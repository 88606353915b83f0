------------------------------ MODULE Shutdown ------------------------------
(***************************************************************************)
(* The end of the daemon: main tells every server to finish, in one order, *)
(* and awaits them in another.  An error of a send or of a join makes main *)
(* return at once, and what still runs is dropped with it.                 *)
(*                                                                         *)
(* Meanwhile the clock, a Redstone device and the connections of the       *)
(* legacy MCU server go on raising events, through the tree and the update *)
(* server to the hue and redstone servers, as in EventFlow.  A server that *)
(* finishes closes its mailbox to new messages and handles those that are  *)
(* in it; the clock and the device server return at once.  What a message  *)
(* says is left out, and so is the life of the device's connection, which  *)
(* is in Redstone: here its server ends when it is told to and not before. *)
(*                                                                         *)
(* In a behaviour one thing may go wrong: the tree panics in the           *)
(* arithmetic of a script, the hue server over a light that the bridge     *)
(* does not know, or the bridge does not answer a request, for which       *)
(* nothing limits the time.                                                *)
(***************************************************************************)
EXTENDS Integers, Sequences

CONSTANTS
  Capacity,  \* room in the mailbox of each server: 16 in the code
  Faults,    \* what may go wrong: "none", "tree", "hue" or "bridge"
  MaxEvents  \* bound: events raised in a behaviour with each of them

Server == {"tree", "clock", "redstone", "mcu", "update", "hue", "device"}
Source == {"clock", "device", "connection"}
Sinks == {"hue", "redstone"}

ASSUME BoundAssumption ==
  /\ Capacity \in [Server -> Nat \ {0}]
  /\ Faults \subseteq {"none", "tree", "hue", "bridge"}
  /\ MaxEvents \in [Faults -> Nat]

VARIABLES
  mainPc,   \* how many of its calls after ctrl-c main has finished
  outcome,  \* running, or how main returned: clean or error
  box,      \* mailbox of every server
  open,     \* whether it takes new messages
  ended,    \* how a server's task ended: no, ok, or err
  stage,    \* where a source is in handling an event, as in EventFlow
  applying, \* the servers the update server has still to send to
  gateway,  \* what the redstone server is doing
  raised,   \* history: events raised
  owed,     \* history: batches the hue server's mailbox has accepted and the
            \* server has not applied
  fault,    \* what goes wrong in this behaviour
  hung      \* whether the hue server waits for an answer that never comes

mainVars == <<mainPc, outcome>>
boxVars == <<box, open>>
faultVars == <<fault, hung>>
vars == <<mainVars, boxVars, ended, stage, applying, gateway, raised, owed,
          faultVars>>

TypeOK ==
  /\ mainPc \in 0..13
  /\ outcome \in {"running", "clean", "error"}
  /\ box \in [Server -> Seq(Source \cup {"apply", "set", "finish"})]
  /\ \A s \in Server : Len(box[s]) <= Capacity[s]
  /\ open \in [Server -> BOOLEAN]
  /\ ended \in [Server -> {"no", "ok", "err"}]
  /\ stage \in [Source -> {"idle", "asking", "waiting", "sending"}]
  /\ applying \in SUBSET Sinks
  /\ gateway \in {"serving", "forwarding", "finishing", "joining"}
  /\ fault \in Faults /\ hung \in BOOLEAN
  /\ raised \in 0..MaxEvents[fault]
  /\ owed \in Nat

Init ==
  /\ mainPc = 0
  /\ outcome = "running"
  /\ box = [s \in Server |-> <<>>]
  /\ open = [s \in Server |-> TRUE]
  /\ ended = [s \in Server |-> "no"]
  /\ stage = [t \in Source |-> "idle"]
  /\ applying = {}
  /\ gateway = "serving"
  /\ raised = 0
  /\ owed = 0
  /\ fault \in Faults /\ hung = FALSE

-----------------------------------------------------------------------------
Up == outcome = "running"
Running(s) == Up /\ ended[s] = "no" /\ ~(s = "hue" /\ hung)

\* Mutant of HasRoom: a mailbox is never full.
HasRoomAlways(s) == open[s]

HasRoom(s) == open[s] /\ Len(box[s]) < Capacity[s]

\* The next message of a server that is running, taken off its mailbox.
Takes(s, m) ==
  /\ Running(s)
  /\ box[s] # <<>> /\ Head(box[s]) = m

\* The mailboxes after one message was taken from s and one sent to r.
Taken(s) == [box EXCEPT ![s] = Tail(@)]
Sent(r, m) == [box EXCEPT ![r] = Append(@, m)]

\* A server's task returns; its mailbox goes with it.
End(s, how) ==
  /\ ended' = [ended EXCEPT ![s] = how]
  /\ open' = [open EXCEPT ![s] = FALSE]
  /\ box' = [box EXCEPT ![s] = <<>>]

-----------------------------------------------------------------------------
\* main, once ctrl-c was pressed.
FinishOrder == <<"tree", "clock", "redstone", "mcu", "update", "hue">>
JoinOrder == <<"clock", "redstone", "mcu", "hue", "update", "tree">>

CtrlC ==
  /\ Up /\ mainPc = 0
  /\ mainPc' = 1
  /\ UNCHANGED <<outcome, boxVars, ended, stage, applying, gateway, raised,
                 owed, faultVars>>

MainFinish ==
  /\ Up /\ mainPc \in 1..6
  /\ LET s == FinishOrder[mainPc]
     IN \/ /\ HasRoom(s)
           /\ box' = Sent(s, "finish")
           /\ mainPc' = mainPc + 1
           /\ UNCHANGED outcome
        \/ /\ ~open[s]
           /\ outcome' = "error"
           /\ UNCHANGED <<box, mainPc>>
  /\ UNCHANGED <<open, ended, stage, applying, gateway, raised, owed, faultVars>>

MainJoin ==
  /\ Up /\ mainPc \in 7..12
  /\ LET s == JoinOrder[mainPc - 6]
     IN /\ ended[s] # "no"
        /\ mainPc' = IF ended[s] = "ok" THEN mainPc + 1 ELSE mainPc
        /\ outcome' = IF ended[s] = "err" THEN "error"
                      ELSE IF mainPc = 12 THEN "clean" ELSE "running"
  /\ UNCHANGED <<boxVars, ended, stage, applying, gateway, raised, owed, faultVars>>

-----------------------------------------------------------------------------
\* The sources of events.  A connection is served by a task of its own, which
\* nobody finishes.
Alive(t) == Up /\ (t \in Server => ended[t] = "no")

\* A mailbox that is closed refuses the message, and an event that a tree takes with
\* it when it panics gets no reply.  The clock returns the error; a
\* device server connects again; a connection only says so.
SourceFails(t) ==
  /\ stage' = [stage EXCEPT ![t] = "idle"]
  /\ IF t = "clock" THEN End("clock", "err") ELSE UNCHANGED <<boxVars, ended>>

Raise(t) ==
  /\ Alive(t) /\ stage[t] = "idle"
  /\ raised < MaxEvents[fault]
  /\ raised' = raised + 1
  /\ stage' = [stage EXCEPT ![t] = "asking"]
  /\ UNCHANGED <<mainVars, boxVars, ended, applying, gateway, owed, faultVars>>

AskTree(t) ==
  /\ Alive(t) /\ stage[t] = "asking"
  /\ \/ /\ HasRoom("tree")
        /\ box' = Sent("tree", t)
        /\ stage' = [stage EXCEPT ![t] = "waiting"]
        /\ UNCHANGED <<open, ended>>
     \/ ~open["tree"] /\ SourceFails(t)
  /\ UNCHANGED <<mainVars, applying, gateway, raised, owed, faultVars>>

SendUpdates(t) ==
  /\ Alive(t) /\ stage[t] = "sending"
  /\ \/ /\ HasRoom("update")
        /\ box' = Sent("update", "apply")
        /\ stage' = [stage EXCEPT ![t] = "idle"]
        /\ UNCHANGED <<open, ended>>
     \/ ~open["update"] /\ SourceFails(t)
  /\ UNCHANGED <<mainVars, applying, gateway, raised, owed, faultVars>>

TreeGone(t) ==
  /\ Alive(t) /\ stage[t] = "waiting"
  /\ ended["tree"] = "err"
  /\ SourceFails(t)
  /\ UNCHANGED <<mainVars, applying, gateway, raised, owed, faultVars>>

\* Between two events the clock and the device server look at their mailboxes.
SourceFinishes(t) ==
  /\ stage[t] = "idle"
  /\ Takes(t, "finish")
  /\ End(t, "ok")
  /\ UNCHANGED <<mainVars, stage, applying, gateway, raised, owed, faultVars>>

DeviceSet ==
  /\ stage["device"] = "idle"
  /\ Takes("device", "set")
  /\ box' = Taken("device")
  /\ UNCHANGED <<mainVars, open, ended, stage, applying, gateway, raised,
                 owed, faultVars>>

-----------------------------------------------------------------------------
\* The servers that finish by closing their mailbox and end when it is drained.
Draining == {"tree", "mcu", "update", "hue"}

\* Mutant of TakesFinish: what is still in the mailbox is left.
TakesFinishAtOnce(s) ==
  /\ Takes(s, "finish")
  /\ End(s, "ok")
  /\ UNCHANGED <<mainVars, stage, applying, gateway, raised, owed, faultVars>>

\* Mutant of TakesFinish: the mailbox stays open.
TakesFinishStaysOpen(s) ==
  /\ s = "update" => applying = {}
  /\ Takes(s, "finish")
  /\ box' = Taken(s)
  /\ UNCHANGED <<mainVars, open, ended, stage, applying, gateway, raised,
                 owed, faultVars>>

TakesFinish(s) ==
  /\ s = "update" => applying = {}
  /\ Takes(s, "finish")
  /\ box' = Taken(s)
  /\ open' = [open EXCEPT ![s] = FALSE]
  /\ UNCHANGED <<mainVars, ended, stage, applying, gateway, raised, owed, faultVars>>

Drained(s) ==
  /\ Running(s)
  /\ ~open[s] /\ box[s] = <<>>
  /\ s = "update" => applying = {}
  /\ End(s, "ok")
  /\ UNCHANGED <<mainVars, stage, applying, gateway, raised, owed, faultVars>>

TreeHandleEvent ==
  \E t \in Source :
    /\ Takes("tree", t)
    /\ box' = Taken("tree")
    /\ stage' = [stage EXCEPT ![t] = "sending"]
    /\ UNCHANGED <<mainVars, open, ended, applying, gateway, raised, owed, faultVars>>

HueApply ==
  /\ Takes("hue", "apply")
  /\ box' = Taken("hue")
  /\ owed' = owed - 1
  /\ UNCHANGED <<mainVars, open, ended, stage, applying, gateway, raised, faultVars>>

\* Panics end a task, with an error for whoever joins it.
TreePanics ==
  /\ fault = "tree"
  /\ \E t \in Source : Takes("tree", t)
  /\ End("tree", "err")
  /\ UNCHANGED <<mainVars, stage, applying, gateway, raised, owed, faultVars>>

HuePanics ==
  /\ fault = "hue"
  /\ Takes("hue", "apply")
  /\ End("hue", "err")
  /\ UNCHANGED <<mainVars, stage, applying, gateway, raised, owed, faultVars>>

HueHangs ==
  /\ fault = "bridge"
  /\ Takes("hue", "apply")
  /\ box' = Taken("hue")
  /\ hung' = TRUE
  /\ UNCHANGED <<mainVars, open, ended, stage, applying, gateway, raised,
                 owed, fault>>

\* A batch has values for some of the servers.
UpdateTakeApply ==
  /\ applying = {}
  /\ Takes("update", "apply")
  /\ box' = Taken("update")
  /\ applying' \in SUBSET Sinks
  /\ UNCHANGED <<mainVars, open, ended, stage, gateway, raised, owed, faultVars>>

\* Mutant of UpdateToHue: the error of a send ends the update server.
UpdateToHueOrEnd ==
  /\ Running("update") /\ "hue" \in applying
  /\ \/ /\ HasRoom("hue") /\ box' = Sent("hue", "apply") /\ owed' = owed + 1
        /\ UNCHANGED <<open, ended>>
     \/ ~open["hue"] /\ End("update", "err") /\ UNCHANGED owed
  /\ applying' = IF open["hue"] THEN applying \ {"hue"} ELSE applying
  /\ UNCHANGED <<mainVars, stage, gateway, raised, faultVars>>

\* The update server only says so when a server takes no more messages.
UpdateToHue ==
  /\ Running("update") /\ "hue" \in applying
  /\ \/ HasRoom("hue") /\ box' = Sent("hue", "apply") /\ owed' = owed + 1
     \/ ~open["hue"] /\ UNCHANGED <<box, owed>>
  /\ applying' = applying \ {"hue"}
  /\ UNCHANGED <<mainVars, open, ended, stage, gateway, raised, faultVars>>

UpdateToRedstone ==
  /\ Running("update") /\ applying = {"redstone"}
  /\ \/ HasRoom("redstone") /\ box' = Sent("redstone", "set")
     \/ ~open["redstone"] /\ UNCHANGED box
  /\ applying' = {}
  /\ UNCHANGED <<mainVars, open, ended, stage, gateway, raised, owed, faultVars>>

-----------------------------------------------------------------------------
\* The gateway waits at each step of its own; told to finish, it reads its
\* mailbox no more but closes it only when the device server has ended.
RedstoneTake ==
  /\ gateway = "serving"
  /\ \/ Takes("redstone", "set") /\ gateway' = "forwarding"
     \/ Takes("redstone", "finish") /\ gateway' = "finishing"
  /\ box' = Taken("redstone")
  /\ UNCHANGED <<mainVars, open, ended, stage, applying, raised, owed, faultVars>>

RedstoneToDevice ==
  /\ Running("redstone") /\ HasRoom("device")
  /\ \/ /\ gateway = "forwarding"
        /\ box' = Sent("device", "set") /\ gateway' = "serving"
     \/ /\ gateway = "finishing"
        /\ box' = Sent("device", "finish") /\ gateway' = "joining"
  /\ UNCHANGED <<mainVars, open, ended, stage, applying, raised, owed, faultVars>>

\* Mutant of RedstoneEnds: the device server is not awaited.
RedstoneEndsUnjoined ==
  /\ Running("redstone") /\ gateway = "joining"
  /\ End("redstone", "ok")
  /\ UNCHANGED <<mainVars, stage, applying, gateway, raised, owed, faultVars>>

RedstoneEnds ==
  /\ Running("redstone") /\ gateway = "joining"
  /\ ended["device"] # "no"
  /\ End("redstone", "ok")
  /\ UNCHANGED <<mainVars, stage, applying, gateway, raised, owed, faultVars>>

-----------------------------------------------------------------------------
MainStep == MainFinish \/ MainJoin
SourceStep(t) == AskTree(t) \/ TreeGone(t) \/ SendUpdates(t)
GatewayStep == RedstoneTake \/ RedstoneToDevice \/ RedstoneEnds
DrainStep(s) ==
  \/ TakesFinish(s) \/ Drained(s)
  \/ s = "tree" /\ (TreeHandleEvent \/ TreePanics)
  \/ s = "hue" /\ (HueApply \/ HuePanics \/ HueHangs)
  \/ s = "update" /\ (UpdateTakeApply \/ UpdateToHue \/ UpdateToRedstone)

TaskStep ==
  \/ MainStep \/ GatewayStep
  \/ \E t \in Source : SourceStep(t)
  \/ \E t \in {"clock", "device"} : SourceFinishes(t)
  \/ DeviceSet
  \/ \E s \in Draining : DrainStep(s)

Next == CtrlC \/ TaskStep \/ \E t \in Source : Raise(t)

Spec == Init /\ [][Next]_vars

\* Every task runs when it can.  Events being finitely many no behaviour takes steps
\* for ever, so the fairness of all tasks together is that of each, and a task that
\* waits for room in a mailbox gets it.  Nobody has to press ctrl-c or to raise an
\* event.
Fairness == WF_vars(TaskStep)

FairSpec == Spec /\ Fairness

-----------------------------------------------------------------------------
\* A batch that the hue server's mailbox has accepted is applied before the
\* server ends, also one that came in while it was told to finish.
AcceptedIsApplied == ended["hue"] = "ok" => owed = 0

\* When main returns without an error no task of a server is left: neither one
\* it awaited nor a device server, which only the gateway knows of.
CleanMeansEnded ==
  outcome = "clean" => \A s \in Server : ended[s] = "ok"

\* The device server waits for the update server, which waits for the gateway,
\* which waits for the device server.
Full(s) == open[s] /\ Len(box[s]) = Capacity[s]

Circle ==
  /\ stage["device"] = "sending" /\ Full("update")
  /\ applying = {"redstone"} /\ Full("redstone")
  /\ \/ gateway \in {"forwarding", "finishing"} /\ Full("device")
     \/ gateway = "joining"

\* After ctrl-c main returns, whatever the sources are doing and whichever server has
\* panicked: what can keep it is that circle of full mailboxes, and a bridge that does
\* not answer.
ShutdownEnds == mainPc > 0 ~> (outcome # "running" \/ Circle \/ hung)

\* The values of a batch for redstone get through although the hue server has
\* panicked, and also while it hangs, as long as its mailbox has room.
RedstoneServed ==
  "redstone" \in applying
    ~> ("redstone" \notin applying \/ ~Up \/ Circle \/ (hung /\ Full("hue")))
=============================================================================
