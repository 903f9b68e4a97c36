-------------------------- MODULE SpecChangeProofs --------------------------
(***************************************************************************)
(* For any number of plans, runs, human acts, faults and crashes: the      *)
(* types of SpecChange, that a plan is asked about once, and decided once  *)
(* but where the guard is misled, and that an approval once taken on is    *)
(* carried out, but for a crash, a failed close or recovery's own reasons. *)
(***************************************************************************)
EXTENDS SpecChangeProperties, FiniteSetTheorems, WellFoundedInduction, TLAPS

\* What the control thread may be at, and what it may hold.
Stages == {"idle", "event", "guard", "promote", "relabel", "label", "enqueue", "close",
           "result", "propose", "park", "script", "failed", "raised"}
Held   == [kind: EventKinds \cup RowKinds \cup {"none"}, tries: Nat, due: BOOLEAN, post: Posts]
Ctl    == [pc: Stages, task: Held, yes: BOOLEAN, blind: BOOLEAN]

\* The types of what the other parts rest on.
StateTypes ==
  /\ remote \in Request /\ mirror \in Request
  /\ control \in Ctl
  /\ dir \in [plan: {0} \cup Plans, kind: Proposals \cup {"question", "none"}]
  /\ finals \in [Plans -> Nat] /\ posted \in [Plans -> Nat]
  /\ budget \in [{"plans", "runs", "human", "faults", "crashes"} -> Nat]
  /\ budget["plans"] <= MaxPlans

\* Whatever goes back to the lane came from it: the task being handled.  A proposal has a
\* plan.
LaneInv ==
  /\ queue \in Seq(Tasks)
  /\ control # Idle => control.task \in Tasks
  /\ worker \in [pc: {"none", "pending", "looked", "running", "killed"}, wrote: BOOLEAN]
  /\ dir.kind \in Proposals => dir.plan \in Plans
  /\ live \subseteq Plans /\ created \subseteq Plans
  /\ approved \subseteq Plans /\ refused \subseteq Plans

\* The slips that are on record.
SlipInv ==
  /\ dropped \subseteq [tries: Nat, post: Posts, fatal: BOOLEAN]
  /\ unmarked \subseteq Plans /\ unclosed \in BOOLEAN

\* A plan that was not asked about was never posted, and one that was, once.
AskInv ==
  /\ remote.last # 0 => remote.last \in remote.asks
  /\ \A p \in Plans : posted[p] <= 1 /\ (p \notin remote.asks => posted[p] = 0)

\* An approval is one of a plan that was asked about: whoever resolves has one to resolve.
Resolving == {"guard", "promote", "relabel", "label", "enqueue"}
Asking(r) == r.asks # {} \/ r.up \/ r.down => r.last # 0
ParkInv ==
  /\ Asking(remote) /\ Asking(mirror)
  /\ mirror.last # 0 => remote.last # 0
  /\ control.pc \in Resolving => remote.last # 0 /\ "awaiting_approval" \in mirror.labels

Many(labels) == \E a, b \in labels : a # b
LastDecided  == remote.last \in Plans /\ Decided(remote.last)
LastUnmarked == remote.last \in unmarked
ManyLabels   == Many(remote.labels) \/ Many(mirror.labels)

\* A decided plan was asked about; while it is the latest, and its marks were not lost, the
\* request keeps a terminal label, so whoever decides again has been misled by a second
\* label, or has read none.  Park, which alone takes the terminal label away, follows a
\* new plan.
DecideInv ==
  /\ \A p \in Plans : Decided(p) => p \in remote.asks
  /\ LastDecided => Terminal \cap remote.labels # {} \/ LastUnmarked
  /\ control.pc = "park" => ~LastDecided \/ LastUnmarked
  /\ control.pc = "enqueue" => "done" \in remote.labels \/ LastUnmarked
  /\ control.pc \in {"promote", "relabel"}
       => ~LastDecided \/ Many(remote.labels) \/ control.blind \/ LastUnmarked
  /\ control.pc \in {"label", "enqueue"}
       => ~LastDecided \/ ManyLabels \/ control.blind \/ LastUnmarked
  /\ mirror.labels = {"awaiting_approval"} /\ (LastDecided \/ control.pc \in {"label", "enqueue"})
       => "awaiting_approval" \notin remote.labels \/ LastUnmarked

Inv == StateTypes /\ LaneInv /\ SlipInv /\ AskInv /\ ParkInv /\ DecideInv

----------------------------------------------------------------------------
(* What a step does to the request *)

\* The types hold at the start.
LEMMA TypeInit == Init => StateTypes
  BY SpecChangeAssumption DEF Init, StateTypes, Request, Statuses, Idle, Row, Ctl, Stages, Held, Posts,
     EventKinds, RowKinds, Proposals, Plans

\* The parts of the request that a lemma speaks of.
LEMMA RequestParts ==
  ASSUME StateTypes
  PROVE  /\ remote.labels \subseteq Statuses /\ mirror.labels \subseteq Statuses
         /\ remote.asks \subseteq Plans /\ remote.last \in {0} \cup Plans
         /\ 0 \notin Plans
  BY DEF StateTypes, Request, Plans

\* People change neither the labels nor what they are asked, and react on what was asked.
LEMMA PeopleMoves ==
  ASSUME StateTypes, People
  PROVE  /\ remote' \in Request
         /\ remote'.asks = remote.asks /\ remote'.last = remote.last
         /\ remote'.labels = remote.labels
         /\ remote.last # 0 \/ (remote'.up = remote.up /\ remote'.down = remote.down)
<1>0. remote \in Request
  BY DEF StateTypes
<1>1. CASE Approve
  <2>1. remote.last \in Plans
    BY <1>0, <1>1 DEF Approve, Request
  <2>2. remote.yes \cup {remote.last} \subseteq Plans
    BY <1>0, <2>1 DEF Request
  <2> QED BY <1>0, <1>1, <2>2 DEF Approve, Request
<1>2. CASE Reject
  <2>1. remote.last \in Plans
    BY <1>0, <1>2 DEF Reject, Request
  <2>2. remote.no \cup {remote.last} \subseteq Plans
    BY <1>0, <2>1 DEF Request
  <2> QED BY <1>0, <1>2, <2>2 DEF Reject, Request
<1>3. CASE Talk
  <2>1. remote.spoken + 1 \in Nat /\ remote' = [remote EXCEPT !.spoken = remote.spoken + 1]
    BY <1>0, <1>3 DEF Talk, Request
  <2> QED BY <1>0, <2>1 DEF Request
<1>4. CASE CloseByHand
  BY <1>0, <1>4 DEF CloseByHand, Request
<1>5. CASE ClosePost
  BY <1>0, <1>5 DEF ClosePost, tracker
<1> QED BY <1>1, <1>2, <1>3, <1>4, <1>5 DEF People

\* A proposal asks about a plan nobody was asked about, or leaves the request alone; it goes
\* on to park without having asked only when the comment was lost.
LEMMA ProposeMoves ==
  ASSUME StateTypes, Propose
  PROVE  /\ remote' \in Request /\ remote'.labels = remote.labels
         /\ \/ /\ remote' = remote /\ posted' = posted
               /\ \/ control'.pc \in {"idle", "failed"} /\ unmarked' = unmarked
                  \/ control'.pc = "park" /\ unmarked' = unmarked \cup ({remote.last} \ {0})
            \/ /\ dir.plan \in Plans \ remote.asks
               /\ remote'.asks = remote.asks \cup {dir.plan} /\ remote'.last = dir.plan
               /\ posted' = [posted EXCEPT ![dir.plan] = @ + 1]
               /\ control'.pc = "park" /\ unmarked' = unmarked
<1>0. remote \in Request /\ dir.plan \in {0} \cup Plans
  BY DEF StateTypes
<1>1. /\ Ends => control'.pc = "idle"
      /\ \A pc \in Stages : GoesTo(pc) => control'.pc = pc
      /\ {"failed", "park"} \subseteq Stages
  BY DEF Ends, Idle, GoesTo, StateTypes, Ctl, Stages
<1>2. CASE (Ends \/ GoesTo("failed")) /\ UNCHANGED <<remote, posted, unmarked>>
  BY <1>0, <1>1, <1>2
<1>3. CASE /\ GoesTo("park") /\ UNCHANGED <<remote, posted>>
           /\ unmarked' = unmarked \cup ({remote.last} \ {0})
  BY <1>0, <1>1, <1>3
<1>4. CASE /\ dir.plan # 0 /\ ~AlreadyAsked(dir.plan) /\ GoesTo("park")
           /\ remote' = [remote EXCEPT !.asks = @ \cup {dir.plan}, !.last = dir.plan,
                                      !.up = FALSE, !.down = FALSE]
           /\ posted' = [posted EXCEPT ![dir.plan] = @ + 1] /\ unmarked' = unmarked
  <2>1. dir.plan \in Plans \ remote.asks
    BY <1>0, <1>4 DEF AlreadyAsked
  <2> DEFINE A == remote.asks \cup {dir.plan}
             p == dir.plan
  <2>2. /\ remote' = [remote EXCEPT !.asks = A, !.last = p, !.up = FALSE, !.down = FALSE]
        /\ control'.pc = "park"
    BY <1>1, <1>4
  <2>3. A \subseteq Plans /\ p \in Plans
    BY <1>0, <2>1 DEF Request
  <2> HIDE DEF A, p
  <2>4. /\ remote' \in Request /\ remote'.labels = remote.labels /\ remote'.asks = A
        /\ remote'.last = p
    BY <1>0, <2>2, <2>3 DEF Request
  <2> QED BY <1>4, <2>1, <2>2, <2>4 DEF A, p
<1> QED BY <1>2, <1>3, <1>4 DEF Propose

\* Deciding takes away the label the mirror shows, if it can.
LEMMA UnlabelMoves ==
  ASSUME StateTypes, Unlabel
  PROVE  /\ remote' \in Request
         /\ remote'.asks = remote.asks /\ remote'.last = remote.last
         /\ remote'.up = remote.up /\ remote'.down = remote.down
         /\ control.pc = "relabel" /\ control'.pc = "label" /\ control'.blind = control.blind
         /\ \E known \in Readings(mirror) :
              \/ /\ remote'.labels = remote.labels \ {known}
                 /\ unmarked' = IF known \in Terminal THEN unmarked \cup {remote.last} ELSE unmarked
              \/ remote'.labels = remote.labels /\ unmarked' = unmarked \cup {remote.last}
<1>0. remote \in Request
  BY DEF StateTypes
<1>1. PICK known \in Readings(mirror) :
        \/ /\ remote' = [remote EXCEPT !.labels = remote.labels \ {known}]
           /\ unmarked' = IF known \in Terminal THEN unmarked \cup {remote.last} ELSE unmarked
        \/ unmarked' = unmarked \cup {remote.last} /\ remote' = remote
  BY DEF Unlabel
<1>2. /\ control.pc = "relabel" /\ control'.pc = "label" /\ control'.blind = control.blind
  BY DEF Unlabel, GoesTo, StateTypes, Ctl
<1>3. CASE remote' = remote /\ unmarked' = unmarked \cup {remote.last}
  BY <1>0, <1>1, <1>2, <1>3
<1>4. CASE /\ remote' = [remote EXCEPT !.labels = remote.labels \ {known}]
           /\ unmarked' = IF known \in Terminal THEN unmarked \cup {remote.last} ELSE unmarked
  <2> DEFINE L == remote.labels \ {known}
  <2>1. L \subseteq Statuses /\ remote' = [remote EXCEPT !.labels = L]
    BY <1>0, <1>4 DEF Request
  <2> HIDE DEF L
  <2>2. /\ remote' \in Request /\ remote'.asks = remote.asks /\ remote'.last = remote.last
        /\ remote'.up = remote.up /\ remote'.down = remote.down /\ remote'.labels = L
    BY <1>0, <2>1 DEF Request
  <2> QED BY <1>1, <1>2, <1>4, <2>2 DEF L
<1> QED BY <1>1, <1>3, <1>4

\* Deciding puts a terminal label on the request, or the plan goes unmarked.
LEMMA LabelingMoves ==
  ASSUME StateTypes, Label
  PROVE  /\ remote' \in Request
         /\ remote'.asks = remote.asks /\ remote'.last = remote.last
         /\ remote'.up = remote.up /\ remote'.down = remote.down
         /\ control.pc = "label" /\ control'.blind = control.blind
         /\ control'.pc = IF control.yes THEN "enqueue" ELSE "close"
         /\ \/ /\ remote'.labels = remote.labels \cup {IF control.yes THEN "done" ELSE "rejected"}
               /\ unmarked' = unmarked
            \/ remote'.labels = remote.labels /\ unmarked' = unmarked \cup {remote.last}
         /\ refused' = IF control.yes THEN refused ELSE refused \cup {remote.last}
         /\ finals' = finals
<1>0. remote \in Request
  BY DEF StateTypes
<1> DEFINE L == remote.labels \cup {IF control.yes THEN "done" ELSE "rejected"}
<1>1. /\ control.pc = "label" /\ control'.blind = control.blind
      /\ control'.pc = IF control.yes THEN "enqueue" ELSE "close"
      /\ refused' = IF control.yes THEN refused ELSE refused \cup {remote.last}
      /\ finals' = finals
  BY DEF Label, GoesTo, StateTypes, Ctl
<1>2. CASE remote' = remote /\ unmarked' = unmarked \cup {remote.last}
  BY <1>0, <1>1, <1>2
<1>3. CASE remote' = [remote EXCEPT !.labels = L] /\ unmarked' = unmarked
  <2>1. L \subseteq Statuses
    BY <1>0 DEF Request, Statuses
  <2> HIDE DEF L
  <2>2. /\ remote' \in Request /\ remote'.asks = remote.asks /\ remote'.last = remote.last
        /\ remote'.up = remote.up /\ remote'.down = remote.down /\ remote'.labels = L
    BY <1>0, <1>3, <2>1 DEF Request
  <2> QED BY <1>1, <1>3, <2>2 DEF L
<1> QED BY <1>2, <1>3 DEF Label

\* A clarification round asks for input, and decides nothing.
LEMMA ScriptMoves ==
  ASSUME StateTypes, ScriptRuns
  PROVE  /\ remote' \in Request
         /\ remote'.asks = remote.asks /\ remote'.last = remote.last
         /\ remote'.up = remote.up /\ remote'.down = remote.down
         /\ remote'.labels \cap Terminal = remote.labels \cap Terminal
         /\ "awaiting_approval" \in remote'.labels => "awaiting_approval" \in remote.labels
         /\ control'.pc \in {"idle", "close"}
<1>0. remote \in Request
  BY DEF StateTypes
<1>1. control'.pc \in {"idle", "close"}
  BY DEF ScriptRuns, GoesTo, Ends, Idle, StateTypes, Ctl
<1>2. CASE remote' = remote
  BY <1>0, <1>1, <1>2
<1>3. CASE \E ls \in {{}, {"awaiting_approval"}} :
             remote' = [remote EXCEPT !.labels = (remote.labels \ ls) \cup {"awaiting_input"}]
  <2>1. PICK ls \in {{}, {"awaiting_approval"}} :
             remote' = [remote EXCEPT !.labels = (remote.labels \ ls) \cup {"awaiting_input"}]
    BY <1>3
  <2> DEFINE L == (remote.labels \ ls) \cup {"awaiting_input"}
  <2>2. L \subseteq Statuses /\ L \cap Terminal = remote.labels \cap Terminal
        /\ ("awaiting_approval" \in L => "awaiting_approval" \in remote.labels)
    BY <1>0 DEF Request, Statuses, Terminal
  <2>3. remote' = [remote EXCEPT !.labels = L]
    BY <2>1
  <2> HIDE DEF L
  <2>4. remote' \in Request /\ remote'.asks = remote.asks /\ remote'.last = remote.last
        /\ remote'.up = remote.up /\ remote'.down = remote.down /\ remote'.labels = L
    BY <1>0, <2>2, <2>3 DEF Request
  <2> QED BY <1>1, <2>2, <2>4
<1>4. (remote' \in {remote}) \/ \E ls \in {{}, {"awaiting_approval"}} :
             remote' = [remote EXCEPT !.labels = (remote.labels \ ls) \cup {"awaiting_input"}]
  BY DEF ScriptRuns, Asked
<1> QED BY <1>2, <1>3, <1>4

\* Parking writes labels alone.
LEMMA ParkMoves ==
  ASSUME StateTypes, Park
  PROVE  /\ remote' \in Request
         /\ remote'.asks = remote.asks /\ remote'.last = remote.last
         /\ remote'.up = remote.up /\ remote'.down = remote.down
         /\ control.pc = "park" /\ control'.pc = "idle"
<1>0. remote \in Request /\ remote.labels \subseteq Statuses
  BY DEF StateTypes, Request
<1>1. \E L : L \subseteq Statuses /\ remote' = [remote EXCEPT !.labels = L]
  <2>1. {"awaiting_approval"} \subseteq Statuses
    BY DEF Statuses
  <2>2. CASE remote' = [remote EXCEPT !.labels = {"awaiting_approval"}]
    BY <2>1, <2>2
  <2>3. CASE \E gone \in SUBSET (remote.labels \ {"awaiting_approval"}),
                put \in SUBSET {"awaiting_approval"} :
               remote' = [remote EXCEPT !.labels = (remote.labels \ gone) \cup put]
    <3>1. PICK gone \in SUBSET (remote.labels \ {"awaiting_approval"}),
               put \in SUBSET {"awaiting_approval"} :
                 remote' = [remote EXCEPT !.labels = (remote.labels \ gone) \cup put]
      BY <2>3
    <3>2. (remote.labels \ gone) \cup put \subseteq Statuses
      BY <1>0, <2>1
    <3> QED BY <3>1, <3>2
  <2> QED BY <2>2, <2>3 DEF Park
<1>2. PICK L : L \subseteq Statuses /\ remote' = [remote EXCEPT !.labels = L]
  BY <1>1
<1>3. remote' \in Request /\ remote'.asks = remote.asks /\ remote'.last = remote.last
      /\ remote'.up = remote.up /\ remote'.down = remote.down
  BY <1>0, <1>2 DEF Request
<1> QED BY <1>3 DEF Park, Ends, Idle

\* Every other step leaves the request alone, or closes it.
LEMMA OtherMoves ==
  ASSUME StateTypes
  PROVE  /\ CloseRequest => /\ remote' \in Request /\ remote'.labels = remote.labels
                            /\ remote'.asks = remote.asks /\ remote'.last = remote.last
                            /\ remote'.up = remote.up /\ remote'.down = remote.down
         /\ [Next]_vars => \/ People \/ Propose \/ Unlabel \/ Label \/ ScriptRuns \/ CloseRequest
                           \/ Park \/ remote' = remote
         /\ [Next]_vars => \/ Label \/ EnqueueApply \/ (refused' = refused /\ finals' = finals)
         /\ [Next]_vars => \/ mirror' = mirror
                           \/ mirror' = remote /\ control = Idle /\ control' = control /\ remote' = remote
         /\ [Next]_vars /\ ~Propose => posted' = posted
         /\ [Next]_vars => Propose \/ Unlabel \/ Label \/ unmarked' = unmarked
<1>1. CloseRequest => /\ remote' \in Request /\ remote'.labels = remote.labels
                      /\ remote'.asks = remote.asks /\ remote'.last = remote.last
                      /\ remote'.up = remote.up /\ remote'.down = remote.down
  BY DEF CloseRequest, StateTypes, Request
<1>2. ASSUME [Next]_vars
      PROVE  /\ \/ People \/ Propose \/ Unlabel \/ Label \/ ScriptRuns \/ CloseRequest
                \/ Park \/ remote' = remote
             /\ Label \/ EnqueueApply \/ (refused' = refused /\ finals' = finals)
             /\ \/ mirror' = mirror
                \/ mirror' = remote /\ control = Idle /\ control' = control /\ remote' = remote
             /\ ~Propose => posted' = posted
             /\ Propose \/ Unlabel \/ Label \/ unmarked' = unmarked
  <2>1. CASE People
    BY <2>1 DEF People, Approve, Reject, Talk, CloseByHand, ClosePost, Acts, history, slips, tracker
  <2>2. CASE Sync \/ HandleEvent \/ GuardResolve \/ PromoteStaged \/ FollowUp
    BY <2>2 DEF Sync, HandleEvent, GuardResolve, PromoteStaged, FollowUp, history, slips, tracker
  <2>3. CASE TakeEvent \/ TakeResult \/ TakePropose \/ TakeScript
    BY <2>3 DEF TakeEvent, TakeResult, TakePropose, TakeScript, Take, tracker
  <2>4. CASE EnqueueApply \/ CloseRequest \/ Unlabel \/ Label \/ Propose \/ Park \/ ScriptRuns
    BY <2>4 DEF EnqueueApply, CloseRequest, Unlabel, Label, Propose, Park, ScriptRuns, history, slips, tracker
  <2>5. CASE Script \/ OnFailure
    BY <2>5 DEF Script, ScriptStopped, ScriptFails, ScriptRaises, Breaks, OnFailure, slips, tracker
  <2>6. CASE DelayPasses \/ Work \/ Writes \/ RunFails \/ Crash \/ UNCHANGED vars
    BY <2>6 DEF DelayPasses, Work, WorkLooks, ClaimRun, RunEnds, Writes, RunFails, Crash, vars, history,
       slips, tracker
  <2> QED BY <1>2, <2>1, <2>2, <2>3, <2>4, <2>5, <2>6 DEF Next, Control
<1> QED BY <1>1, <1>2

\* The control thread parks after it asked, and decides after it read awaiting_approval
\* in the mirror and no terminal label on the tracker, or could not read the tracker.
LEMMA ControlMoves ==
  ASSUME StateTypes, [Next]_vars, control'.pc # control.pc \/ control'.blind # control.blind
  PROVE  /\ control'.pc = "park" => Propose
         /\ control'.pc = "guard"
              => /\ HandleEvent /\ "awaiting_approval" \in mirror.labels
                 /\ ApprovedBy(mirror) \/ RejectedBy(mirror)
         /\ control'.pc \in {"promote", "relabel"}
              => \/ PromoteStaged /\ control.pc = "promote" /\ control'.blind = control.blind
                 \/ /\ GuardResolve
                    /\ control'.blind \/ \E status \in Readings(remote) : status \notin Terminal
         /\ control'.pc = "label" => Unlabel
         /\ control'.pc = "enqueue" => Label
<1> DEFINE Goal ==
         /\ control'.pc = "park" => Propose
         /\ control'.pc = "guard"
              => /\ HandleEvent /\ "awaiting_approval" \in mirror.labels
                 /\ ApprovedBy(mirror) \/ RejectedBy(mirror)
         /\ control'.pc \in {"promote", "relabel"}
              => \/ PromoteStaged /\ control.pc = "promote" /\ control'.blind = control.blind
                 \/ /\ GuardResolve
                    /\ control'.blind \/ \E status \in Readings(remote) : status \notin Terminal
         /\ control'.pc = "label" => Unlabel
         /\ control'.pc = "enqueue" => Label
<1> SUFFICES Goal
  OBVIOUS
<1>0. /\ Ends => control'.pc = "idle"
      /\ \A pc \in Stages : GoesTo(pc) => control'.pc = pc /\ control'.blind = control.blind
      /\ control \in Ctl
  BY DEF Ends, Idle, GoesTo, StateTypes, Ctl
<1>2. ASSUME control'.pc \in {"idle", "event", "result", "propose", "script", "close", "failed", "raised"}
      PROVE Goal
  BY <1>2
<1>3. \/ Approve \/ Reject \/ Talk \/ CloseByHand \/ ClosePost
      \/ Sync \/ DelayPasses \/ WorkLooks \/ ClaimRun \/ RunEnds \/ Writes \/ RunFails
      \/ ScriptStopped \/ UNCHANGED vars
      => control'.pc \in {"idle", control.pc} /\ (control'.pc # "idle" => control'.blind = control.blind)
  BY <1>0 DEF Approve, Reject, Talk, CloseByHand, ClosePost, Acts, Sync, DelayPasses, WorkLooks, ClaimRun,
         RunEnds, Writes, RunFails, ScriptStopped, vars, Ctl
<1>4. CASE TakeEvent \/ TakeResult \/ TakePropose \/ TakeScript
  <2>1. \A kinds, pc : Take(kinds, pc)
          => control' = control \/ \E task : control' = [Idle EXCEPT !.pc = pc, !.task = task]
    BY DEF Take
  <2>2. control' = control
        \/ \E task : \E pc \in {"event", "result", "propose", "script"} :
             control' = [Idle EXCEPT !.pc = pc, !.task = task]
    BY <1>4, <2>1 DEF TakeEvent, TakeResult, TakePropose, TakeScript
  <2>3. control'.pc \in {"event", "result", "propose", "script"} \/ control' = control
    BY <2>2 DEF Idle
  <2> QED BY <1>2, <2>3
<1>5. CASE HandleEvent
  <2>1. PICK status \in Readings(mirror) :
          \/ Ends
          \/ /\ status = "awaiting_approval" /\ (ApprovedBy(mirror) \/ RejectedBy(mirror))
             /\ control' = [control EXCEPT !.pc = "guard", !.yes = ApprovedBy(mirror)]
    BY <1>5 DEF HandleEvent
  <2>2. CASE Ends
    BY <1>0, <1>2, <2>2
  <2>3. CASE /\ status = "awaiting_approval" /\ (ApprovedBy(mirror) \/ RejectedBy(mirror))
             /\ control' = [control EXCEPT !.pc = "guard", !.yes = ApprovedBy(mirror)]
    <3>1. control'.pc = "guard" /\ "awaiting_approval" \in mirror.labels
      BY <1>0, <2>1, <2>3 DEF Readings, Ctl
    <3> QED BY <1>5, <2>3, <3>1
  <2> QED BY <2>1, <2>2, <2>3
<1>6. CASE GuardResolve
  <2> DEFINE next == IF control.yes THEN "promote" ELSE "relabel"
  <2>0. next \in {"promote", "relabel"} /\ {"promote", "relabel"} \subseteq Stages
    BY DEF Stages
  <2>1. \/ Ends
        \/ GoesTo(next) /\ \E status \in Readings(remote) : ~Resolved(status)
        \/ control' = [control EXCEPT !.pc = next, !.blind = TRUE]
    BY <1>6 DEF GuardResolve
  <2> HIDE DEF next
  <2>2. CASE Ends
    BY <1>0, <1>2, <2>2
  <2>3. CASE GoesTo(next) /\ \E status \in Readings(remote) : ~Resolved(status)
    <3>1. control'.pc \in {"promote", "relabel"}
      BY <1>0, <2>0, <2>3
    <3>2. \E status \in Readings(remote) : status \notin Terminal
      BY <2>3 DEF Resolved
    <3> QED BY <1>6, <3>1, <3>2
  <2>4. CASE control' = [control EXCEPT !.pc = next, !.blind = TRUE]
    <3>1. control'.pc \in {"promote", "relabel"} /\ control'.blind
      BY <1>0, <2>0, <2>4 DEF Ctl
    <3> QED BY <1>6, <3>1
  <2> QED BY <2>1, <2>2, <2>3, <2>4
<1>7. CASE PromoteStaged
  <2>1. control.pc = "promote" /\ control'.pc = "relabel" /\ control'.blind = control.blind
    BY <1>0, <1>7 DEF PromoteStaged, Stages
  <2> QED BY <1>7, <2>1
<1>8. CASE Unlabel
  BY <1>8, UnlabelMoves
<1>9. CASE Label
  BY <1>9, LabelingMoves
<1>10. CASE \/ EnqueueApply \/ CloseRequest \/ FollowUp \/ Park \/ ScriptFails \/ ScriptRaises
            \/ OnFailure \/ Crash \/ ScriptRuns
  <2>1. control'.pc \in {"idle", "close", "failed", "raised"}
    BY <1>0, <1>10, ScriptMoves, ParkMoves
       DEF EnqueueApply, CloseRequest, FollowUp, ScriptFails, ScriptRaises, OnFailure, Crash, Ends, Idle, Stages
  <2> QED BY <1>2, <2>1
<1>11. CASE Propose
  <2>1. control'.pc \in {"idle", "failed", "park"}
    BY <1>11, ProposeMoves
  <2> QED BY <1>11, <2>1
<1>12. control'.pc = control.pc /\ control'.blind = control.blind => FALSE
  OBVIOUS
<1> HIDE DEF Goal
<1> QED BY <1>2, <1>3, <1>4, <1>5, <1>6, <1>7, <1>8, <1>9, <1>10, <1>11, <1>12
    DEF Next, Control, Work, People, Script

\* Which steps use up a bound, and which write the directory, the live spec and the
\* histories.
LEMMA BudgetMoves ==
  ASSUME [Next]_vars
  PROVE  /\ \/ \E b \in {"plans", "runs", "human", "faults", "crashes"} : Spend(b)
            \/ budget' = budget
         /\ ~Crash => \/ \E b \in {"plans", "runs", "human", "faults"} : Spend(b)
                      \/ budget' = budget
<1>1. CASE People
  BY <1>1 DEF People, Approve, Reject, Talk, CloseByHand, ClosePost, Acts
<1>2. CASE Sync \/ HandleEvent \/ GuardResolve \/ PromoteStaged \/ FollowUp
  BY <1>2 DEF Sync, HandleEvent, GuardResolve, PromoteStaged, FollowUp
<1>3. CASE TakeEvent \/ TakeResult \/ TakePropose \/ TakeScript
  BY <1>3 DEF TakeEvent, TakeResult, TakePropose, TakeScript, Take
<1>4. CASE EnqueueApply \/ CloseRequest \/ Unlabel \/ Label \/ Propose \/ Park \/ ScriptRuns
  BY <1>4 DEF EnqueueApply, CloseRequest, Unlabel, Label, Propose, Park, ScriptRuns
<1>5. CASE Script \/ OnFailure
  BY <1>5 DEF Script, ScriptStopped, ScriptFails, ScriptRaises, Breaks, OnFailure
<1>6. CASE DelayPasses \/ Work \/ Writes \/ RunFails \/ Crash \/ UNCHANGED vars
  BY <1>6 DEF DelayPasses, Work, WorkLooks, ClaimRun, RunEnds, Writes, RunFails, Crash, vars
<1> QED BY <1>1, <1>2, <1>3, <1>4, <1>5, <1>6 DEF Next, Control

LEMMA FileMoves ==
  ASSUME [Next]_vars
  PROVE  /\ Writes \/ dir' = dir
         /\ PromoteStaged \/ live' = live
         /\ ScriptRuns \/ Script \/ created' = created
         /\ Approve \/ approved' = approved
         /\ \/ TakeEvent \/ TakeResult \/ TakePropose \/ TakeScript \/ OnFailure
            \/ dropped' = dropped
         /\ CloseRequest \/ unclosed' = unclosed
<1>1. CASE People
  BY <1>1 DEF People, Approve, Reject, Talk, CloseByHand, ClosePost, Acts, files, history, slips
<1>2. CASE Sync \/ HandleEvent \/ GuardResolve \/ PromoteStaged \/ FollowUp
  BY <1>2 DEF Sync, HandleEvent, GuardResolve, PromoteStaged, FollowUp, files, history, slips
<1>3. CASE TakeEvent \/ TakeResult \/ TakePropose \/ TakeScript
  BY <1>3 DEF TakeEvent, TakeResult, TakePropose, TakeScript, Take, files
<1>4. CASE EnqueueApply \/ CloseRequest \/ Unlabel \/ Label \/ Propose \/ Park \/ ScriptRuns
  BY <1>4 DEF EnqueueApply, CloseRequest, Unlabel, Label, Propose, Park, ScriptRuns, files, history, slips
<1>5. CASE Script \/ OnFailure
  BY <1>5 DEF Script, ScriptStopped, ScriptFails, ScriptRaises, Breaks, OnFailure, files, slips
<1>6. CASE DelayPasses \/ Work \/ Writes \/ RunFails \/ Crash \/ UNCHANGED vars
  BY <1>6 DEF DelayPasses, Work, WorkLooks, ClaimRun, RunEnds, Writes, RunFails, Crash, vars, files,
     history, slips
<1> QED BY <1>1, <1>2, <1>3, <1>4, <1>5, <1>6 DEF Next, Control

\* A row of the lane may be held, with another try, another delay or another post.
LEMMA HeldRows ==
  /\ Tasks \subseteq Held
  /\ \A row \in Tasks : Claimed(row) \in Tasks
  /\ \A row \in Tasks, post \in Posts : [row EXCEPT !.post = post] \in Tasks
  /\ \A row \in Tasks : \A b \in BOOLEAN : [row EXCEPT !.due = b] \in Tasks
  /\ \A kind \in EventKinds \cup RowKinds : Row(kind) \in Tasks
  /\ Idle \in Ctl
  BY DEF Tasks, Held, Claimed, Row, Posts, Idle, Ctl, Stages

\* The control thread keeps its type.
LEMMA ControlStep == StateTypes /\ LaneInv /\ [Next]_vars => control' \in Ctl
<1> SUFFICES ASSUME StateTypes, LaneInv, [Next]_vars PROVE control' \in Ctl
  OBVIOUS
<1>0. control \in Ctl /\ queue \in Seq(Tasks)
  BY DEF StateTypes, LaneInv
<1>1. Ends => control' \in Ctl
  BY HeldRows DEF Ends
<1>2. \A pc \in Stages : GoesTo(pc) => control' \in Ctl
  BY <1>0 DEF GoesTo, Ctl
<1>3. {"guard", "promote", "relabel", "label", "enqueue", "close", "park", "failed", "raised"} \subseteq Stages
  BY DEF Stages
<1>4. ASSUME NEW kinds, NEW pc \in {"event", "result", "propose", "script"}, Take(kinds, pc)
      PROVE  control' \in Ctl
  <2>1. PICK i \in DOMAIN queue :
               control' = control \/ control' = [Idle EXCEPT !.pc = pc, !.task = Claimed(queue[i])]
    BY <1>4 DEF Take
  <2>2. Claimed(queue[i]) \in Held
    BY <1>0, HeldRows
  <2>3. [Idle EXCEPT !.pc = pc, !.task = Claimed(queue[i])] \in Ctl
    BY <2>2, HeldRows DEF Ctl, Stages
  <2> QED BY <1>0, <2>1, <2>3
<1>5. TakeEvent \/ TakeResult \/ TakePropose \/ TakeScript => control' \in Ctl
  BY <1>4 DEF TakeEvent, TakeResult, TakePropose, TakeScript
<1>6. HandleEvent => control' \in Ctl
  <2>1. ApprovedBy(mirror) \in BOOLEAN
    BY DEF ApprovedBy, StateTypes, Request
  <2>2. [control EXCEPT !.pc = "guard", !.yes = ApprovedBy(mirror)] \in Ctl
    BY <1>0, <1>3, <2>1 DEF Ctl
  <2> QED BY <1>1, <2>2 DEF HandleEvent
<1>7. GuardResolve => control' \in Ctl
  <2>1. \A pc \in {"promote", "relabel"} : [control EXCEPT !.pc = pc, !.blind = TRUE] \in Ctl
    BY <1>0, <1>3 DEF Ctl
  <2> QED BY <1>1, <1>2, <1>3, <2>1 DEF GuardResolve
<1>8. ClosePost => control' \in Ctl
  <2>1. [control EXCEPT !.task.post = "closed"] \in Ctl
    BY <1>0 DEF Ctl, Held, Posts
  <2> QED BY <1>0, <2>1 DEF ClosePost
<1> HIDE DEF Ctl
<1>9. PromoteStaged \/ Unlabel \/ Label \/ EnqueueApply \/ CloseRequest \/ FollowUp => control' \in Ctl
  BY <1>1, <1>2, <1>3 DEF PromoteStaged, Unlabel, Label, EnqueueApply, CloseRequest, FollowUp
<1>10. Propose \/ Park \/ ScriptRuns \/ Script \/ OnFailure \/ Crash => control' \in Ctl
  BY <1>1, <1>2, <1>3 DEF Propose, Park, ScriptRuns, Script, ScriptStopped, ScriptFails, ScriptRaises,
     OnFailure, Crash, Ends
<1>11. \/ Approve \/ Reject \/ Talk \/ CloseByHand
       \/ Sync \/ DelayPasses \/ WorkLooks \/ ClaimRun \/ RunEnds \/ Writes \/ RunFails
       \/ UNCHANGED vars
       => control' = control
  BY DEF Approve, Reject, Talk, CloseByHand, Acts, Sync, DelayPasses, WorkLooks, ClaimRun, RunEnds, Writes,
         RunFails, vars
<1> QED BY <1>0, <1>5, <1>6, <1>7, <1>8, <1>9, <1>10, <1>11 DEF Next, Control, Work, People

\* Every step keeps the types.
LEMMA TypeStep == StateTypes /\ LaneInv /\ ParkInv /\ [Next]_vars => StateTypes'
<1> SUFFICES ASSUME StateTypes, LaneInv, ParkInv, [Next]_vars PROVE StateTypes'
  OBVIOUS
<1> DEFINE Five == {"plans", "runs", "human", "faults", "crashes"}
<1>0. /\ dir \in [plan: {0} \cup Plans, kind: Proposals \cup {"question", "none"}]
      /\ finals \in [Plans -> Nat] /\ posted \in [Plans -> Nat]
      /\ budget \in [Five -> Nat] /\ budget["plans"] <= MaxPlans /\ MaxPlans \in Nat
      /\ remote \in Request /\ mirror \in Request
  BY SpecChangeAssumption DEF StateTypes
<1>1. remote' \in Request
  BY <1>0, PeopleMoves, ProposeMoves, UnlabelMoves, LabelingMoves, ScriptMoves, ParkMoves, OtherMoves
<1>2. mirror' \in Request
  BY <1>0, OtherMoves
<1>3. posted' \in [Plans -> Nat]
  <2>1. CASE Propose
    <3>1. \/ posted' = posted
          \/ dir.plan \in Plans /\ posted' = [posted EXCEPT ![dir.plan] = posted[dir.plan] + 1]
      BY <2>1, ProposeMoves
    <3> QED BY <1>0, <3>1
  <2> QED BY <1>0, <2>1, OtherMoves
<1>4. finals' \in [Plans -> Nat]
  <2>1. CASE EnqueueApply
    <3>1. remote.last \in Plans
      BY <2>1, RequestParts DEF EnqueueApply, ParkInv, Resolving
    <3>2. finals' = finals \/ finals' = [finals EXCEPT ![remote.last] = finals[remote.last] + 1]
      BY <2>1 DEF EnqueueApply
    <3> QED BY <1>0, <3>1, <3>2
  <2>2. CASE Label
    BY <1>0, <2>2, LabelingMoves
  <2> QED BY <1>0, <2>1, <2>2, OtherMoves
<1>5. budget' \in [Five -> Nat] /\ budget'["plans"] <= budget["plans"]
  <2>1. ASSUME NEW b \in Five, Spend(b)
        PROVE  budget' \in [Five -> Nat] /\ budget'["plans"] <= budget["plans"]
    <3>1. budget[b] \in Nat /\ budget[b] > 0 /\ budget' = [budget EXCEPT ![b] = budget[b] - 1]
      BY <1>0, <2>1 DEF Spend
    <3>2. budget[b] - 1 \in Nat /\ budget[b] - 1 <= budget[b] /\ "plans" \in Five /\ budget["plans"] \in Nat
      BY <1>0, <3>1
    <3> DEFINE n == budget[b] - 1
    <3>3. budget' = [budget EXCEPT ![b] = n] /\ n \in Nat /\ n <= budget[b]
      BY <3>1, <3>2
    <3> HIDE DEF n, Five
    <3> QED BY <1>0, <3>2, <3>3
  <2>2. (\E b \in Five : Spend(b)) \/ budget' = budget
    BY BudgetMoves
  <2>3. budget["plans"] <= budget["plans"]
    BY <1>0
  <2> QED BY <1>0, <2>1, <2>2, <2>3
<1>6. dir' \in [plan: {0} \cup Plans, kind: Proposals \cup {"question", "none"}]
  <2>1. CASE Writes
    <3>1. CASE dir' = [plan |-> 0, kind |-> "question"]
      BY <3>1
    <3>2. CASE Spend("plans") /\ \E kind \in Proposals :
                 dir' = [plan |-> MaxPlans - budget.plans + 1, kind |-> kind]
      <4>1. budget.plans \in Nat /\ budget.plans > 0 /\ budget.plans <= MaxPlans
        BY <1>0, <3>2 DEF Spend
      <4>2. MaxPlans - budget.plans + 1 \in Plans
        BY <1>0, <4>1 DEF Plans
      <4> QED BY <3>2, <4>2
    <3> QED BY <2>1, <3>1, <3>2 DEF Writes
  <2>2. CASE ~Writes
    BY <1>0, <2>2, FileMoves
  <2> QED BY <2>1, <2>2
<1>7. control' \in Ctl
  BY ControlStep
<1>8. budget'["plans"] <= MaxPlans
  <2>1. budget'["plans"] \in Nat /\ budget["plans"] \in Nat
    BY <1>0, <1>5
  <2> QED BY <1>0, <1>5, <2>1
<1> QED BY <1>1, <1>2, <1>3, <1>4, <1>5, <1>6, <1>7, <1>8 DEF StateTypes

----------------------------------------------------------------------------
(* The lane and what refers to it *)

Less == OpToRel(<, Nat)

\* A non-empty set of numbers has a least one.
LEMMA LeastNumber ==
  ASSUME NEW T \in SUBSET Nat, T # {}
  PROVE  \E n \in T : \A m \in T : n <= m
<1>1. IsWellFoundedOn(Less, Nat)
  BY NatLessThanWellFounded DEF Less
<1>2. PICK n \in T : \A m \in T : ~(<<m, n>> \in Less)
  BY <1>1, WFMin, Zenon
<1>3. \A x, y \in Nat : <<x, y>> \in Less <=> x < y
  BY DEF Less, OpToRel
<1>4. \A m \in T : ~(m < n)
  BY <1>2, <1>3, Zenon
<1> QED BY <1>4

\* Induction up to a bound, over a set: the library's theorem takes an operator.
LEMMA UpTo ==
  ASSUME NEW L \in Nat, NEW T, 0 \in T, \A n \in 0..L : n # L /\ n \in T => n + 1 \in T
  PROVE  \A n \in 0..L : n \in T
<1>1. SUFFICES ASSUME (0..L) \ T # {} PROVE FALSE
  OBVIOUS
<1>2. PICK n \in (0..L) \ T : \A m \in (0..L) \ T : n <= m
  <2>1. (0..L) \ T \in SUBSET Nat
    OBVIOUS
  <2> QED BY <1>1, <2>1, LeastNumber
<1>3. n # 0 /\ n - 1 \in 0..L /\ n - 1 # L /\ ~(n <= n - 1) /\ (n - 1) + 1 = n
  BY <1>2
<1> QED BY <1>2, <1>3

\* The recursive function by which a sync filters the lane is defined for every length of
\* it, and appends tasks only.
LEMMA KeptIs ==
  ASSUME queue \in Seq(Tasks), NEW news
  PROVE  \E kept \in [0..Len(queue) -> Seq(Tasks)] :
           /\ Kept(news) = kept[Len(queue)]
           /\ \A n \in 1..Len(queue) :
                kept[n] = IF queue[n].kind \in news THEN kept[n - 1] ELSE Append(kept[n - 1], queue[n])
<1> DEFINE L == Len(queue)
           Step(s, n) == IF queue[n].kind \in news THEN s ELSE Append(s, queue[n])
           Good(f, k) == /\ f \in [0..k -> Seq(Tasks)]
                         /\ \A n \in 0..k : f[n] = IF n = 0 THEN <<>> ELSE Step(f[n - 1], n)
           kept == CHOOSE f : f = [n \in 0..L |-> IF n = 0 THEN <<>> ELSE Step(f[n - 1], n)]
<1>1. L \in Nat /\ \A n \in 1..L : queue[n] \in Tasks
  OBVIOUS
<1>2. \A s \in Seq(Tasks), n \in 1..L : Step(s, n) \in Seq(Tasks)
  BY <1>1
<1>3. Kept(news) = kept[L]
  BY DEF Kept
<1> HIDE DEF Step
<1>4. \E f : Good(f, 0)
  <2>1. Good([n \in 0..0 |-> <<>>], 0)
    OBVIOUS
  <2> QED BY <2>1
<1>5. ASSUME NEW k \in 0..L, k # L, \E f : Good(f, k)
      PROVE  \E f : Good(f, k + 1)
  <2>1. PICK f : Good(f, k)
    BY <1>5
  <2> DEFINE g == [n \in 0..(k + 1) |-> IF n = k + 1 THEN Step(f[k], k + 1) ELSE f[n]]
  <2>2. k \in 0..k /\ k + 1 \in 1..L
    BY <1>1, <1>5
  <2>3. f[k] \in Seq(Tasks)
    BY <2>1, <2>2
  <2>4. Step(f[k], k + 1) \in Seq(Tasks)
    BY <1>2, <2>2, <2>3
  <2>5. g \in [0..(k + 1) -> Seq(Tasks)]
    <3>1. \A n \in 0..(k + 1) : n # k + 1 => n \in 0..k
      OBVIOUS
    <3> QED BY <2>1, <2>4, <3>1
  <2>6. ASSUME NEW n \in 0..(k + 1)
        PROVE  g[n] = IF n = 0 THEN <<>> ELSE Step(g[n - 1], n)
    <3>1. CASE n = k + 1
      <4>1. n - 1 = k /\ k \in 0..(k + 1) /\ k # k + 1 /\ n # 0
        BY <3>1
      <4> QED BY <3>1, <4>1
    <3>2. CASE n # k + 1
      <4>1. n \in 0..k /\ (n # 0 => n - 1 \in 0..(k + 1) /\ n - 1 # k + 1)
        BY <3>2
      <4>2. f[n] = IF n = 0 THEN <<>> ELSE Step(f[n - 1], n)
        BY <2>1, <4>1
      <4> QED BY <3>2, <4>1, <4>2
    <3> QED BY <3>1, <3>2
  <2> HIDE DEF g
  <2>7. Good(g, k + 1)
    BY <2>5, <2>6
  <2> QED BY <2>7
<1>6. \E f : Good(f, L)
  <2> HIDE DEF Good
  <2> DEFINE T == {k \in 0..L : \E f : Good(f, k)}
  <2>1. 0 \in T
    BY <1>1, <1>4
  <2>2. \A n \in 0..L : n # L /\ n \in T => n + 1 \in T
    BY <1>1, <1>5
  <2> HIDE DEF T
  <2>3. \A n \in 0..L : n \in T
    BY <1>1, <2>1, <2>2, UpTo
  <2>4. L \in T
    BY <1>1, <2>3
  <2> QED BY <2>4 DEF T
<1>7. kept = [n \in 0..L |-> IF n = 0 THEN <<>> ELSE Step(kept[n - 1], n)]
  <2>1. PICK f : Good(f, L)
    BY <1>6
  <2>2. f = [n \in 0..L |-> IF n = 0 THEN <<>> ELSE Step(f[n - 1], n)]
    BY <2>1
  <2> QED BY <2>2
<1> HIDE DEF kept
<1>8. \A n \in 0..L : kept[n] \in Seq(Tasks)
  <2> DEFINE T == {n \in 0..L : kept[n] \in Seq(Tasks)}
  <2>1. 0 \in T
    <3>1. 0 \in 0..L
      BY <1>1
    <3>2. kept[0] = <<>>
      BY <1>7, <3>1
    <3>3. <<>> \in Seq(Tasks)
      OBVIOUS
    <3> QED BY <3>1, <3>2, <3>3
  <2>2. ASSUME NEW n \in 0..L, n # L, n \in T
        PROVE  n + 1 \in T
    <3>1. n + 1 \in 1..L /\ n + 1 \in 0..L /\ n + 1 # 0 /\ (n + 1) - 1 = n
      BY <1>1, <2>2
    <3>2. kept[n + 1] = Step(kept[n], n + 1)
      BY <1>7, <3>1
    <3> QED BY <1>2, <2>2, <3>1, <3>2
  <2> HIDE DEF T
  <2>3. \A n \in 0..L : n \in T
    BY <1>1, <2>1, <2>2, UpTo
  <2> QED BY <2>3 DEF T
<1>9. \A n \in 1..L : kept[n] = IF queue[n].kind \in news THEN kept[n - 1] ELSE Append(kept[n - 1], queue[n])
  <2>1. \A n \in 1..L : n \in 0..L /\ n # 0
    BY <1>1
  <2> QED BY <1>7, <2>1 DEF Step
<1>10. kept \in [0..L -> Seq(Tasks)]
  BY <1>7, <1>8
<1> QED BY <1>3, <1>9, <1>10

\* What is left of the lane are tasks, and every task about which there is no news.
LEMMA KeptKeeps ==
  ASSUME queue \in Seq(Tasks), NEW news
  PROVE  /\ Kept(news) \in Seq(Tasks)
         /\ \A n \in DOMAIN queue : queue[n].kind \notin news
              => \E i \in DOMAIN Kept(news) : Kept(news)[i] = queue[n]
<1> DEFINE L == Len(queue)
           Has(s, t) == \E i \in DOMAIN s : s[i] = t
<1>1. L \in Nat /\ \A n \in 1..L : queue[n] \in Tasks
  OBVIOUS
<1>2. PICK kept \in [0..L -> Seq(Tasks)] :
             /\ Kept(news) = kept[L]
             /\ \A n \in 1..L :
                  kept[n] = IF queue[n].kind \in news THEN kept[n - 1] ELSE Append(kept[n - 1], queue[n])
  BY KeptIs
<1>3. ASSUME NEW s \in Seq(Tasks), NEW u \in Tasks
      PROVE  Has(Append(s, u), u) /\ \A t : Has(s, t) => Has(Append(s, u), t)
  <2>1. Len(s) \in Nat /\ DOMAIN s = 1..Len(s) /\ DOMAIN Append(s, u) = 1..(Len(s) + 1)
    OBVIOUS
  <2>2. Append(s, u)[Len(s) + 1] = u /\ \A i \in 1..Len(s) : Append(s, u)[i] = s[i]
    OBVIOUS
  <2>3. Len(s) + 1 \in 1..(Len(s) + 1) /\ \A i \in 1..Len(s) : i \in 1..(Len(s) + 1)
    BY <2>1
  <2> QED BY <2>1, <2>2, <2>3
<1> HIDE DEF Has
<1> DEFINE T == {n \in 0..L : \A m \in 1..n : queue[m].kind \notin news => Has(kept[n], queue[m])}
<1>4. 0 \in T
  BY <1>1
<1>5. ASSUME NEW n \in 0..L, n # L, n \in T
      PROVE  n + 1 \in T
  <2>1. n + 1 \in 0..L /\ n + 1 \in 1..L /\ (n + 1) - 1 = n
    BY <1>1, <1>5
  <2>2. kept[n] \in Seq(Tasks) /\ queue[n + 1] \in Tasks
    BY <1>1, <1>2, <2>1
  <2>3. kept[n + 1] = IF queue[n + 1].kind \in news THEN kept[n] ELSE Append(kept[n], queue[n + 1])
    BY <1>2, <2>1
  <2>4. ASSUME NEW m \in 1..(n + 1), queue[m].kind \notin news
        PROVE  Has(kept[n + 1], queue[m])
    <3>1. CASE m = n + 1
      BY <1>3, <2>2, <2>3, <2>4, <3>1
    <3>2. CASE m # n + 1
      <4>1. m \in 1..n
        BY <3>2
      <4>2. Has(kept[n], queue[m])
        BY <1>5, <2>4, <4>1
      <4> QED BY <1>3, <2>2, <2>3, <4>2
    <3> QED BY <3>1, <3>2
  <2> QED BY <2>1, <2>4
<1> HIDE DEF T
<1>6. L \in T
  <2>1. \A n \in 0..L : n \in T
    BY <1>1, <1>4, <1>5, UpTo
  <2> QED BY <1>1, <2>1
<1>7. \A m \in 1..L : queue[m].kind \notin news => Has(Kept(news), queue[m])
  BY <1>2, <1>6 DEF T
<1>8. DOMAIN queue = 1..L
  OBVIOUS
<1>9. Kept(news) \in Seq(Tasks)
  BY <1>1, <1>2
<1> QED BY <1>7, <1>8, <1>9 DEF Has

\* The lane starts with an event.
LEMMA LaneInit == Init => LaneInv /\ SlipInv
<1> SUFFICES ASSUME Init PROVE LaneInv /\ SlipInv
  OBVIOUS
<1>1. Row("label") \in Tasks
  BY HeldRows DEF EventKinds
<1>2. queue \in Seq(Tasks)
  <2>1. <<Row("label")>> \in Seq(Tasks)
    BY <1>1
  <2> QED BY <2>1 DEF Init
<1>3. control = Idle /\ dir.kind \notin Proposals
  BY DEF Init, Proposals
<1>4. worker \in [pc: {"none", "pending", "looked", "running", "killed"}, wrote: BOOLEAN]
  BY DEF Init, NoJob
<1> QED BY <1>2, <1>3, <1>4 DEF Init, LaneInv, SlipInv

\* A sync leaves tasks in the lane, and adds events.
LEMMA QueuedIsLane == queue \in Seq(Tasks) => Queued(News) \in Seq(Tasks)
<1> SUFFICES ASSUME queue \in Seq(Tasks) PROVE Queued(News) \in Seq(Tasks)
  OBVIOUS
<1>1. Kept(News) \in Seq(Tasks)
  BY KeptKeeps
<1>2. ASSUME NEW k \in EventKinds
      PROVE  Told(k, News) \in Seq(Tasks)
  <2>1. Row(k) \in Tasks
    BY HeldRows
  <2>2. <<Row(k)>> \in Seq(Tasks) /\ <<>> \in Seq(Tasks)
    BY <2>1
  <2> QED BY <2>2 DEF Told
<1>3. /\ Told("label", News) \in Seq(Tasks) /\ Told("comment", News) \in Seq(Tasks)
      /\ Told("reaction", News) \in Seq(Tasks)
  BY <1>2 DEF EventKinds
<1>4. \A s, t \in Seq(Tasks) : s \o t \in Seq(Tasks)
  OBVIOUS
<1> QED BY <1>1, <1>3, <1>4, Zenon DEF Queued

\* Rows that change in place are rows of the same kinds.
LEMMA RowsInPlace ==
  ASSUME queue \in Seq(Tasks), ClosePost \/ DelayPasses
  PROVE  /\ queue' \in Seq(Tasks) /\ DOMAIN queue' = DOMAIN queue
         /\ \A i \in DOMAIN queue : queue'[i].kind = queue[i].kind
<1>0. \A i \in DOMAIN queue : queue[i] \in Tasks
  OBVIOUS
<1>1. CASE UNCHANGED queue
  BY <1>1
<1>2. ASSUME NEW i \in DOMAIN queue, queue' = [queue EXCEPT ![i].post = "closed"]
      PROVE  /\ queue' \in Seq(Tasks) /\ DOMAIN queue' = DOMAIN queue
             /\ \A j \in DOMAIN queue : queue'[j].kind = queue[j].kind
  <2> DEFINE row == [queue[i] EXCEPT !.post = "closed"]
  <2>1. row \in Tasks /\ row.kind = queue[i].kind
    BY <1>0 DEF Tasks, Posts
  <2>2. queue' = [queue EXCEPT ![i] = row]
    BY <1>2
  <2> HIDE DEF row
  <2> QED BY <2>1, <2>2
<1>3. ASSUME DelayPasses
      PROVE  /\ queue' \in Seq(Tasks) /\ DOMAIN queue' = DOMAIN queue
             /\ \A j \in DOMAIN queue : queue'[j].kind = queue[j].kind
  <2>1. \A i \in DOMAIN queue : /\ [queue[i] EXCEPT !.due = TRUE] \in Tasks
                                /\ [queue[i] EXCEPT !.due = TRUE].kind = queue[i].kind
    BY <1>0 DEF Tasks
  <2>2. queue' = [i \in DOMAIN queue |-> [queue[i] EXCEPT !.due = TRUE]]
    BY <1>3 DEF DelayPasses
  <2>3. DOMAIN queue = 1..Len(queue) /\ Len(queue) \in Nat
    OBVIOUS
  <2>4. DOMAIN queue' = DOMAIN queue /\ \A i \in DOMAIN queue : queue'[i] = [queue[i] EXCEPT !.due = TRUE]
    BY <2>2
  <2>5. queue' \in [1..Len(queue) -> Tasks]
    BY <2>1, <2>2, <2>3
  <2>6. queue' \in Seq(Tasks)
    BY <2>3, <2>5
  <2> QED BY <2>1, <2>4, <2>6
<1> QED BY <1>1, <1>2, <1>3 DEF ClosePost

\* What goes back to the lane, or comes to it, is a task.
LEMMA BackMoves ==
  ASSUME StateTypes, LaneInv, NEW row \in Tasks
  PROVE  /\ PutBack(row) => queue' \in Seq(Tasks)
         /\ \A kind \in RowKinds : Adds(kind) => queue' \in Seq(Tasks)
<1>0. queue \in Seq(Tasks)
  BY DEF LaneInv
<1>1. <<row>> \o queue \in Seq(Tasks)
  BY <1>0
<1>2. ASSUME NEW kind \in RowKinds, Adds(kind)
      PROVE  queue' \in Seq(Tasks)
  <2> DEFINE new == Row(kind)
  <2>1. new \in Tasks /\ queue' = Append(queue, new)
    BY <1>2, HeldRows DEF Adds
  <2> HIDE DEF new
  <2> QED BY <1>0, <2>1
<1> QED BY <1>1, <1>2 DEF PutBack

\* The lane keeps its types.
LEMMA QueueStep == LaneInv /\ StateTypes /\ [Next]_vars => queue' \in Seq(Tasks)
<1> SUFFICES ASSUME LaneInv, StateTypes, [Next]_vars PROVE queue' \in Seq(Tasks)
  OBVIOUS
<1>0. queue \in Seq(Tasks) /\ (control # Idle => control.task \in Tasks)
  BY DEF LaneInv
<1>1. \A i \in DOMAIN queue : Without(i) \in Seq(Tasks)
  BY <1>0 DEF Without
<1>2. \A row \in Tasks : PutBack(row) => queue' \in Seq(Tasks)
  BY BackMoves
<1>3. \A kind \in RowKinds : Adds(kind) => queue' \in Seq(Tasks)
  BY <1>0, BackMoves, HeldRows DEF EventKinds
<1>4. CASE Sync
  <2>1. queue' \in {<<>>, Queued(News)}
    BY <1>4 DEF Sync
  <2>2. <<>> \in Seq(Tasks) /\ Queued(News) \in Seq(Tasks)
    BY <1>0, QueuedIsLane
  <2> QED BY <2>1, <2>2, Zenon
<1>5. CASE TakeEvent \/ TakeResult \/ TakePropose \/ TakeScript
  <2>1. \A kinds, pc : Take(kinds, pc) => \E i \in DOMAIN queue : queue' = Without(i)
    BY DEF Take, Next1
  <2>2. \E i \in DOMAIN queue : queue' = Without(i)
    BY <1>5, <2>1, Zenon DEF TakeEvent, TakeResult, TakePropose, TakeScript
  <2> QED BY <1>1, <2>2
<1>6. CASE EnqueueApply
  BY <1>0, <1>3, <1>6 DEF EnqueueApply, RowKinds
<1>7. CASE FollowUp
  <2>1. {Row("propose"), Row("direct")} \subseteq Tasks
    BY HeldRows DEF RowKinds
  <2>2. <<Row("propose")>> \in Seq(Tasks) /\ <<Row("direct")>> \in Seq(Tasks) /\ <<>> \in Seq(Tasks)
    BY <2>1
  <2>3. Classify(dir.kind) \in Seq(Tasks)
    BY <2>2 DEF Classify
  <2> QED BY <1>0, <1>7, <2>3 DEF FollowUp
<1>8. CASE ScriptStopped \/ OnFailure \/ Crash
  <2>1. control.pc # "idle" => control.task \in Tasks
    BY <1>0 DEF Idle
  <2>2. \A post \in Posts : control.pc # "idle"
          => [[control.task EXCEPT !.post = post] EXCEPT !.due = FALSE] \in Tasks
    BY <2>1, HeldRows
  <2>3. CASE ScriptStopped
    BY <1>2, <2>1, <2>3 DEF ScriptStopped, Breaks
  <2>4. CASE OnFailure
    <3>1. control.pc # "idle"
      BY <2>4 DEF OnFailure
    <3>2. PICK post \in Posts :
                \/ queue' = queue
                \/ PutBack([[control.task EXCEPT !.post = post] EXCEPT !.due = FALSE])
      BY <2>4 DEF OnFailure
    <3> QED BY <1>0, <1>2, <2>2, <3>1, <3>2
  <2>5. CASE Crash
    BY <1>0, <1>2, <2>1, <2>5 DEF Crash
  <2> QED BY <1>8, <2>3, <2>4, <2>5
<1>9. CASE RunEnds
  BY <1>3, <1>9 DEF RunEnds, RowKinds
<1>10. CASE ClosePost \/ DelayPasses
  BY <1>0, <1>10, RowsInPlace
<1>11. CASE \/ Approve \/ Reject \/ Talk \/ CloseByHand
            \/ HandleEvent \/ GuardResolve \/ PromoteStaged \/ Unlabel \/ Label \/ CloseRequest
            \/ Propose \/ Park \/ ScriptRuns \/ ScriptFails \/ ScriptRaises
            \/ WorkLooks \/ ClaimRun \/ Writes \/ RunFails \/ UNCHANGED vars
  <2>1. queue' = queue
    BY <1>11 DEF Approve, Reject, Talk, CloseByHand, Acts, HandleEvent, GuardResolve,
       PromoteStaged, Unlabel, Label, CloseRequest, Propose, Park, ScriptRuns, ScriptFails, ScriptRaises,
       WorkLooks, ClaimRun, Writes, RunFails, vars
  <2> QED BY <1>0, <2>1
<1> QED BY <1>4, <1>5, <1>6, <1>7, <1>8, <1>9, <1>10, <1>11
    DEF Next, Control, Work, People, Script

\* The control thread carries a task of the lane.
LEMMA TaskStep == LaneInv /\ StateTypes /\ [Next]_vars => (control' # Idle => control'.task \in Tasks)
<1> DEFINE Goal == control' # Idle => control'.task \in Tasks
<1> SUFFICES ASSUME LaneInv, StateTypes, [Next]_vars PROVE Goal
  OBVIOUS
<1>0. /\ control # Idle => control.task \in Tasks
      /\ queue \in Seq(Tasks) /\ control \in Ctl
  BY DEF LaneInv, StateTypes
<1>1. ASSUME control.pc # "idle", control'.task = control.task
      PROVE  Goal
  BY <1>0, <1>1 DEF Idle
<1>2. ASSUME NEW kinds, NEW pc, Take(kinds, pc)
      PROVE  Goal
  <2>1. PICK i \in DOMAIN queue :
               control' = control \/ control' = [Idle EXCEPT !.pc = pc, !.task = Claimed(queue[i])]
    BY <1>2 DEF Take, Next1
  <2>2. Claimed(queue[i]) \in Tasks
    BY <1>0, HeldRows
  <2>3. control' = control \/ control'.task = Claimed(queue[i])
    BY <2>1 DEF Idle
  <2> QED BY <1>0, <2>2, <2>3
<1>3. CASE TakeEvent \/ TakeResult \/ TakePropose \/ TakeScript
  <2> HIDE DEF Goal
  <2> QED BY <1>2, <1>3 DEF TakeEvent, TakeResult, TakePropose, TakeScript
<1>4. CASE \/ HandleEvent \/ GuardResolve \/ PromoteStaged \/ Unlabel \/ Label \/ EnqueueApply
           \/ CloseRequest \/ FollowUp \/ Propose \/ Park \/ ScriptRuns \/ Script \/ OnFailure \/ Crash
  <2>1. \A pc : GoesTo(pc) => control'.task = control.task
    BY <1>0 DEF GoesTo, Ctl
  <2>2. control' = Idle \/ (control.pc # "idle" /\ control'.task = control.task)
    <3>1. CASE HandleEvent
      BY <1>0, <3>1 DEF HandleEvent, Ends, Ctl
    <3>2. CASE GuardResolve
      BY <1>0, <2>1, <3>2 DEF GuardResolve, Ends, Ctl
    <3>3. CASE ~HandleEvent /\ ~GuardResolve
      BY <1>4, <2>1, <3>3
         DEF PromoteStaged, Unlabel, Label, EnqueueApply, CloseRequest, FollowUp, Propose, Park, ScriptRuns,
             Script, ScriptStopped, ScriptFails, ScriptRaises, Breaks, OnFailure, Crash, Ends
    <3> QED BY <3>1, <3>2, <3>3
  <2> QED BY <1>1, <2>2
<1>5. CASE ClosePost
  <2>1. control.task.post = "open" => control # Idle
    BY DEF Idle, Row
  <2>2. ASSUME control # Idle PROVE [control EXCEPT !.task.post = "closed"].task \in Tasks
    <3>1. [control EXCEPT !.task.post = "closed"].task = [control.task EXCEPT !.post = "closed"]
      BY <1>0 DEF Ctl
    <3>2. control.task \in Tasks /\ "closed" \in Posts
      BY <1>0, <2>2 DEF Posts
    <3> QED BY <3>1, <3>2, HeldRows
  <2> QED BY <1>0, <1>5, <2>1, <2>2 DEF ClosePost
<1>6. CASE \/ Approve \/ Reject \/ Talk \/ CloseByHand \/ Sync \/ DelayPasses \/ WorkLooks \/ ClaimRun
           \/ RunEnds \/ Writes \/ RunFails \/ UNCHANGED vars
  <2>1. control' = control
    BY <1>6 DEF Approve, Reject, Talk, CloseByHand, Acts, Sync, DelayPasses, WorkLooks,
       ClaimRun, RunEnds, Writes, RunFails, vars
  <2> QED BY <1>0, <2>1
<1> HIDE DEF Goal
<1> QED BY <1>3, <1>4, <1>5, <1>6 DEF Next, Control, Work, People

\* The worker's job keeps its type.
LEMMA WorkerStep ==
  LaneInv /\ [Next]_vars
    => worker' \in [pc: {"none", "pending", "looked", "running", "killed"}, wrote: BOOLEAN]
<1> DEFINE Jobs == [pc: {"none", "pending", "looked", "running", "killed"}, wrote: BOOLEAN]
<1> SUFFICES ASSUME LaneInv, [Next]_vars PROVE worker' \in Jobs
  OBVIOUS
<1>1. worker \in Jobs
  BY DEF LaneInv
<1>2. \A pc \in {"looked", "killed"} : [worker EXCEPT !.pc = pc] \in Jobs
  BY <1>1
<1>3. \A pc \in {"pending", "running"} : [NoJob EXCEPT !.pc = pc] \in Jobs
  BY DEF NoJob
<1>4. [worker EXCEPT !.wrote = TRUE] \in Jobs /\ NoJob \in Jobs
  BY <1>1 DEF NoJob
<1> HIDE DEF Jobs
<1>5. CASE Sync
  BY <1>1, <1>2, <1>4, <1>5 DEF Sync
<1>6. CASE HandleEvent
  BY <1>1, <1>3, <1>6 DEF HandleEvent
<1>7. CASE WorkLooks \/ ClaimRun \/ RunEnds \/ Writes \/ RunFails \/ Crash
  BY <1>2, <1>3, <1>4, <1>7 DEF WorkLooks, ClaimRun, RunEnds, Writes, RunFails, Crash
<1>8. CASE People \/ TakeEvent \/ TakeResult \/ TakePropose \/ TakeScript \/ DelayPasses \/ UNCHANGED vars
  <2>1. worker' = worker
    BY <1>8 DEF People, Approve, Reject, Talk, CloseByHand, ClosePost, Acts, TakeEvent,
       TakeResult, TakePropose, TakeScript, Take, DelayPasses, vars
  <2> QED BY <1>1, <2>1
<1>9. CASE \/ GuardResolve \/ PromoteStaged \/ Unlabel \/ Label \/ EnqueueApply \/ CloseRequest \/ FollowUp
           \/ Propose \/ Park \/ ScriptRuns \/ Script \/ OnFailure
  <2>1. worker' = worker
    BY <1>9 DEF GuardResolve, PromoteStaged, Unlabel, Label, EnqueueApply, CloseRequest, FollowUp,
       Propose, Park, ScriptRuns, Script, ScriptStopped, ScriptFails, ScriptRaises, Breaks, OnFailure
  <2> QED BY <1>1, <2>1
<1> QED BY <1>5, <1>6, <1>7, <1>8, <1>9 DEF Next, Control, Work

\* The plans that were promoted, carried out, approved or refused are plans.
LEMMA PlanStep ==
  LaneInv /\ StateTypes /\ ParkInv /\ [Next]_vars
    => /\ dir'.kind \in Proposals => dir'.plan \in Plans
       /\ live' \subseteq Plans /\ created' \subseteq Plans
       /\ approved' \subseteq Plans /\ refused' \subseteq Plans
<1> SUFFICES ASSUME LaneInv, StateTypes, ParkInv, [Next]_vars
             PROVE  /\ dir'.kind \in Proposals => dir'.plan \in Plans
                    /\ live' \subseteq Plans /\ created' \subseteq Plans
                    /\ approved' \subseteq Plans /\ refused' \subseteq Plans
  OBVIOUS
<1>0. /\ dir.kind \in Proposals => dir.plan \in Plans
      /\ live \subseteq Plans /\ created \subseteq Plans
      /\ approved \subseteq Plans /\ refused \subseteq Plans
  BY DEF LaneInv
<1>1. remote.last # 0 => remote.last \in Plans
  BY RequestParts
<1>2. dir'.kind \in Proposals => dir'.plan \in Plans
  <2>1. CASE Writes
    <3>1. CASE Spend("plans") /\ \E kind \in Proposals :
                 dir' = [plan |-> MaxPlans - budget.plans + 1, kind |-> kind]
      <4>1. budget.plans \in Nat /\ budget.plans > 0 /\ budget.plans <= MaxPlans /\ MaxPlans \in Nat
        BY <3>1, SpecChangeAssumption DEF Spend, StateTypes
      <4>2. MaxPlans - budget.plans + 1 \in Plans
        BY <4>1 DEF Plans
      <4> QED BY <3>1, <4>2
    <3>2. CASE dir' = [plan |-> 0, kind |-> "question"]
      BY <3>2 DEF Proposals
    <3> QED BY <2>1, <3>1, <3>2 DEF Writes
  <2> QED BY <1>0, <2>1, FileMoves
<1>3. live' \subseteq Plans
  <2>1. CASE PromoteStaged
    BY <1>0, <2>1 DEF PromoteStaged
  <2> QED BY <1>0, <2>1, FileMoves
<1>4. created' \subseteq Plans
  <2>1. CASE ScriptRuns \/ Script
    BY <1>0, <2>1 DEF ScriptRuns, Script, ScriptStopped, ScriptFails, ScriptRaises, Breaks, Proposals
  <2> QED BY <1>0, <2>1, FileMoves
<1>5. approved' \subseteq Plans
  <2>1. CASE Approve
    BY <1>0, <1>1, <2>1 DEF Approve
  <2> QED BY <1>0, <2>1, FileMoves
<1>6. refused' \subseteq Plans
  <2>1. CASE Label
    <3>1. remote.last \in Plans
      BY <1>1, <2>1, LabelingMoves DEF ParkInv, Resolving
    <3> QED BY <1>0, <2>1, <3>1, LabelingMoves
  <2>2. CASE EnqueueApply
    BY <1>0, <2>2 DEF EnqueueApply
  <2> QED BY <1>0, <2>1, <2>2, OtherMoves
<1> QED BY <1>2, <1>3, <1>4, <1>5, <1>6

\* The slips on record keep their types.
LEMMA SlipStep == SlipInv /\ LaneInv /\ StateTypes /\ ParkInv /\ [Next]_vars => SlipInv'
<1> SUFFICES ASSUME SlipInv, LaneInv, StateTypes, ParkInv, [Next]_vars PROVE SlipInv'
  OBVIOUS
<1> DEFINE Slips == [tries: Nat, post: Posts, fatal: BOOLEAN]
<1>0. /\ dropped \subseteq Slips /\ unmarked \subseteq Plans /\ unclosed \in BOOLEAN
      /\ queue \in Seq(Tasks) /\ (control # Idle => control.task \in Tasks)
  BY DEF SlipInv, LaneInv
<1>1. \A row \in Tasks, b \in BOOLEAN : LetGo(row, b) => dropped' \subseteq Slips
  BY <1>0 DEF LetGo, Tasks
<1>2. dropped' \subseteq Slips
  <2>1. CASE OnFailure
    <3>1. control.pc # "idle" /\ (control.pc = "raised") \in BOOLEAN
      BY <2>1 DEF OnFailure
    <3>2. PICK post \in Posts : \/ dropped' = dropped
                               \/ LetGo([control.task EXCEPT !.post = post], control.pc = "raised")
      BY <2>1 DEF OnFailure
    <3>3. [control.task EXCEPT !.post = post] \in Tasks
      BY <1>0, <3>1, HeldRows DEF Idle
    <3> HIDE DEF Slips
    <3> QED BY <1>0, <1>1, <3>1, <3>2, <3>3
  <2>2. ASSUME NEW kinds, NEW pc, Take(kinds, pc) PROVE dropped' \subseteq Slips
    <3>1. PICK i \in DOMAIN queue : dropped' = dropped \/ LetGo(queue[i], FALSE)
      BY <2>2 DEF Take, Next1
    <3>2. queue[i] \in Tasks
      BY <1>0
    <3> HIDE DEF Slips
    <3> QED BY <1>0, <1>1, <3>1, <3>2
  <2> HIDE DEF Slips
  <2>3. CASE TakeEvent \/ TakeResult \/ TakePropose \/ TakeScript
    BY <2>2, <2>3 DEF TakeEvent, TakeResult, TakePropose, TakeScript
  <2> QED BY <1>0, <2>1, <2>3, FileMoves
<1>3. unmarked' \subseteq Plans
  <2>1. remote.last \in {0} \cup Plans
    BY RequestParts
  <2>2. CASE Propose
    BY <1>0, <2>1, <2>2, ProposeMoves
  <2>3. CASE Unlabel
    <3>1. remote.last \in Plans
      BY <2>1, <2>3, UnlabelMoves DEF ParkInv, Resolving
    <3> QED BY <1>0, <2>3, <3>1, UnlabelMoves
  <2>4. CASE Label
    <3>1. remote.last \in Plans
      BY <2>1, <2>4, LabelingMoves DEF ParkInv, Resolving
    <3> QED BY <1>0, <2>4, <3>1, LabelingMoves
  <2> QED BY <1>0, <2>2, <2>3, <2>4, OtherMoves
<1>4. unclosed' \in BOOLEAN
  <2>1. CASE CloseRequest
    BY <1>0, <2>1 DEF CloseRequest
  <2> QED BY <1>0, <2>1, FileMoves
<1> QED BY <1>2, <1>3, <1>4 DEF SlipInv, Posts

\* Every step keeps the lane and what refers to it.
LEMMA LaneStep == LaneInv /\ StateTypes /\ ParkInv /\ [Next]_vars => LaneInv'
<1> SUFFICES ASSUME LaneInv, StateTypes, ParkInv, [Next]_vars PROVE LaneInv'
  OBVIOUS
<1>1. Idle' = Idle /\ Tasks' = Tasks /\ Proposals' = Proposals /\ Plans' = Plans
  BY DEF Idle, Row, Tasks, Posts, RowKinds, EventKinds, Proposals, Plans
<1> QED BY <1>1, QueueStep, TaskStep, WorkerStep, PlanStep DEF LaneInv

----------------------------------------------------------------------------
(* The parts of the inductive invariant *)

\* Nothing is asked, parked or decided at the start.
LEMMA PartsInit == Init => AskInv /\ ParkInv /\ DecideInv
  BY DEF Init, AskInv, ParkInv, DecideInv, Asking, Resolving, LastDecided, Decided, Many, Idle, Plans, Terminal

\* How the labels, the plans asked about and the latest of them change, by the step.
LEMMA LabelMoves ==
  ASSUME StateTypes, [Next]_vars
  PROVE  \/ /\ remote'.labels = remote.labels /\ remote'.asks = remote.asks
            /\ remote'.last = remote.last
         \/ /\ Propose /\ remote'.labels = remote.labels
            /\ dir.plan \in Plans \ remote.asks
            /\ remote'.asks = remote.asks \cup {dir.plan} /\ remote'.last = dir.plan
         \/ /\ remote'.asks = remote.asks /\ remote'.last = remote.last
            /\ Unlabel \/ Label \/ ScriptRuns \/ Park
<1>1. CASE People
  BY <1>1, PeopleMoves
<1>2. CASE Propose
  BY <1>2, ProposeMoves
<1>3. CASE Unlabel \/ Label
  BY <1>3, UnlabelMoves, LabelingMoves
<1>4. CASE ScriptRuns \/ Park
  BY <1>4, ScriptMoves, ParkMoves
<1>5. CASE CloseRequest
  BY <1>5, OtherMoves
<1> QED BY <1>1, <1>2, <1>3, <1>4, <1>5, OtherMoves

\* Every step keeps what is asked.
LEMMA AskStep == StateTypes /\ AskInv /\ [Next]_vars => AskInv'
<1> SUFFICES ASSUME StateTypes, AskInv, [Next]_vars PROVE AskInv'
  OBVIOUS
<1>0. posted \in [Plans -> Nat]
  BY DEF StateTypes
<1>1. CASE Propose /\ dir.plan \in Plans \ remote.asks
           /\ remote'.asks = remote.asks \cup {dir.plan} /\ remote'.last = dir.plan
  <2>1. posted' = posted \/ posted' = [posted EXCEPT ![dir.plan] = posted[dir.plan] + 1]
    BY <1>1, ProposeMoves
  <2>2. posted[dir.plan] = 0 /\ posted[dir.plan] + 1 = 1
    BY <1>0, <1>1 DEF AskInv
  <2>3. posted' = posted \/ posted' = [posted EXCEPT ![dir.plan] = 1]
    BY <2>1, <2>2
  <2> QED BY <1>0, <1>1, <2>3 DEF AskInv
<1>2. CASE remote'.asks = remote.asks /\ remote'.last = remote.last
  <2>1. posted' = posted
    <3>1. CASE Propose
      <4>1. ~(dir.plan \in Plans \ remote.asks /\ remote'.asks = remote.asks \cup {dir.plan})
        BY <1>2
      <4> QED BY <3>1, <4>1, ProposeMoves
    <3> QED BY <3>1, OtherMoves
  <2> QED BY <1>2, <2>1 DEF AskInv
<1> QED BY <1>1, <1>2, LabelMoves

\* What is asked stays asked, and a reaction is one to something.
LEMMA AskingMoves ==
  ASSUME StateTypes, ParkInv, [Next]_vars
  PROVE  Asking(remote)' /\ (remote.last # 0 => remote'.last # 0)
<1>1. Asking(remote)
  BY DEF ParkInv
<1>2. CASE People
  BY <1>1, <1>2, PeopleMoves DEF Asking
<1>3. CASE Propose
  BY <1>1, <1>3, ProposeMoves, RequestParts DEF Asking
<1>4. CASE Unlabel \/ Label
  BY <1>1, <1>4, UnlabelMoves, LabelingMoves DEF Asking
<1>5. CASE ScriptRuns \/ Park
  BY <1>1, <1>5, ScriptMoves, ParkMoves DEF Asking
<1>6. CASE CloseRequest
  BY <1>1, <1>6, OtherMoves DEF Asking
<1>7. CASE remote' = remote
  BY <1>1, <1>7 DEF Asking
<1> QED BY <1>2, <1>3, <1>4, <1>5, <1>6, <1>7, OtherMoves

\* Every step keeps what is parked.
LEMMA ParkStep == StateTypes /\ ParkInv /\ [Next]_vars => ParkInv'
<1> SUFFICES ASSUME StateTypes, ParkInv, [Next]_vars PROVE ParkInv'
  OBVIOUS
<1>1. Asking(remote)' /\ (remote.last # 0 => remote'.last # 0)
  BY AskingMoves
<1>2. Asking(mirror)' /\ (mirror'.last # 0 => remote'.last # 0)
  <2>1. CASE mirror' = mirror
    BY <1>1, <2>1 DEF ParkInv, Asking
  <2>2. CASE mirror' = remote
    BY <1>1, <2>2 DEF ParkInv, Asking
  <2> QED BY <2>1, <2>2, OtherMoves
<1>3. ASSUME control'.pc \in Resolving
      PROVE  remote'.last # 0 /\ "awaiting_approval" \in mirror'.labels
  <2>1. mirror' = mirror
    BY <1>3, OtherMoves DEF Resolving, Idle
  <2>2. CASE control.pc \in Resolving
    BY <1>1, <2>1, <2>2 DEF ParkInv
  <2>3. CASE control.pc \notin Resolving
    <3>1. control'.pc # control.pc
      BY <1>3, <2>3
    <3>2. /\ Unlabel => control.pc \in Resolving
          /\ Label => control.pc \in Resolving
          /\ GuardResolve => control.pc \in Resolving
      BY DEF Unlabel, Label, GuardResolve, Resolving
    <3>3. control'.pc = "guard"
      BY <1>3, <2>3, <3>1, <3>2, ControlMoves DEF Resolving
    <3>4. /\ "awaiting_approval" \in mirror.labels
          /\ ApprovedBy(mirror) \/ RejectedBy(mirror)
      BY <3>1, <3>3, ControlMoves
    <3>5. mirror.last # 0
      BY <3>4 DEF ApprovedBy, RejectedBy, ParkInv, Asking
    <3> QED BY <1>1, <2>1, <3>4, <3>5 DEF ParkInv
  <2> QED BY <2>2, <2>3
<1> QED BY <1>1, <1>2, <1>3 DEF ParkInv, Asking

\* A plan is decided by the step that labels the request rejected or enqueues the script,
\* and it is the one asked about last.
LEMMA DecisionMoves ==
  ASSUME StateTypes, ParkInv, [Next]_vars,
         NEW p \in Plans, finals'[p] # finals[p] \/ p \in refused' \ refused
  PROVE  /\ p = remote.last /\ remote'.last = remote.last
         /\ \/ Label /\ control.pc = "label" /\ ~control.yes
            \/ EnqueueApply /\ control.pc = "enqueue" /\ remote' = remote
<1>1. CASE Label
  BY <1>1, LabelingMoves
<1>2. CASE EnqueueApply
  <2>1. remote' = remote /\ refused' = refused /\ control.pc = "enqueue"
    BY <1>2 DEF EnqueueApply, tracker
  <2>2. remote.last \in Plans /\ finals \in [Plans -> Nat]
    BY <2>1, RequestParts DEF ParkInv, Resolving, StateTypes
  <2>3. finals' = finals \/ finals' = [finals EXCEPT ![remote.last] = finals[remote.last] + 1]
    BY <1>2 DEF EnqueueApply
  <2> QED BY <1>2, <2>1, <2>2, <2>3
<1> QED BY <1>1, <1>2, OtherMoves

\* Away from these two steps and from a new plan, what the latest plan is, and whether it
\* is decided, stays.
LEMMA LastMoves ==
  ASSUME StateTypes, AskInv, DecideInv, ParkInv, [Next]_vars, LastDecided'
  PROVE  /\ remote'.last = remote.last
         /\ \/ LastDecided
            \/ Label /\ control.pc = "label" /\ ~control.yes
            \/ EnqueueApply /\ control.pc = "enqueue" /\ remote' = remote
<1> DEFINE q == remote'.last
<1>0. q \in Plans /\ (finals'[q] > 0 \/ q \in refused')
  BY DEF LastDecided, Decided
<1>1. remote'.last = remote.last
  <2>1. CASE Propose /\ dir.plan \in Plans \ remote.asks /\ remote'.last = dir.plan
    <3>1. ~Decided(q)
      BY <2>1 DEF DecideInv
    <3>2. ~Label /\ ~EnqueueApply
      BY <2>1 DEF Propose, Label, EnqueueApply
    <3>3. refused' = refused /\ finals' = finals
      BY <3>2, OtherMoves
    <3> QED BY <1>0, <3>1, <3>3 DEF Decided
  <2> QED BY <2>1, LabelMoves
<1>2. CASE finals'[q] = finals[q] /\ q \notin refused' \ refused
  BY <1>0, <1>1, <1>2 DEF LastDecided, Decided
<1>3. CASE finals'[q] # finals[q] \/ q \in refused' \ refused
  BY <1>0, <1>1, <1>3, DecisionMoves
<1> QED BY <1>1, <1>2, <1>3

\* What is unmarked stays so; and a step with which the latest plan changes is a proposal.
LEMMA UnmarkedMoves ==
  ASSUME StateTypes, [Next]_vars
  PROVE  unmarked \subseteq unmarked'
         /\ (remote'.last = remote.last /\ LastUnmarked => LastUnmarked')
<1>1. unmarked \subseteq unmarked'
  <2>1. CASE Propose
    BY <2>1, ProposeMoves
  <2>2. CASE Unlabel
    BY <2>2, UnlabelMoves
  <2>3. CASE Label
    BY <2>3, LabelingMoves
  <2> QED BY <2>1, <2>2, <2>3, OtherMoves
<1> QED BY <1>1 DEF LastUnmarked

\* While the control thread decides, the request keeps its labels but for its own writes.
LEMMA DecidingMoves ==
  ASSUME StateTypes, [Next]_vars, control.pc \in Resolving
  PROVE  /\ mirror' = mirror /\ remote'.last = remote.last
         /\ control.pc \notin {"relabel", "label"} => remote'.labels = remote.labels
         /\ Unlabel \/ Label \/ remote'.labels = remote.labels
         /\ Unlabel => control.pc = "relabel"
         /\ Label => control.pc = "label" /\ control'.pc \in {"enqueue", "close"}
         /\ EnqueueApply => control.pc = "enqueue" /\ control'.pc \in {"idle", "close"}
<1>0. control # Idle /\ control \in Ctl
  BY DEF Resolving, Idle, StateTypes
<1>1. ~Propose /\ ~ScriptRuns /\ ~Park
  BY DEF Propose, ScriptRuns, Park, Resolving
<1>2. mirror' = mirror
  BY <1>0, OtherMoves
<1>3. /\ Unlabel => control.pc = "relabel"
      /\ Label => control.pc = "label" /\ control'.pc \in {"enqueue", "close"}
  BY UnlabelMoves, LabelingMoves
<1>4. EnqueueApply => control.pc = "enqueue" /\ control'.pc \in {"idle", "close"}
  BY <1>0 DEF EnqueueApply, GoesTo, Ends, Idle, Ctl
<1> QED BY <1>1, <1>2, <1>3, <1>4, LabelMoves

\* Every step keeps what is decided, part by part.  First: it was asked about.
LEMMA DecidedWasAsked ==
  StateTypes /\ AskInv /\ ParkInv /\ DecideInv /\ [Next]_vars
    => \A p \in Plans : Decided(p)' => p \in remote'.asks
<1> SUFFICES ASSUME StateTypes, AskInv, ParkInv, DecideInv, [Next]_vars,
                    NEW p \in Plans, finals'[p] > 0 \/ p \in refused'
             PROVE  p \in remote'.asks
  BY DEF Decided
<1>1. remote.asks \subseteq remote'.asks
  BY LabelMoves
<1>2. CASE finals'[p] # finals[p] \/ p \in refused' \ refused
  <2>1. p = remote.last /\ p # 0
    BY <1>2, DecisionMoves, RequestParts
  <2> QED BY <1>1, <2>1 DEF AskInv
<1>3. CASE finals'[p] = finals[p] /\ p \notin refused' \ refused
  BY <1>1, <1>3 DEF DecideInv, Decided
<1> QED BY <1>2, <1>3

\* The latest plan, decided, leaves a terminal label.
LEMMA DecidedShows ==
  StateTypes /\ AskInv /\ ParkInv /\ DecideInv /\ [Next]_vars
    => (LastDecided' => Terminal \cap remote'.labels # {} \/ LastUnmarked')
<1> SUFFICES ASSUME StateTypes, AskInv, ParkInv, DecideInv, [Next]_vars, LastDecided', ~LastUnmarked'
             PROVE  Terminal \cap remote'.labels # {}
  OBVIOUS
<1>0. remote'.last = remote.last /\ ~LastUnmarked
  BY LastMoves, UnmarkedMoves
<1>1. CASE Label /\ ~control.yes
  BY <1>0, <1>1, LabelingMoves DEF Terminal, LastUnmarked
<1>2. CASE EnqueueApply /\ control.pc = "enqueue" /\ remote' = remote
  BY <1>0, <1>2 DEF DecideInv, Terminal
<1>3. CASE LastDecided
  <2>1. Terminal \cap remote.labels # {} /\ control.pc # "park"
    BY <1>0, <1>3 DEF DecideInv
  <2>2. CASE Unlabel
    BY <1>0, <2>1, <2>2, UnlabelMoves DEF LastUnmarked
  <2>3. CASE Label
    BY <1>0, <2>1, <2>3, LabelingMoves DEF LastUnmarked
  <2>4. CASE ScriptRuns
    BY <2>1, <2>4, ScriptMoves
  <2>5. ~Park
    BY <2>1 DEF Park
  <2> QED BY <2>1, <2>2, <2>3, <2>4, <2>5, LabelMoves
<1> QED BY <1>1, <1>2, <1>3, LastMoves

\* A request is parked for a new plan, or its labels no longer show the decision.
LEMMA ParkedUndecided ==
  StateTypes /\ AskInv /\ ParkInv /\ DecideInv /\ [Next]_vars
    => (control'.pc = "park" => ~LastDecided' \/ LastUnmarked')
<1> SUFFICES ASSUME StateTypes, AskInv, ParkInv, DecideInv, [Next]_vars, control'.pc = "park", LastDecided'
             PROVE  LastUnmarked'
  OBVIOUS
<1>0. remote'.last = remote.last /\ remote.last \in Plans
  BY LastMoves DEF LastDecided
<1>1. CASE control'.pc # control.pc
  <2>1. Propose
    BY <1>1, ControlMoves
  <2>2. ~(dir.plan \in Plans \ remote.asks /\ remote'.last = dir.plan)
    BY <1>0, RequestParts DEF AskInv
  <2>3. unmarked' = unmarked \cup ({remote.last} \ {0})
    BY <2>1, <2>2, ProposeMoves
  <2> QED BY <1>0, <2>3, RequestParts DEF LastUnmarked
<1>2. CASE control'.pc = control.pc
  <2>1. LastDecided
    BY <1>2, LastMoves
  <2> QED BY <1>0, <1>2, <2>1, UnmarkedMoves DEF DecideInv
<1> QED BY <1>1, <1>2

\* The script is enqueued after the request was labelled done.
LEMMA EnqueuedIsDone ==
  StateTypes /\ AskInv /\ ParkInv /\ DecideInv /\ [Next]_vars
    => (control'.pc = "enqueue" => "done" \in remote'.labels \/ LastUnmarked')
<1> SUFFICES ASSUME StateTypes, AskInv, ParkInv, DecideInv, [Next]_vars, control'.pc = "enqueue"
             PROVE  "done" \in remote'.labels \/ LastUnmarked'
  OBVIOUS
<1>1. CASE control'.pc # control.pc
  <2>1. Label
    BY <1>1, ControlMoves
  <2> QED BY <2>1, LabelingMoves DEF LastUnmarked
<1>2. CASE control'.pc = control.pc
  BY <1>2, DecidingMoves, UnmarkedMoves DEF DecideInv, Resolving
<1> QED BY <1>1, <1>2

\* The guard lets a decided plan pass when it read a second label, or nothing.
LEMMA GuardMisled ==
  StateTypes /\ AskInv /\ ParkInv /\ DecideInv /\ [Next]_vars
    => (control'.pc \in {"promote", "relabel"}
          => ~LastDecided' \/ Many(remote'.labels) \/ control'.blind \/ LastUnmarked')
<1> SUFFICES ASSUME StateTypes, AskInv, ParkInv, DecideInv, [Next]_vars,
                    control'.pc \in {"promote", "relabel"}, LastDecided', ~control'.blind, ~LastUnmarked'
             PROVE  Many(remote'.labels)
  OBVIOUS
<1>0. remote'.last = remote.last /\ ~LastUnmarked
  BY LastMoves, UnmarkedMoves
<1>1. CASE control'.pc = control.pc /\ control'.blind = control.blind
  <2>1. control.pc \in Resolving /\ ~Label /\ ~EnqueueApply /\ ~Unlabel
    BY <1>1, DecidingMoves, UnlabelMoves DEF Resolving
  <2>2. LastDecided /\ remote'.labels = remote.labels
    BY <2>1, LastMoves, DecidingMoves
  <2> QED BY <1>0, <1>1, <2>2 DEF DecideInv
<1>2. CASE PromoteStaged /\ control.pc = "promote" /\ control'.blind = control.blind
  <2>1. remote' = remote /\ refused' = refused /\ finals' = finals
    BY <1>2 DEF PromoteStaged, tracker, history
  <2>2. LastDecided
    BY <2>1 DEF LastDecided, Decided
  <2> QED BY <1>0, <1>2, <2>1, <2>2 DEF DecideInv
<1>3. CASE GuardResolve /\ \E status \in Readings(remote) : status \notin Terminal
  <2>1. remote' = remote /\ refused' = refused /\ finals' = finals
    BY <1>3 DEF GuardResolve, tracker, history
  <2>2. LastDecided
    BY <2>1 DEF LastDecided, Decided
  <2>3. PICK t \in remote.labels : t \in Terminal
    BY <1>0, <2>2 DEF DecideInv
  <2>4. PICK status \in remote.labels : status \notin Terminal
    BY <1>3, <2>3 DEF Readings
  <2> QED BY <2>1, <2>3, <2>4 DEF Many
<1> QED BY <1>1, <1>2, <1>3, ControlMoves

\* Whoever then writes the label meets two labels still.
LEMMA DecisionMisled ==
  StateTypes /\ AskInv /\ ParkInv /\ DecideInv /\ [Next]_vars
    => (control'.pc \in {"label", "enqueue"}
          => ~LastDecided' \/ ManyLabels' \/ control'.blind \/ LastUnmarked')
<1> SUFFICES ASSUME StateTypes, AskInv, ParkInv, DecideInv, [Next]_vars,
                    control'.pc \in {"label", "enqueue"}, LastDecided', ~control'.blind, ~LastUnmarked'
             PROVE  Many(remote'.labels) \/ Many(mirror'.labels)
  BY DEF ManyLabels
<1>0. remote'.last = remote.last /\ ~LastUnmarked
  BY LastMoves, UnmarkedMoves
<1>1. CASE control'.pc = control.pc /\ control'.blind = control.blind
  <2>1. control.pc \in Resolving /\ ~Label /\ ~EnqueueApply /\ ~Unlabel
    BY <1>1, DecidingMoves, UnlabelMoves DEF Resolving
  <2>2. LastDecided /\ remote'.labels = remote.labels /\ mirror' = mirror
    BY <2>1, LastMoves, DecidingMoves
  <2> QED BY <1>0, <1>1, <2>2 DEF DecideInv, ManyLabels
<1>2. CASE Unlabel
  <2>1. control.pc = "relabel" /\ control'.blind = control.blind
    BY <1>2, UnlabelMoves
  <2>2. LastDecided /\ mirror' = mirror
    BY <2>1, LastMoves, DecidingMoves DEF Resolving
  <2>3. /\ Many(remote.labels) /\ Terminal \cap remote.labels # {}
        /\ "awaiting_approval" \in mirror.labels
    BY <1>0, <2>1, <2>2 DEF DecideInv, ParkInv, Resolving
  <2>4. ASSUME ~Many(mirror.labels) PROVE Many(remote'.labels)
    <3>1. mirror.labels = {"awaiting_approval"}
      BY <2>3, <2>4 DEF Many
    <3>2. "awaiting_approval" \notin remote.labels
      BY <1>0, <2>2, <3>1 DEF DecideInv
    <3>3. remote'.labels = remote.labels
      BY <1>2, <3>1, <3>2, UnlabelMoves DEF Readings
    <3> QED BY <2>3, <3>3 DEF Many
  <2> QED BY <2>2, <2>4
<1>3. CASE Label
  <2>1. control.pc = "label" /\ control'.blind = control.blind /\ control.yes
    BY <1>3, LabelingMoves
  <2>2. LastDecided /\ mirror' = mirror
    BY <2>1, LastMoves, DecidingMoves DEF Resolving
  <2>3. Many(remote.labels) \/ Many(mirror.labels)
    BY <1>0, <2>1, <2>2 DEF DecideInv, ManyLabels
  <2>4. remote.labels \subseteq remote'.labels
    BY <1>3, LabelingMoves
  <2> QED BY <2>2, <2>3, <2>4 DEF Many
<1> QED BY <1>1, <1>2, <1>3, ControlMoves

\* What the mirror still calls awaiting approval, and is decided, is so no longer.
LEMMA MirrorMisled ==
  StateTypes /\ AskInv /\ ParkInv /\ DecideInv /\ [Next]_vars
    => (mirror'.labels = {"awaiting_approval"} /\ (LastDecided' \/ control'.pc \in {"label", "enqueue"})
          => "awaiting_approval" \notin remote'.labels \/ LastUnmarked')
<1> SUFFICES ASSUME StateTypes, AskInv, ParkInv, DecideInv, [Next]_vars,
                    mirror'.labels = {"awaiting_approval"},
                    LastDecided' \/ control'.pc \in {"label", "enqueue"}, ~LastUnmarked'
             PROVE  "awaiting_approval" \notin remote'.labels
  OBVIOUS
<1>1. CASE mirror' = remote /\ remote' = remote /\ control' = control /\ control = Idle
  <2>1. LastDecided' /\ ~LastUnmarked
    BY <1>1, UnmarkedMoves DEF Idle
  <2>2. ~Label /\ ~EnqueueApply
    BY <1>1 DEF Label, EnqueueApply, Idle
  <2>3. LastDecided
    BY <2>1, <2>2, LastMoves
  <2>4. Terminal \cap remote.labels # {}
    BY <2>1, <2>3 DEF DecideInv
  <2> QED BY <1>1, <2>4 DEF Terminal
<1>2. CASE mirror' = mirror /\ Unlabel
  BY <1>2, UnlabelMoves DEF Readings, LastUnmarked
<1>3. CASE mirror' = mirror /\ ~Unlabel
  <2>1. remote'.last = remote.last
    <3>1. CASE LastDecided'
      BY <3>1, LastMoves
    <3>2. CASE control'.pc \in {"label", "enqueue"}
      <4>1. ~Propose
        BY <3>2, ProposeMoves
      <4> QED BY <4>1, LabelMoves
    <3> QED BY <3>1, <3>2
  <2>2. ~LastUnmarked
    BY <2>1, UnmarkedMoves
  <2>3. LastDecided \/ control.pc \in {"label", "enqueue"}
    <3>1. CASE LastDecided'
      BY <3>1, LastMoves
    <3>2. CASE control'.pc \in {"label", "enqueue"}
      BY <1>3, <3>2, ControlMoves, LabelingMoves
    <3> QED BY <3>1, <3>2
  <2>4. "awaiting_approval" \notin remote.labels
    BY <1>3, <2>2, <2>3 DEF DecideInv
  <2>5. ~Park
    <3>1. Park => control.pc = "park" /\ control'.pc = "idle"
      BY ParkMoves
    <3>2. control.pc = "park" => ~LastDecided
      BY <2>2 DEF DecideInv
    <3> QED BY <2>3, <3>1, <3>2
  <2>6. CASE Label
    BY <2>4, <2>6, LabelingMoves
  <2>7. CASE ScriptRuns
    BY <2>4, <2>7, ScriptMoves
  <2> QED BY <1>3, <2>4, <2>5, <2>6, <2>7, LabelMoves
<1> QED BY <1>1, <1>2, <1>3, OtherMoves

\* Every step keeps what is decided.
LEMMA DecideStep == StateTypes /\ AskInv /\ ParkInv /\ DecideInv /\ [Next]_vars => DecideInv'
  BY DecidedWasAsked, DecidedShows, ParkedUndecided, EnqueuedIsDone, GuardMisled, DecisionMisled,
     MirrorMisled DEF DecideInv

----------------------------------------------------------------------------
(* What becomes of an approval *)

\* What excuses an approval that is not carried out.
Lost == unclosed \/ \E d \in dropped : Justified(d)

\* What is lost stays on record.
LEMMA LostMoves == [Next]_vars /\ Lost => Lost'
<1> SUFFICES ASSUME [Next]_vars, Lost PROVE Lost'
  OBVIOUS
<1>1. unclosed => unclosed'
  BY FileMoves DEF CloseRequest
<1>2. dropped \subseteq dropped'
  <2>1. \A row, b : LetGo(row, b) => dropped \subseteq dropped'
    BY DEF LetGo
  <2>2. \A kinds, pc : Take(kinds, pc) => dropped \subseteq dropped'
    BY <2>1 DEF Take
  <2>3. OnFailure => dropped \subseteq dropped'
    BY <2>1 DEF OnFailure
  <2> QED BY <2>2, <2>3, FileMoves DEF TakeEvent, TakeResult, TakePropose, TakeScript
<1> QED BY <1>1, <1>2 DEF Lost, Justified

\* A row that is put back, or appended, keeps the script of an approval waiting, and may be it.
LEMMA FinalsIn ==
  ASSUME NEW s \in Seq(Tasks), NEW t \in Seq(Tasks)
  PROVE  /\ s \o t \in Seq(Tasks)
         /\ (\E i \in DOMAIN s : s[i].kind = "final") \/ (\E i \in DOMAIN t : t[i].kind = "final")
              => \E i \in DOMAIN (s \o t) : (s \o t)[i].kind = "final"
<1>1. ASSUME NEW i \in DOMAIN s, s[i].kind = "final"
      PROVE  \E j \in DOMAIN (s \o t) : (s \o t)[j].kind = "final"
  <2>1. i \in DOMAIN (s \o t) /\ (s \o t)[i] = s[i]
    OBVIOUS
  <2> QED BY <1>1, <2>1
<1>2. ASSUME NEW i \in DOMAIN t, t[i].kind = "final"
      PROVE  \E j \in DOMAIN (s \o t) : (s \o t)[j].kind = "final"
  <2>1. Len(s) + i \in DOMAIN (s \o t) /\ (s \o t)[Len(s) + i] = t[i]
    OBVIOUS
  <2> QED BY <1>2, <2>1
<1> QED BY <1>1, <1>2

\* What is left of a sequence before and behind one of its places.
LEMMA Cuts ==
  ASSUME NEW S, NEW s \in Seq(S), NEW i \in 1..Len(s)
  PROVE  /\ SubSeq(s, 1, i - 1) \in Seq(S) /\ DOMAIN SubSeq(s, 1, i - 1) = 1..(i - 1)
         /\ \A j \in 1..(i - 1) : SubSeq(s, 1, i - 1)[j] = s[j]
         /\ SubSeq(s, i + 1, Len(s)) \in Seq(S) /\ DOMAIN SubSeq(s, i + 1, Len(s)) = 1..(Len(s) - i)
         /\ \A j \in 1..(Len(s) - i) : SubSeq(s, i + 1, Len(s))[j] = s[i + j]
<1>0. Len(s) \in Nat
  OBVIOUS
<1>1. /\ SubSeq(s, 1, i - 1) \in Seq(S) /\ DOMAIN SubSeq(s, 1, i - 1) = 1..(i - 1)
      /\ \A j \in 1..(i - 1) : SubSeq(s, 1, i - 1)[j] = s[j]
  BY <1>0
<1>2. /\ SubSeq(s, i + 1, Len(s)) \in Seq(S) /\ DOMAIN SubSeq(s, i + 1, Len(s)) = 1..(Len(s) - i)
      /\ \A j \in 1..(Len(s) - i) : SubSeq(s, i + 1, Len(s))[j] = s[i + j]
  BY <1>0
<1> QED BY <1>1, <1>2

\* A script that waits goes on waiting, or runs, or is dropped for a reason, or its request
\* is closed.
LEMMA FinalMoves ==
  ASSUME StateTypes, LaneInv, [Next]_vars, "final" \in Pending
  PROVE  \/ "final" \in Pending'
         \/ control'.pc = "script" /\ control'.task.kind = "final"
         \/ ~remote'.open \/ Lost'
<1> DEFINE Goal == \/ "final" \in Pending'
                   \/ control'.pc = "script" /\ control'.task.kind = "final"
                   \/ ~remote'.open \/ Lost'
           Has(s) == \E i \in DOMAIN s : s[i].kind = "final"
<1> SUFFICES Goal
  OBVIOUS
<1>0. /\ queue \in Seq(Tasks) /\ Len(queue) \in Nat /\ DOMAIN queue = 1..Len(queue)
      /\ control # Idle => control.task \in Tasks
  BY DEF LaneInv
<1>1. PICK f \in 1..Len(queue) : queue[f].kind = "final"
  BY <1>0 DEF Pending
<1>2. ASSUME NEW s \in Seq(Tasks), NEW t \in Seq(Tasks)
      PROVE  s \o t \in Seq(Tasks) /\ (Has(s) \/ Has(t) => Has(s \o t))
  BY FinalsIn
<1>3. Has(queue) /\ ("final" \in Pending' <=> Has(queue'))
  BY DEF Pending
<1> HIDE DEF Has
<1>4. CASE Sync
  <2>1. CASE mirror.open /\ ~remote.open
    BY <1>4, <2>1 DEF Sync
  <2>2. CASE ~(mirror.open /\ ~remote.open)
    <3>1. queue' = Queued(News)
      BY <1>4, <2>2 DEF Sync
    <3>2. "final" \notin News
      BY DEF News
    <3>3. Kept(News) \in Seq(Tasks) /\ Has(Kept(News))
      <4>1. \E i \in DOMAIN Kept(News) : Kept(News)[i] = queue[f]
        BY <1>0, <1>1, <3>2, KeptKeeps
      <4>2. Kept(News) \in Seq(Tasks)
        BY <1>0, KeptKeeps
      <4> QED BY <1>1, <4>1, <4>2 DEF Has
    <3>4. ASSUME NEW k \in EventKinds PROVE Told(k, News) \in Seq(Tasks)
      <4>1. Row(k) \in Tasks
        BY HeldRows
      <4>2. <<Row(k)>> \in Seq(Tasks) /\ <<>> \in Seq(Tasks)
        BY <4>1
      <4> QED BY <4>2 DEF Told
    <3>5. /\ Told("label", News) \in Seq(Tasks) /\ Told("comment", News) \in Seq(Tasks)
          /\ Told("reaction", News) \in Seq(Tasks)
      BY <3>4 DEF EventKinds
    <3> DEFINE a == Kept(News) \o Told("label", News)
               b == a \o Told("comment", News)
               c == b \o Told("reaction", News)
    <3>6. a \in Seq(Tasks) /\ Has(a)
      BY <1>2, <3>3, <3>5
    <3> HIDE DEF a
    <3>7. b \in Seq(Tasks) /\ Has(b)
      BY <1>2, <3>5, <3>6
    <3> HIDE DEF b
    <3>8. Has(c)
      BY <1>2, <3>5, <3>7
    <3>9. queue' = c
      BY <3>1 DEF Queued, a, b
    <3> HIDE DEF c
    <3> QED BY <1>3, <3>8, <3>9
  <2> QED BY <2>1, <2>2
<1>5. ASSUME NEW kinds, NEW pc, Take(kinds, pc), "final" \in kinds => pc = "script"
      PROVE  Goal
  <2> DEFINE Starts(i) == control' = [Idle EXCEPT !.pc = pc, !.task = Claimed(queue[i])]
  <2>1. PICK i \in 1..Len(queue) :
               /\ queue[i].kind \in kinds /\ queue' = Without(i)
               /\ Starts(i) \/ (Cancelled(Claimed(queue[i])) /\ LetGo(queue[i], FALSE))
    BY <1>0, <1>5 DEF Take, Next1
  <2>2. CASE queue[i].kind = "final"
    <3>1. queue[i] \in Tasks
      BY <1>0
    <3>2. Claimed(queue[i]).kind = "final" /\ Claimed(queue[i]).post = queue[i].post
      BY <2>2, <3>1 DEF Claimed, Tasks
    <3>3. CASE Starts(i)
      BY <1>5, <2>1, <2>2, <3>2, <3>3 DEF Idle
    <3>4. CASE Cancelled(Claimed(queue[i])) /\ LetGo(queue[i], FALSE)
      <4>1. queue[i].post = "closed"
        BY <3>2, <3>4 DEF Cancelled
      <4>2. [tries |-> queue[i].tries, post |-> queue[i].post, fatal |-> FALSE] \in dropped'
        BY <2>2, <3>4 DEF LetGo
      <4> QED BY <4>1, <4>2 DEF Lost, Justified
    <3> QED BY <2>1, <3>3, <3>4
  <2> DEFINE before == SubSeq(queue, 1, i - 1)
             after  == SubSeq(queue, i + 1, Len(queue))
  <2>3. /\ before \in Seq(Tasks) /\ DOMAIN before = 1..(i - 1) /\ \A j \in 1..(i - 1) : before[j] = queue[j]
        /\ after \in Seq(Tasks) /\ DOMAIN after = 1..(Len(queue) - i)
        /\ \A j \in 1..(Len(queue) - i) : after[j] = queue[i + j]
    BY <1>0, Cuts
  <2>4. f < i => Has(before)
    <3>1. f < i => f \in 1..(i - 1)
      OBVIOUS
    <3> QED BY <1>1, <2>3, <3>1 DEF Has
  <2>5. f > i => Has(after)
    <3>1. f > i => f - i \in 1..(Len(queue) - i) /\ i + (f - i) = f
      BY <1>0
    <3> QED BY <1>1, <2>3, <3>1 DEF Has
  <2>6. queue' = before \o after
    BY <2>1 DEF Without
  <2> HIDE DEF before, after
  <2>7. f = i \/ f < i \/ f > i
    OBVIOUS
  <2>8. CASE Has(before) \/ Has(after)
    BY <1>2, <1>3, <2>3, <2>6, <2>8
  <2> QED BY <1>1, <2>2, <2>4, <2>5, <2>7, <2>8
<1>6. CASE TakeEvent \/ TakeResult \/ TakePropose \/ TakeScript
  BY <1>5, <1>6 DEF TakeEvent, TakeResult, TakePropose, TakeScript, EventKinds
<1>7. \A row \in Tasks : <<row>> \in Seq(Tasks)
  OBVIOUS
<1>8. ASSUME NEW row \in Tasks, PutBack(row) PROVE Goal
  BY <1>0, <1>2, <1>3, <1>7, <1>8 DEF PutBack
<1>9. ASSUME NEW kind \in RowKinds, Adds(kind) PROVE Goal
  <2> DEFINE new == Row(kind)
  <2>1. new \in Tasks /\ queue' = Append(queue, new)
    BY <1>9, HeldRows DEF Adds
  <2> HIDE DEF new
  <2>2. queue' = queue \o <<new>>
    BY <1>0, <2>1
  <2> QED BY <1>0, <1>2, <1>3, <1>7, <2>1, <2>2
<1>10. CASE FollowUp
  <2>1. {Row("propose"), Row("direct")} \subseteq Tasks
    BY HeldRows DEF RowKinds
  <2>2. <<Row("propose")>> \in Seq(Tasks) /\ <<Row("direct")>> \in Seq(Tasks) /\ <<>> \in Seq(Tasks)
    BY <2>1
  <2>3. Classify(dir.kind) \in Seq(Tasks)
    BY <2>2 DEF Classify
  <2> QED BY <1>0, <1>2, <1>3, <1>10, <2>3 DEF FollowUp
<1>11. CASE queue' = queue
  BY <1>3, <1>11
<1>12. CASE EnqueueApply \/ RunEnds
  <2> HIDE DEF Goal
  <2> QED BY <1>9, <1>11, <1>12 DEF EnqueueApply, RunEnds, RowKinds
<1>13. CASE ScriptStopped \/ OnFailure \/ Crash
  <2>1. control.pc # "idle" => control.task \in Tasks
    BY <1>0 DEF Idle
  <2>2. CASE ScriptStopped
    BY <1>8, <2>1, <2>2 DEF ScriptStopped, Breaks
  <2>3. CASE OnFailure
    <3>1. control.pc # "idle"
      BY <2>3 DEF OnFailure
    <3>2. PICK post \in Posts :
                \/ queue' = queue
                \/ PutBack([[control.task EXCEPT !.post = post] EXCEPT !.due = FALSE])
      BY <2>3 DEF OnFailure
    <3>3. [[control.task EXCEPT !.post = post] EXCEPT !.due = FALSE] \in Tasks
      BY <2>1, <3>1, HeldRows
    <3> HIDE DEF Goal
    <3> QED BY <1>8, <1>11, <3>2, <3>3
  <2>4. CASE Crash
    <3> HIDE DEF Goal
    <3> QED BY <1>8, <1>11, <2>1, <2>4 DEF Crash
  <2> QED BY <1>13, <2>2, <2>3, <2>4
<1>14. CASE ClosePost \/ DelayPasses
  <2>1. DOMAIN queue' = DOMAIN queue /\ \A i \in DOMAIN queue : queue'[i].kind = queue[i].kind
    BY <1>0, <1>14, RowsInPlace
  <2> QED BY <1>3, <2>1 DEF Has
<1>15. CASE \/ Approve \/ Reject \/ Talk \/ CloseByHand
            \/ HandleEvent \/ GuardResolve \/ PromoteStaged \/ Unlabel \/ Label \/ CloseRequest
            \/ Propose \/ Park \/ ScriptRuns \/ ScriptFails \/ ScriptRaises
            \/ WorkLooks \/ ClaimRun \/ Writes \/ RunFails \/ UNCHANGED vars
  <2>1. queue' = queue
    BY <1>15 DEF Approve, Reject, Talk, CloseByHand, Acts, HandleEvent, GuardResolve,
       PromoteStaged, Unlabel, Label, CloseRequest, Propose, Park, ScriptRuns, ScriptFails, ScriptRaises,
       WorkLooks, ClaimRun, Writes, RunFails, vars
  <2> QED BY <1>11, <2>1
<1> HIDE DEF Goal
<1> QED BY <1>4, <1>6, <1>10, <1>12, <1>13, <1>14, <1>15 DEF Next, Control, Work, People, Script

\* Crashes stay within their bound, and only they use it up.
CrashInv == budget["crashes"] <= MaxCrashes

LEMMA CrashMoves ==
  ASSUME StateTypes, CrashInv, [Next]_vars
  PROVE  /\ budget'["crashes"] \in Nat /\ budget'["crashes"] <= budget["crashes"]
         /\ Crash => budget'["crashes"] < MaxCrashes
<1>0. \A b \in {"plans", "runs", "human", "faults", "crashes"} : budget[b] \in Nat
  BY DEF StateTypes
<1>1. MaxCrashes \in Nat
  BY SpecChangeAssumption
<1>2. CASE Crash
  BY <1>0, <1>1, <1>2 DEF Crash, Spend, CrashInv, StateTypes
<1>3. CASE ~Crash
  <2>1. \/ \E b \in {"plans", "runs", "human", "faults"} : Spend(b)
        \/ budget' = budget
    BY <1>3, BudgetMoves
  <2>2. budget'["crashes"] = budget["crashes"]
    BY <2>1 DEF Spend, StateTypes
  <2> QED BY <1>0, <1>3, <2>2
<1> QED BY <1>2, <1>3

\* A request that is open and done was so before, unless it has just been decided.
LEMMA DoneMoves ==
  ASSUME StateTypes, [Next]_vars, remote'.open, "done" \in remote'.labels
  PROVE  Label \/ (remote.open /\ "done" \in remote.labels)
<1>0. remote \in Request
  BY DEF StateTypes
<1>1. CASE People
  <2>1. remote'.open => remote.open
    BY <1>0, <1>1 DEF People, Approve, Reject, Talk, CloseByHand, ClosePost, Acts, Request, tracker
  <2> QED BY <1>1, <2>1, PeopleMoves
<1>2. CASE Propose
  <2>1. remote'.open => remote.open
    BY <1>0, <1>2 DEF Propose, Request
  <2> QED BY <1>2, <2>1, ProposeMoves
<1>3. CASE ScriptRuns
  <2>1. remote'.open = remote.open /\ remote'.labels \subseteq remote.labels \cup {"awaiting_input"}
    <3>1. remote' = remote \/ remote' \in Asked(remote)
      BY <1>3 DEF ScriptRuns
    <3>2. CASE remote' = remote
      BY <3>2
    <3>3. CASE remote' \in Asked(remote)
      <4>1. PICK ls \in {{}, {"awaiting_approval"}} :
                 remote' = [remote EXCEPT !.labels = (remote.labels \ ls) \cup {"awaiting_input"}]
        BY <3>3 DEF Asked
      <4> QED BY <1>0, <4>1 DEF Request
    <3> QED BY <3>1, <3>2, <3>3
  <2> QED BY <2>1
<1>4. CASE Park
  <2>1. remote'.open = remote.open /\ remote'.labels \subseteq remote.labels \cup {"awaiting_approval"}
    <3>1. CASE remote' = [remote EXCEPT !.labels = {"awaiting_approval"}]
      BY <1>0, <3>1 DEF Request
    <3>2. CASE \E gone \in SUBSET (remote.labels \ {"awaiting_approval"}),
                  put \in SUBSET {"awaiting_approval"} :
                 remote' = [remote EXCEPT !.labels = (remote.labels \ gone) \cup put]
      <4>1. PICK gone \in SUBSET (remote.labels \ {"awaiting_approval"}),
                 put \in SUBSET {"awaiting_approval"} :
                   remote' = [remote EXCEPT !.labels = (remote.labels \ gone) \cup put]
        BY <3>2
      <4> DEFINE L == (remote.labels \ gone) \cup put
      <4>2. L \subseteq remote.labels \cup {"awaiting_approval"}
        OBVIOUS
      <4>3. remote' = [remote EXCEPT !.labels = L]
        BY <4>1
      <4> HIDE DEF L
      <4> QED BY <1>0, <4>2, <4>3 DEF Request
    <3> QED BY <1>4, <3>1, <3>2 DEF Park
  <2> QED BY <2>1
<1>5. CASE Unlabel
  <2>1. remote'.open => remote.open
    BY <1>0, <1>5 DEF Unlabel, Request
  <2>2. remote'.labels \subseteq remote.labels
    BY <1>5, UnlabelMoves
  <2> QED BY <2>1, <2>2
<1>6. CASE CloseRequest
  <2>1. remote'.open => remote.open
    BY <1>0, <1>6 DEF CloseRequest, Request
  <2> QED BY <1>6, <2>1, OtherMoves
<1> QED BY <1>1, <1>2, <1>3, <1>4, <1>5, <1>6, OtherMoves

\* A step of another actor leaves the control thread where it is, and the kind of its task.
LEMMA ControlStays ==
  ASSUME StateTypes,
         \/ People \/ DelayPasses \/ WorkLooks \/ ClaimRun \/ RunEnds \/ Writes \/ RunFails \/ UNCHANGED vars
  PROVE  control'.pc = control.pc /\ control'.task.kind = control.task.kind
<1>0. control \in Ctl
  BY DEF StateTypes
<1>1. CASE ClosePost
  <2>1. CASE control' = control
    BY <2>1
  <2>2. CASE control' = [control EXCEPT !.task.post = "closed"]
    BY <1>0, <2>2 DEF Ctl, Held
  <2> QED BY <1>1, <2>1, <2>2 DEF ClosePost
<1>2. CASE ~ClosePost
  BY <1>2 DEF People, Approve, Reject, Talk, CloseByHand, Acts, DelayPasses, WorkLooks, ClaimRun, RunEnds,
     Writes, RunFails, vars
<1> QED BY <1>1, <1>2

\* A row is in the lane when it was put back, or added.
LEMMA RowIsIn ==
  ASSUME StateTypes, LaneInv
  PROVE  /\ \A row \in Tasks : PutBack(row) /\ row.kind = "final" => "final" \in Pending'
         /\ Adds("final") => "final" \in Pending'
<1>0. queue \in Seq(Tasks)
  BY DEF LaneInv
<1>1. ASSUME NEW row \in Tasks, PutBack(row), row.kind = "final"
      PROVE  "final" \in Pending'
  <2>1. 1 \in DOMAIN queue' /\ queue'[1] = row
    BY <1>0, <1>1 DEF PutBack
  <2> QED BY <1>1, <2>1 DEF Pending
<1>2. ASSUME Adds("final") PROVE "final" \in Pending'
  <2> DEFINE new == Row("final")
  <2>1. new.kind = "final" /\ queue' = Append(queue, new)
    BY <1>2 DEF Adds, Row
  <2> HIDE DEF new
  <2>2. Len(queue) + 1 \in DOMAIN queue' /\ queue'[Len(queue) + 1] = new
    BY <1>0, <2>1
  <2> QED BY <2>1, <2>2 DEF Pending
<1> QED BY <1>1, <1>2

\* An approval that is being carried out goes on being so, or is excused.
LEMMA CarryMoves ==
  ASSUME StateTypes, LaneInv, [Next]_vars, ~Crash, ~Label, remote'.open,
         \/ control.pc \in {"enqueue", "close"}
         \/ control.pc \in {"script", "failed", "raised"} /\ control.task.kind = "final"
  PROVE  \/ control'.pc \in {"enqueue", "close"}
         \/ "final" \in Pending'
         \/ control'.pc \in {"script", "failed", "raised"} /\ control'.task.kind = "final"
         \/ Lost'
<1>0. control \in Ctl /\ control # Idle /\ control.task \in Tasks
  BY DEF StateTypes, LaneInv, Idle
<1>1. \A pc : GoesTo(pc) => control'.pc = pc /\ control'.task = control.task
  BY <1>0 DEF GoesTo, Ctl
<1>2. CASE EnqueueApply
  BY <1>1, <1>2, RowIsIn DEF EnqueueApply
<1>3. CASE CloseRequest
  BY <1>3 DEF CloseRequest, StateTypes, Request, Lost
<1>4. CASE ScriptRuns
  BY <1>1, <1>4 DEF ScriptRuns
<1>5. CASE ScriptStopped
  BY <1>0, <1>5, RowIsIn DEF ScriptStopped, Breaks
<1>6. CASE ScriptFails \/ ScriptRaises
  BY <1>1, <1>6 DEF ScriptFails, ScriptRaises, Breaks
<1>7. CASE OnFailure
  <2> DEFINE Left(post) == [control.task EXCEPT !.post = post]
  <2>1. PICK post \in Posts :
              \/ GivesUp(Left(post)) /\ LetGo(Left(post), control.pc = "raised")
              \/ PutBack([Left(post) EXCEPT !.due = FALSE])
    BY <1>7 DEF OnFailure
  <2>2. control.pc \in {"failed", "raised"} /\ control.task.kind = "final"
    BY <1>7 DEF OnFailure
  <2>3. /\ Left(post) \in Tasks /\ Left(post).kind = "final"
        /\ [Left(post) EXCEPT !.due = FALSE] \in Tasks
    BY <1>0, <2>2, HeldRows DEF Tasks
  <2>4. [Left(post) EXCEPT !.due = FALSE].kind = "final"
    BY <2>3 DEF Tasks
  <2>5. CASE PutBack([Left(post) EXCEPT !.due = FALSE])
    BY <2>3, <2>4, <2>5, RowIsIn
  <2>6. CASE GivesUp(Left(post)) /\ LetGo(Left(post), control.pc = "raised")
    <3> DEFINE d == [tries |-> Left(post).tries, post |-> Left(post).post, fatal |-> control.pc = "raised"]
    <3>1. d \in dropped'
      BY <2>3, <2>6 DEF LetGo
    <3>2. Justified(d)
      BY <2>6 DEF GivesUp, Justified
    <3> QED BY <3>1, <3>2 DEF Lost, Justified
  <2> QED BY <2>1, <2>5, <2>6
<1>8. ~(\/ HandleEvent \/ GuardResolve \/ PromoteStaged \/ Unlabel \/ FollowUp \/ Propose \/ Park
        \/ Sync \/ TakeEvent \/ TakeResult \/ TakePropose \/ TakeScript)
  BY <1>0 DEF HandleEvent, GuardResolve, PromoteStaged, Unlabel, FollowUp, Propose, Park, Sync,
     TakeEvent, TakeResult, TakePropose, TakeScript, Take
<1>9. CASE People \/ DelayPasses \/ WorkLooks \/ ClaimRun \/ RunEnds \/ Writes \/ RunFails \/ UNCHANGED vars
  BY <1>9, ControlStays
<1> QED BY <1>2, <1>3, <1>4, <1>5, <1>6, <1>7, <1>8, <1>9 DEF Next, Control, Work, Script

\* Every step carries an approval that was taken on.
LEMMA KeptStep ==
  StateTypes /\ LaneInv /\ CrashInv /\ ApprovalKept /\ [Next]_vars => CrashInv' /\ ApprovalKept'
<1> SUFFICES ASSUME StateTypes, LaneInv, CrashInv, ApprovalKept, [Next]_vars
             PROVE  CrashInv' /\ ApprovalKept'
  OBVIOUS
<1>0. MaxCrashes \in Nat /\ budget["crashes"] \in Nat /\ budget'["crashes"] \in Nat
  BY CrashMoves, SpecChangeAssumption DEF StateTypes
<1>1. CrashInv'
  BY <1>0, CrashMoves DEF CrashInv
<1> DEFINE Goal == \/ control'.pc \in {"enqueue", "close"}
                   \/ "final" \in Pending'
                   \/ control'.pc \in {"script", "failed", "raised"} /\ control'.task.kind = "final"
                   \/ Lost'
<1>2. SUFFICES ASSUME remote'.open, "done" \in remote'.labels, budget'["crashes"] = MaxCrashes
               PROVE  Goal
  BY <1>1 DEF ApprovalKept, Lost, Justified
<1>3. ~Crash /\ budget["crashes"] = MaxCrashes
  BY <1>0, <1>2, CrashMoves DEF CrashInv
<1>4. CASE Label
  BY <1>4, LabelingMoves
<1>5. CASE ~Label
  <2>1. remote.open /\ "done" \in remote.labels
    BY <1>2, <1>5, DoneMoves
  <2>2. \/ control.pc \in {"enqueue", "close"}
        \/ "final" \in Pending
        \/ control.pc \in {"script", "failed", "raised"} /\ control.task.kind = "final"
        \/ Lost
    BY <1>3, <2>1 DEF ApprovalKept, Lost
  <2>3. CASE "final" \in Pending
    BY <1>2, <2>3, FinalMoves
  <2>4. CASE \/ control.pc \in {"enqueue", "close"}
             \/ control.pc \in {"script", "failed", "raised"} /\ control.task.kind = "final"
    BY <1>2, <1>3, <1>5, <2>4, CarryMoves
  <2>5. CASE Lost
    BY <2>5, LostMoves
  <2> QED BY <2>2, <2>3, <2>4, <2>5
<1> QED BY <1>4, <1>5

----------------------------------------------------------------------------
(* The theorems *)

\* The conjunction is inductive: it holds in every reachable state.
THEOREM InvAlways == Spec => []Inv
<1>1. Init => Inv
  BY TypeInit, LaneInit, PartsInit DEF Inv
<1>2. Inv /\ [Next]_vars => Inv'
  BY TypeStep, LaneStep, SlipStep, AskStep, ParkStep, DecideStep DEF Inv
<1> QED BY <1>1, <1>2, PTL DEF Spec

\* Every variable has its type, the lane that syncs, runs, failures and crashes rewrite
\* included.
THEOREM SpecChangeTypes == Spec => []TypeOK
<1>1. Inv => TypeOK
  BY DEF Inv, StateTypes, LaneInv, SlipInv, Ctl, Stages, TypeOK
<1> QED BY <1>1, InvAlways, PTL

\* propose_spec_change is idempotent: whatever crashed or was triggered again, people are
\* asked about a plan once.
THEOREM AskedOnlyOnce == Spec => []AskedOnce
<1>1. Inv => AskedOnce
  BY DEF Inv, AskInv, AskedOnce
<1> QED BY <1>1, InvAlways, PTL

\* Two labels are more than one.
LEMMA ManyCounts ==
  ASSUME NEW labels \in SUBSET Statuses, Many(labels)
  PROVE  Cardinality(labels) > 1
<1>1. PICK a, b \in labels : a # b
  BY DEF Many
<1>2. IsFiniteSet(Statuses)
  <2> DEFINE S1 == {"awaiting_input"}
             S2 == S1 \cup {"awaiting_approval"}
             S3 == S2 \cup {"done"}
             S4 == S3 \cup {"rejected"}
  <2>1. IsFiniteSet(S1)
    BY FS_Singleton
  <2>2. IsFiniteSet(S2)
    BY <2>1, FS_AddElement
  <2>3. IsFiniteSet(S3)
    BY <2>2, FS_AddElement
  <2>4. IsFiniteSet(S4)
    BY <2>3, FS_AddElement
  <2>5. Statuses = S4
    BY DEF Statuses
  <2> QED BY <2>4, <2>5
<1>3. IsFiniteSet(labels)
  BY <1>2, FS_Subset
<1>4. /\ IsFiniteSet({}) /\ Cardinality({}) = 0 /\ IsFiniteSet({a}) /\ Cardinality({a}) = 1
  BY FS_EmptySet, FS_Singleton
<1>5. Cardinality({a, b}) = 2
  <2>1. {a, b} = {a} \cup {b} /\ b \notin {a}
    BY <1>1
  <2>2. IsFiniteSet({a}) /\ Cardinality({a}) = 1
    BY <1>4
  <2>3. Cardinality({a} \cup {b}) = Cardinality({a}) + 1
    BY <2>1, <2>2, FS_AddElement
  <2>4. Cardinality({a, b}) = Cardinality({a}) + 1
    BY <2>1, <2>3
  <2> QED BY <2>2, <2>4
<1>6. {a, b} \subseteq labels
  OBVIOUS
<1>7. Cardinality({a, b}) <= Cardinality(labels)
  BY <1>3, <1>6, FS_Subset
<1>8. Cardinality(labels) \in Nat
  BY <1>3, FS_CardinalityType
<1> QED BY <1>5, <1>7, <1>8

\* resolve_spec_change_request: a plan's script is enqueued once, and not for a plan that
\* was rejected, nor is it rejected afterwards, unless the guard could not read the tracker,
\* the request carries two labels, or a call that was to show the decision failed.
THEOREM DecidedOnlyOnce == Spec => DecidedOnce
<1> DEFINE Misled(p) == \/ control.blind \/ p \in unmarked
                        \/ \E r \in {remote, mirror} : Cardinality(r.labels) > 1
           A(p) == finals'[p] # finals[p] \/ p \in refused' \ refused
                     => \/ ~Decided(p)
                        \/ control.blind \/ p \in unmarked
                        \/ \E r \in {remote, mirror} : Cardinality(r.labels) > 1
<1>1. ASSUME Inv, [Next]_vars, NEW p \in Plans, finals'[p] # finals[p] \/ p \in refused' \ refused,
             Decided(p)
      PROVE  Misled(p)
  <2>1. /\ p = remote.last
        /\ control.pc \in {"label", "enqueue"}
    BY <1>1, DecisionMoves DEF Inv
  <2>2. LastDecided
    BY <1>1, <2>1 DEF LastDecided
  <2>3. Many(remote.labels) \/ Many(mirror.labels) \/ control.blind \/ p \in unmarked
    BY <1>1, <2>1, <2>2 DEF Inv, DecideInv, ManyLabels, LastUnmarked
  <2>4. remote.labels \in SUBSET Statuses /\ mirror.labels \in SUBSET Statuses
    BY <1>1, RequestParts DEF Inv
  <2> QED BY <2>3, <2>4, ManyCounts
<1>2. Inv /\ [Next]_vars => [\A p \in Plans : A(p)]_vars
  BY <1>1
<1> QED BY <1>2, InvAlways, PTL DEF Spec, DecidedOnce

\* An approval that was taken on is carried out or waits for it, whatever syncs, stops and
\* failures do to its row, unless the process died between the label and the script, recovery
\* left it failed for one of the reasons it has, or the call that closes the request failed.
THEOREM ApprovalIsKept == Spec => []ApprovalKept
<1>1. Init => CrashInv /\ ApprovalKept
  BY SpecChangeAssumption DEF Init, CrashInv, ApprovalKept
<1>2. Inv /\ CrashInv /\ ApprovalKept /\ [Next]_vars => CrashInv' /\ ApprovalKept'
  BY KeptStep DEF Inv
<1> QED BY <1>1, <1>2, InvAlways, PTL DEF Spec
=============================================================================
