--------------------------- MODULE AgentRunsProofs ---------------------------
(***************************************************************************)
(* What holds of AgentRuns for every set of runs and texts and all limits: *)
(* the types, then the inductive invariant, then the properties it gives.  *)
(***************************************************************************)
EXTENDS AgentRuns, FiniteSetTheorems, SequenceTheorems, TLAPS

\* The groups of variables stand for their members everywhere.
USE DEF placeVars, settleVars, abortVars, loopVars, workVars, timerVars, callVars

------------------------------------------------------------------------------
(* The shared pieces keep the types. *)

\* _put_bounded_queue leaves a queue of items.
LEMMA PutBoundedType ==
  ASSUME NEW q \in Seq(Item), NEW item \in Item, NEW warn \in BOOLEAN
  PROVE  PutBounded(q, item, warn) \in Seq(Item)
<1>1. CASE Len(q) < QueueLimit BY <1>1 DEF PutBounded
<1>2. CASE ~(Len(q) < QueueLimit)
 <2>1. Len(q) >= 2 /\ q # <<>> BY <1>2, LimitsAssumption
 <2>2. Tail(q) \in Seq(Item) BY <2>1
 <2>3. Append(Tail(q), "warning") \in Seq(Item) /\ Append(Tail(q), "warning") # <<>>
   BY <2>2, AppendProperties DEF Item
 <2>4. Tail(Append(Tail(q), "warning")) \in Seq(Item) BY <2>3
 <2> QED BY <1>2, <2>2, <2>4 DEF PutBounded
<1> QED BY <1>1, <1>2

\* _settle keeps the types of what it writes.
LEMMA SettleType ==
  ASSUME TypeOK, NEW r \in Run, NEW final \in Final, NEW reason \in Reason \cup {None},
         Settle(r, final, reason)
  PROVE  /\ status' \in [Run -> Live \cup Final \cup {None}]
         /\ abortReason' \in [Run -> Reason \cup {None}]
         /\ results' \in [Run -> Nat]
<1>1. CASE Terminal(r) BY <1>1 DEF TypeOK, Settle
<1>2. CASE ~Terminal(r)
 <2>1. status' = [status EXCEPT ![r] = final] /\ final \in Live \cup Final \cup {None}
   BY <1>2 DEF Settle
 <2>2. results' = [results EXCEPT ![r] = @ + 1] BY <1>2 DEF Settle
 <2>3. abortReason' = [abortReason EXCEPT ![r] = IF final = "aborted" THEN reason ELSE @]
   BY <1>2 DEF Settle
 <2> QED BY <2>1, <2>2, <2>3 DEF TypeOK
<1> QED BY <1>1, <1>2

\* Moving a task keeps the places.
LEMMA GotoType ==
  ASSUME TypeOK, NEW r \in Run, NEW i \in Start, NEW p \in Place, Goto(r, i, p)
  PROVE  pc' \in [Run -> [Start -> Place]]
<1>1. pc' = [pc EXCEPT ![r] = [pc[r] EXCEPT ![i] = p]] BY DEF TypeOK, Goto
<1>2. [pc[r] EXCEPT ![i] = p] \in [Start -> Place] BY DEF TypeOK
<1> QED BY <1>1, <1>2 DEF TypeOK

\* The head of the loop keeps the types of what it writes.
LEMMA LoopTopType ==
  ASSUME TypeOK, NEW r \in Run, NEW i \in Start, NEW m \in Text \cup {None},
         LoopTop(r, i, m)
  PROVE  /\ status' \in [Run -> Live \cup Final \cup {None}]
         /\ abortReason' \in [Run -> Reason \cup {None}]
         /\ results' \in [Run -> Nat]
         /\ message' \in [Run -> Text \cup {None}]
         /\ pc' \in [Run -> [Start -> Place]]
<1>1. message' \in [Run -> Text \cup {None}] BY DEF TypeOK, LoopTop
<1>2. pc' \in [Run -> [Start -> Place]]
 <2>1. \E p \in {"settling", "queueing", "idling"} : Goto(r, i, p) BY DEF LoopTop
 <2> QED BY <2>1, GotoType DEF Place
<1>3. CASE abortReq[r] # None
 <2>1. Settle(r, "aborted", abortReq[r]) BY <1>3 DEF LoopTop
 <2> QED BY <1>1, <1>2, <1>3, <2>1, SettleType DEF TypeOK, Final
<1>4. CASE abortReq[r] = None /\ completion[r] # None
 <2>1. Settle(r, completion[r], None) BY <1>4 DEF LoopTop
 <2>2. completion[r] \in Final /\ None \in Reason \cup {None} BY <1>4 DEF TypeOK, Final
 <2> QED BY <1>1, <1>2, <2>1, <2>2, SettleType
<1>5. CASE abortReq[r] = None /\ completion[r] = None
  BY <1>1, <1>2, <1>5 DEF LoopTop, TypeOK, Live
<1> QED BY <1>3, <1>4, <1>5

\* An abort cascade keeps the types of what it writes.
LEMMA AbortType ==
  ASSUME TypeOK, NEW k \in Cascade, NEW ks \in SUBSET Cascade, Abort(k, ks)
  PROVE  /\ status' \in [Run -> Live \cup Final \cup {None}]
         /\ abortReason' \in [Run -> Reason \cup {None}]
         /\ results' \in [Run -> Nat]
         /\ abortReq' \in [Run -> Reason \cup {None}]
         /\ turnCancel' \in [Run -> BOOLEAN]
         /\ cancel' \in [Run -> [Start -> BOOLEAN]]
         /\ inbox' \in [Run -> Seq(Item)]
         /\ cascades' \subseteq Cascade
<1>1. PICK B \in Batches(k.left) :
        /\ AbortBatch(B, k.why)
        /\ cascades' = ks \cup (IF B = k.left THEN {} ELSE {[k EXCEPT !.left = @ \ B]})
  BY DEF Abort
<1>2. k.why \in Reason /\ \A x \in Run : Why(x, k.why) \in Reason
  BY DEF Cascade, Why, TypeOK
<1>3. cascades' \subseteq Cascade BY <1>1 DEF Cascade
<1>4. inbox' \in [Run -> Seq(Item)]
 <2>1. \A x \in Run : PutBounded(inbox[x], "wake", FALSE) \in Seq(Item)
   BY PutBoundedType DEF TypeOK, Item
 <2> QED BY <1>1, <2>1 DEF AbortBatch, TypeOK
<1>5. abortReq' \in [Run -> Reason \cup {None}] BY <1>1, <1>2 DEF AbortBatch, TypeOK
<1>6. abortReason' \in [Run -> Reason \cup {None}] BY <1>1, <1>2 DEF AbortBatch, TypeOK
<1>7. /\ status' \in [Run -> Live \cup Final \cup {None}]
      /\ results' \in [Run -> Nat]
  BY <1>1 DEF AbortBatch, TypeOK, Final
<1>8. /\ turnCancel' \in [Run -> BOOLEAN]
      /\ cancel' \in [Run -> [Start -> BOOLEAN]]
  BY <1>1 DEF AbortBatch, TypeOK
<1> QED BY <1>3, <1>4, <1>5, <1>6, <1>7, <1>8

\* The whole tree of a run, as a cascade.
LEMMA TreeType ==
  ASSUME TypeOK, NEW r \in Run, NEW reason \in Reason,
         NEW kind \in {"call", "timer", "detaching", "detach", "shutdown", "budget"},
         NEW by \in Caller \cup Start \cup {Nobody}
  PROVE  Tree(r, kind, by, reason) \in Cascade
<1>1. Descendants(r) \cup {r} \in SUBSET Run BY DEF Descendants
<1>2. Why(r, reason) \in Reason BY DEF TypeOK, Why
<1> QED BY <1>1, <1>2 DEF Tree, Cascade

\* Dropping the calls of a caller keeps their types.
LEMMA DropCallsType ==
  ASSUME TypeOK, NEW c \in Caller, DropCalls(c)
  PROVE  /\ spawner' \in [Run -> [by : Caller \cup {Nobody}, blocking : BOOLEAN]]
         /\ reviver' \in [Run -> [by : Caller \cup {Nobody}, text : Msg \cup {None}]]
         /\ blocked' \in [Run -> SUBSET Run]
         /\ cascades' \subseteq Cascade
BY DEF TypeOK, DropCalls, NoSpawner, NoReviver

------------------------------------------------------------------------------
(* Types. *)

\* The initial state is of the right types.
LEMMA TypeInit == Init => TypeOK
BY LimitsAssumption DEF Init, TypeOK, NoSpawner, NoReviver, Place, Phase

\* Every operation of the registry keeps the types.
LEMMA TypeCalls ==
  ASSUME TypeOK, Inductive, NEW c \in Caller, NEW r \in Run
  PROVE  /\ Spawn(c, r) => TypeOK'
         /\ SpawnReturns(r) => TypeOK'
         /\ WaitEnds(r) => TypeOK'
         /\ \A m \in Msg, interrupt \in BOOLEAN : Send(c, r, m, interrupt) => TypeOK'
         /\ \A m \in Msg \cup {None} : Revive(c, r, m) => TypeOK'
         /\ ReviveReturns(r) => TypeOK'
         /\ Cancel(c, r) => TypeOK'
         /\ \A k \in cascades : ResumeAbort(k) => TypeOK'
         /\ MainInterrupted => TypeOK'
         /\ Detach(r) => TypeOK'
         /\ \A k \in cascades : DetachStarts(k) => TypeOK'
         /\ ShutdownBegins => TypeOK'
         /\ ShutdownNext(r) => TypeOK'
<1>1. ASSUME Spawn(c, r) PROVE TypeOK'
 <2>1. depth' \in [Run -> Nat] BY <1>1 DEF Spawn, TypeOK, Caller
 <2>2. spawner' \in [Run -> [by : Caller \cup {Nobody}, blocking : BOOLEAN]]
   BY <1>1 DEF Spawn, TypeOK
 <2>3. parent' \in [Run -> Caller \cup {Nobody}] /\ message' \in [Run -> Text \cup {None}]
   BY <1>1 DEF Spawn, TypeOK, Text
 <2>4. status' \in [Run -> Live \cup Final \cup {None}] BY <1>1 DEF Spawn, TypeOK, Live
 <2> QED BY <1>1, <2>1, <2>2, <2>3, <2>4 DEF Spawn, TypeOK
<1>2. ASSUME SpawnReturns(r) PROVE TypeOK'
 <2>1. 1 \in Start /\ "created" \in Place BY LimitsAssumption DEF Start, Place
 <2>2. pc' \in [Run -> [Start -> Place]] BY <1>2, <2>1, GotoType DEF SpawnReturns
 <2>3. task' \in [Run -> 0 .. MaxStarts] BY <1>2, LimitsAssumption DEF SpawnReturns, TypeOK
 <2>4. spawner' \in [Run -> [by : Caller \cup {Nobody}, blocking : BOOLEAN]]
   BY <1>2 DEF SpawnReturns, TypeOK, NoSpawner
 <2>5. blocked' \in [Run -> SUBSET Run] BY <1>2 DEF SpawnReturns, TypeOK
 <2> QED BY <1>2, <2>2, <2>3, <2>4, <2>5 DEF SpawnReturns, TypeOK
<1>3. ASSUME WaitEnds(r) PROVE TypeOK' BY <1>3 DEF WaitEnds, TypeOK
<1>4. ASSUME NEW m \in Msg, NEW interrupt \in BOOLEAN, Send(c, r, m, interrupt) PROVE TypeOK'
 <2>1. PutBounded(inbox[r], m, TRUE) \in Seq(Item) BY PutBoundedType DEF TypeOK, Item
 <2> QED BY <1>4, <2>1 DEF Send, TypeOK
<1>5. ASSUME NEW m \in Msg \cup {None}, Revive(c, r, m) PROVE TypeOK'
  BY <1>5 DEF Revive, TypeOK, Live
<1>6. ASSUME ReviveReturns(r) PROVE TypeOK'
 <2>1. task[r] + 1 \in Start /\ "created" \in Place
   BY <1>6, LimitsAssumption DEF ReviveReturns, Inductive, Sound, StartPending, Start, Place, TypeOK
 <2>2. reviver[r].text \in Msg \cup {None} BY DEF TypeOK
 <2>3. pc' \in [Run -> [Start -> Place]] BY <1>6, <2>1, GotoType DEF ReviveReturns, TypeOK
 <2>4. task' \in [Run -> 0 .. MaxStarts] /\ message' \in [Run -> Text \cup {None}]
  <3>1. task' = task \/ task' = [task EXCEPT ![r] = task[r] + 1] BY <1>6 DEF ReviveReturns
  <3>2. task[r] + 1 \in 0 .. MaxStarts BY <2>1, LimitsAssumption DEF Start
  <3>3. message' = message \/ message' = [message EXCEPT ![r] = None]
    BY <1>6 DEF ReviveReturns
  <3>4. task \in [Run -> 0 .. MaxStarts] /\ message \in [Run -> Text \cup {None}]
    BY DEF TypeOK
  <3>5. task' \in [Run -> 0 .. MaxStarts] BY <3>1, <3>2, <3>4
  <3>6. message' \in [Run -> Text \cup {None}] BY <3>3, <3>4
  <3> QED BY <3>5, <3>6
 <2>5. inbox' \in [Run -> Seq(Item)]
  <3>1. reviver[r].text # None => PutBounded(inbox[r], reviver[r].text, TRUE) \in Seq(Item)
    BY <2>2, PutBoundedType DEF TypeOK, Item
  <3> QED BY <1>6, <3>1 DEF ReviveReturns, TypeOK
 <2>6. sent' \in [Msg -> Run \cup {Nobody}] BY <1>6 DEF ReviveReturns, TypeOK
 <2> QED BY <1>6, <2>3, <2>4, <2>5, <2>6 DEF ReviveReturns, TypeOK, NoReviver
<1>7. ASSUME Cancel(c, r) PROVE TypeOK'
 <2>1. Tree(r, "call", c, "cancel") \in Cascade BY TreeType DEF Reason
 <2>2. cascades \in SUBSET Cascade BY DEF TypeOK
 <2> QED BY <1>7, <2>1, <2>2, AbortType DEF Cancel, TypeOK
<1>8. ASSUME NEW k \in cascades, ResumeAbort(k) PROVE TypeOK'
 <2>1. k \in Cascade /\ cascades \ {k} \in SUBSET Cascade BY DEF TypeOK
 <2> QED BY <1>8, <2>1, AbortType DEF ResumeAbort, TypeOK
<1>9. ASSUME MainInterrupted PROVE TypeOK'
  BY <1>9, DropCallsType DEF MainInterrupted, TypeOK, Caller
<1>10. ASSUME Detach(r) PROVE TypeOK'
 <2>1. cascades' \subseteq Cascade BY <1>10 DEF Detach, TypeOK, Cascade, Reason
 <2> QED BY <1>10, <2>1 DEF Detach, TypeOK, Reason
<1>11. ASSUME NEW k \in cascades, DetachStarts(k) PROVE TypeOK'
 <2>1. k.root \in Run /\ cascades \ {k} \in SUBSET Cascade BY DEF TypeOK, Cascade
 <2>2. Tree(k.root, "detach", Nobody, "cancel") \in Cascade BY <2>1, TreeType DEF Reason
 <2> QED BY <1>11, <2>1, <2>2, AbortType DEF DetachStarts, TypeOK
<1>12. ASSUME ShutdownBegins PROVE TypeOK' BY <1>12 DEF ShutdownBegins, TypeOK, Known
<1>13. ASSUME ShutdownNext(r) PROVE TypeOK'
 <2>1. CASE Terminal(r) BY <1>13, <2>1 DEF ShutdownNext, TypeOK
 <2>2. CASE ~Terminal(r)
  <3>1. Tree(r, "shutdown", Nobody, "shutdown") \in Cascade /\ cascades \in SUBSET Cascade
    BY TreeType DEF Reason, TypeOK
  <3>2. Abort(Tree(r, "shutdown", Nobody, "shutdown"), cascades)
    BY <1>13, <2>2 DEF ShutdownNext
  <3> QED BY <1>13, <3>1, <3>2, AbortType DEF ShutdownNext, TypeOK
 <2> QED BY <2>1, <2>2
<1> QED BY <1>1, <1>2, <1>3, <1>4, <1>5, <1>6, <1>7, <1>8, <1>9, <1>10, <1>11, <1>12, <1>13

\* Every step of a run's task keeps the types.
LEMMA TypeTask ==
  ASSUME TypeOK, Inductive, NEW r \in Run, NEW i \in Start
  PROVE  /\ TaskStarts(r, i) => TypeOK'
         /\ TaskStillborn(r, i) => TypeOK'
         /\ Built(r, i) => TypeOK'
         /\ BuildFails(r, i) => TypeOK'
         /\ Acquire(r, i) => TypeOK'
         /\ EnterTurn(r, i) => TypeOK'
         /\ TurnReturns(r, i) => TypeOK'
         /\ BudgetExceeded(r, i) => TypeOK'
         /\ BudgetSettles(r, i) => TypeOK'
         /\ TurnRaises(r, i) => TypeOK'
         /\ TurnEscapes(r, i) => TypeOK'
         /\ Receive(r, i) => TypeOK'
         /\ Await(r, i) => TypeOK'
         /\ IdleTimeout(r, i) => TypeOK'
         /\ TaskCancelled(r, i) => TypeOK'
         /\ TaskEnds(r, i) => TypeOK'
         /\ TimerFires(r, i) => TypeOK'
<1> DEFINE Moved == pc' \in [Run -> [Start -> Place]]
           Settled == /\ status' \in [Run -> Live \cup Final \cup {None}]
                      /\ abortReason' \in [Run -> Reason \cup {None}]
                      /\ results' \in [Run -> Nat]
<1>0. /\ \A p \in Place : Goto(r, i, p) => Moved
      /\ \A final \in Final, reason \in Reason \cup {None} : Settle(r, final, reason) => Settled
      /\ "aborted" \in Final /\ "failed" \in Final
  BY GotoType, SettleType DEF Final
<1> HIDE DEF Moved, Settled
<1>1. ASSUME TaskStarts(r, i) PROVE TypeOK'
 <2>1. Moved BY <1>1, <1>0 DEF TaskStarts, Place
 <2>2. timers' = timers \/ timers' = [timers EXCEPT ![r] = @ \cup {i}]
   BY <1>1 DEF TaskStarts
 <2>3. timerRef' = timerRef \/ timerRef' = [timerRef EXCEPT ![r] = i] BY <1>1 DEF TaskStarts
 <2>4. timers \in [Run -> SUBSET Start] /\ timerRef \in [Run -> 0 .. MaxStarts]
   BY DEF TypeOK
 <2>5. timers' \in [Run -> SUBSET Start] BY <2>2, <2>4
 <2>6. timerRef' \in [Run -> 0 .. MaxStarts] BY <2>3, <2>4 DEF Start
 <2> QED BY <1>1, <2>1, <2>5, <2>6 DEF TaskStarts, TypeOK, Moved
<1>2. ASSUME TaskStillborn(r, i) PROVE TypeOK'
 <2>1. Moved BY <1>2, <1>0 DEF TaskStillborn, Place
 <2>2. cancel' \in [Run -> [Start -> BOOLEAN]] BY <1>2 DEF TaskStillborn, TypeOK
 <2> QED BY <1>2, <2>1, <2>2 DEF TaskStillborn, TypeOK, Moved
<1>3. ASSUME Built(r, i) PROVE TypeOK'
 <2>1. LoopTop(r, i, message[r]) /\ message[r] \in Text \cup {None}
   BY <1>3 DEF Built, TypeOK
 <2> QED BY <1>3, <2>1, LoopTopType DEF Built, TypeOK
<1>4. ASSUME BuildFails(r, i) PROVE TypeOK'
 <2>1. Moved /\ Settled BY <1>4, <1>0 DEF BuildFails, Place
 <2> QED BY <1>4, <2>1 DEF BuildFails, TypeOK, Moved, Settled
<1>5. ASSUME Acquire(r, i) PROVE TypeOK'
 <2>1. Moved BY <1>5, <1>0 DEF Acquire, Place
 <2>2. status' \in [Run -> Live \cup Final \cup {None}] /\ slots' \in Nat
   BY <1>5 DEF Acquire, TypeOK, Live
 <2> QED BY <1>5, <2>1, <2>2 DEF Acquire, TypeOK, Moved
<1>6. ASSUME EnterTurn(r, i) PROVE TypeOK'
 <2>0. pc[r][i] = "entering" BY <1>6 DEF EnterTurn
 <2>1. CASE abortReq[r] # None
  <3>1. Moved BY <1>6, <1>0, <2>1 DEF EnterTurn, Place
  <3>2. Settled BY <1>6, <1>0, <2>1 DEF EnterTurn, TypeOK
  <3>3. /\ UNCHANGED <<placeVars, abortReq, cancel, turnCancel, inbox, task, message, completion,
                       requests, sent, timerVars, callVars, cascades, shutdown>>
        /\ UNCHANGED <<turn, handled>> /\ slots' = slots + 1
    BY <1>6, <2>1 DEF EnterTurn
  <3> QED BY <3>1, <3>2, <3>3 DEF TypeOK, Moved, Settled
 <2>2. CASE abortReq[r] = None
  <3>1. Moved BY <1>6, <1>0, <2>2 DEF EnterTurn, Place
  <3>2. turn' \in [Run -> Phase] BY <1>6, <2>2 DEF EnterTurn, TypeOK, Phase
  <3>3. handled' \in [Run -> SUBSET Text]
   <4>1. message[r] # None BY <2>0 DEF Inductive, Sound, TaskOwned
   <4>2. message[r] \in Text /\ handled \in [Run -> SUBSET Text] BY <4>1 DEF TypeOK
   <4>3. handled' = [handled EXCEPT ![r] = @ \cup {message[r]}] BY <1>6, <2>2 DEF EnterTurn
   <4> QED BY <4>2, <4>3
  <3> QED BY <1>6, <2>2, <3>1, <3>2, <3>3 DEF EnterTurn, TypeOK, Moved
 <2> QED BY <2>1, <2>2
<1>7. ASSUME TurnReturns(r, i) PROVE TypeOK'
 <2>1. PICK m \in {"wrapup", None} : LoopTop(r, i, m) BY <1>7 DEF TurnReturns
 <2>2. m \in Text \cup {None} BY DEF Text
 <2>3. turn' \in [Run -> Phase] /\ slots' \in Nat BY <1>7 DEF TurnReturns, TypeOK, Phase
 <2> QED BY <1>7, <2>1, <2>2, <2>3, LoopTopType DEF TurnReturns, TypeOK
<1>8. ASSUME BudgetExceeded(r, i) PROVE TypeOK'
 <2> DEFINE K == [root |-> r, kind |-> "budget", by |-> Nobody, why |-> "budget",
                  left |-> Descendants(r)]
 <2>1. K \in Cascade BY DEF Cascade, Descendants, Reason
 <2>2. Abort(K, cascades) /\ cascades \in SUBSET Cascade BY <1>8 DEF BudgetExceeded, TypeOK
 <2>3. Moved BY <1>8, <1>0 DEF BudgetExceeded, Place
 <2>4. turn' \in [Run -> Phase] /\ slots' \in Nat BY <1>8 DEF BudgetExceeded, TypeOK, Phase
 <2> HIDE DEF K
 <2> QED BY <1>8, <2>1, <2>2, <2>3, <2>4, AbortType DEF BudgetExceeded, TypeOK, Moved
<1>9. ASSUME BudgetSettles(r, i) PROVE TypeOK'
 <2>1. Moved /\ Settled BY <1>9, <1>0 DEF BudgetSettles, Place, Reason
 <2> QED BY <1>9, <2>1 DEF BudgetSettles, TypeOK, Moved, Settled
<1>10. ASSUME TurnRaises(r, i) PROVE TypeOK'
 <2>1. Moved /\ Settled BY <1>10, <1>0 DEF TurnRaises, Place
 <2>2. turn' \in [Run -> Phase] /\ slots' \in Nat BY <1>10 DEF TurnRaises, TypeOK, Phase
 <2> QED BY <1>10, <2>1, <2>2 DEF TurnRaises, TypeOK, Moved, Settled
<1>11. ASSUME TurnEscapes(r, i) PROVE TypeOK'
 <2>0. Why(r, "shutdown") \in Reason \cup {None} BY DEF Why, TypeOK, Reason
 <2>1. Moved /\ Settled BY <1>11, <1>0, <2>0 DEF TurnEscapes, Place
 <2>2. turn' \in [Run -> Phase] /\ slots' \in Nat /\ turnCancel' \in [Run -> BOOLEAN]
   BY <1>11 DEF TurnEscapes, TypeOK, Phase
 <2> QED BY <1>11, <2>1, <2>2 DEF TurnEscapes, TypeOK, Moved, Settled
<1>12. ASSUME Receive(r, i) PROVE TypeOK'
 <2>1. Head(inbox[r]) \in Item /\ Tail(inbox[r]) \in Seq(Item) BY <1>12 DEF Receive, TypeOK
 <2>2. PICK m \in Text \cup {None} : LoopTop(r, i, m) BY <1>12, <2>1 DEF Receive, Item, Text
 <2>3. inbox' \in [Run -> Seq(Item)] BY <1>12, <2>1 DEF Receive, TypeOK
 <2> QED BY <1>12, <2>2, <2>3, LoopTopType DEF Receive, TypeOK
<1>13. ASSUME Await(r, i) PROVE TypeOK'
 <2>1. Moved BY <1>13, <1>0 DEF Await, Place
 <2> QED BY <1>13, <2>1 DEF Await, TypeOK, Moved
<1>14. ASSUME IdleTimeout(r, i) PROVE TypeOK'
 <2>1. Moved BY <1>14, <1>0 DEF IdleTimeout, Place
 <2>2. status' \in [Run -> Live \cup Final \cup {None}]
   BY <1>14 DEF IdleTimeout, TypeOK, Live
 <2> QED BY <1>14, <2>1, <2>2 DEF IdleTimeout, TypeOK, Moved
<1>15. ASSUME TaskCancelled(r, i) PROVE TypeOK'
 <2>0. Why(r, "shutdown") \in Reason \cup {None} BY DEF Why, TypeOK, Reason
 <2>1. Moved /\ Settled BY <1>15, <1>0, <2>0 DEF TaskCancelled, Place
 <2>2. cancel' \in [Run -> [Start -> BOOLEAN]] /\ slots' \in Nat
   BY <1>15 DEF TaskCancelled, TypeOK
 <2>3. cascades' \subseteq Cascade BY <1>15 DEF TaskCancelled, TypeOK
 <2> QED BY <1>15, <2>1, <2>2, <2>3 DEF TaskCancelled, TypeOK, Moved, Settled
<1>16. ASSUME TaskEnds(r, i) PROVE TypeOK'
 <2>1. Moved BY <1>16, <1>0 DEF TaskEnds, Place
 <2>2. timers' \in [Run -> SUBSET Start] /\ timerRef' \in [Run -> 0 .. MaxStarts]
   BY <1>16, LimitsAssumption DEF TaskEnds, TypeOK
 <2>3. cascades' \subseteq Cascade BY <1>16 DEF TaskEnds, TypeOK
 <2> QED BY <1>16, <2>1, <2>2, <2>3 DEF TaskEnds, TypeOK, Moved
<1>17. ASSUME TimerFires(r, i) PROVE TypeOK'
 <2>1. Tree(r, "timer", i, "timeout") \in Cascade /\ cascades \in SUBSET Cascade
   BY TreeType DEF Reason, TypeOK
 <2>2. timers' \in [Run -> SUBSET Start] BY <1>17 DEF TimerFires, TypeOK
 <2> QED BY <1>17, <2>1, <2>2, AbortType DEF TimerFires, TypeOK
<1> QED BY <1>1, <1>2, <1>3, <1>4, <1>5, <1>6, <1>7, <1>8, <1>9, <1>10, <1>11, <1>12, <1>13,
<1>14, <1>15, <1>16, <1>17

\* Every step of a turn keeps the types.
LEMMA TypeTurn ==
  ASSUME TypeOK, NEW r \in Run
  PROVE  /\ TurnOpens(r) => TypeOK'
         /\ Request(r) => TypeOK'
         /\ \A final \in {"done", "failed"} : Yield(r, final) => TypeOK'
         /\ TurnStops(r) => TypeOK'
         /\ TurnInterrupted(r) => TypeOK'
<1>1. ASSUME TurnOpens(r) PROVE TypeOK' BY <1>1 DEF TurnOpens, TypeOK, Phase
<1>2. ASSUME Request(r) PROVE TypeOK'
 <2>1. requests' \in [Run -> 0 .. Budget + Grace]
   BY <1>2, LimitsAssumption DEF Request, TypeOK
 <2> QED BY <1>2, <2>1 DEF Request, TypeOK
<1>3. ASSUME NEW final \in {"done", "failed"}, Yield(r, final) PROVE TypeOK'
 <2>1. PutBounded(inbox[r], "wake", FALSE) \in Seq(Item) BY PutBoundedType DEF TypeOK, Item
 <2> QED BY <1>3, <2>1 DEF Yield, TypeOK
<1>4. ASSUME TurnStops(r) PROVE TypeOK' BY <1>4 DEF TurnStops, TypeOK, Phase
<1>5. ASSUME TurnInterrupted(r) PROVE TypeOK'
 <2>1. r \in Caller BY DEF Caller
 <2>2. turn' \in [Run -> Phase] /\ turnCancel' \in [Run -> BOOLEAN]
   BY <1>5 DEF TurnInterrupted, TypeOK, Phase
 <2> QED BY <1>5, <2>1, <2>2, DropCallsType DEF TurnInterrupted, TypeOK
<1> QED BY <1>1, <1>2, <1>3, <1>4, <1>5

\* The types are kept by every step.
LEMMA TypeStep == TypeOK /\ Inductive /\ [Next]_vars => TypeOK'
<1> SUFFICES ASSUME TypeOK, Inductive, [Next]_vars PROVE TypeOK' OBVIOUS
<1>1. CASE UNCHANGED vars BY <1>1 DEF TypeOK, vars
<1>2. CASE Next
 <2>1. ASSUME NEW c \in Caller, Calls(c) PROVE TypeOK' BY <2>1, TypeCalls DEF Calls
 <2>2. ASSUME NEW r \in Run,
              \/ SpawnReturns(r) \/ ReviveReturns(r) \/ WaitEnds(r)
              \/ Detach(r) \/ ShutdownNext(r)
       PROVE  TypeOK'
   BY <2>2, TypeCalls DEF Caller
 <2>3. ASSUME NEW r \in Run,
              TurnStep(r) \/ Request(r) \/ \E final \in {"done", "failed"} : Yield(r, final)
       PROVE  TypeOK'
   BY <2>3, TypeTurn DEF TurnStep
 <2>4. ASSUME NEW r \in Run, NEW i \in Start,
              \/ TaskStep(r, i) \/ BuildFails(r, i) \/ Acquire(r, i)
              \/ IdleTimeout(r, i) \/ TimerFires(r, i)
       PROVE  TypeOK'
   BY <2>4, TypeTask DEF TaskStep
 <2>5. ASSUME NEW k \in cascades, ResumeAbort(k) \/ DetachStarts(k) PROVE TypeOK'
  <3>1. PICK r \in Run : TRUE BY <2>5 DEF TypeOK, Cascade
  <3> QED BY <2>5, <3>1, TypeCalls DEF Caller
 <2>6. ASSUME MainInterrupted \/ ShutdownBegins PROVE TypeOK'
  <3>1. CASE MainInterrupted BY <3>1, DropCallsType DEF MainInterrupted, TypeOK, Caller
  <3>2. CASE ShutdownBegins BY <3>2 DEF ShutdownBegins, TypeOK, Known
  <3> QED BY <2>6, <3>1, <3>2
 <2> QED BY <1>2, <2>1, <2>2, <2>3, <2>4, <2>5, <2>6 DEF Next
<1> QED BY <1>1, <1>2

------------------------------------------------------------------------------
(* The inductive invariant: permits, and one run at a time. *)

\* The places where a task holds a permit.
InTurn == {"entering", "turn"}

\* Nothing Sound(x) speaks of changes.
Same(x) ==
  /\ status'[x] = status[x] /\ abortReq'[x] = abortReq[x] /\ completion'[x] = completion[x]
  /\ message'[x] = message[x] /\ task'[x] = task[x] /\ pc'[x] = pc[x]
  /\ cancel'[x] = cancel[x] /\ turn'[x] = turn[x]
  /\ spawner'[x].by = spawner[x].by /\ reviver'[x].by = reviver[x].by

\* ... and so x stays sound.
LEMMA SameSound ==
  ASSUME NEW x \in Run, Sound(x), Same(x)
  PROVE  Sound(x)'
BY DEF Same, Sound, StartPending, TaskOwned, CancelCaused, Terminal, TurnLive

\* The permits stay where they are.
LEMMA PermitsSame ==
  ASSUME PermitsKept, slots' = slots,
         \A x \in Run, j \in Start : pc'[x][j] \in InTurn <=> pc[x][j] \in InTurn
  PROVE  PermitsKept'
<1>1. Holding' = Holding BY DEF Holding, InTurn
<1> QED BY <1>1 DEF PermitsKept

\* The holders are finitely many.
LEMMA HoldingFinite == IsFiniteSet(Holding) /\ Cardinality(Holding) \in Nat
BY RunsAssumption, FS_Subset, FS_CardinalityType DEF Holding

\* A run takes a permit.
LEMMA PermitTaken ==
  ASSUME TypeOK, PermitsKept, NEW r \in Run, NEW i \in Start,
         \A j \in Start : pc[r][j] \notin InTurn,
         pc'[r][i] \in InTurn, \A x \in Run \ {r} : pc'[x] = pc[x],
         slots > 0, slots' = slots - 1
  PROVE  PermitsKept'
<1>1. r \notin Holding /\ Holding' = Holding \cup {r} BY DEF Holding, InTurn
<1>2. Cardinality(Holding') = Cardinality(Holding) + 1 BY <1>1, HoldingFinite, FS_AddElement
<1> QED BY <1>2, HoldingFinite, LimitsAssumption DEF PermitsKept, TypeOK

\* A run gives its permit back.
LEMMA PermitGiven ==
  ASSUME TypeOK, PermitsKept, NEW r \in Run, NEW i \in Start, pc[r][i] \in InTurn,
         \A j \in Start : pc'[r][j] \notin InTurn, \A x \in Run \ {r} : pc'[x] = pc[x],
         slots' = slots + 1
  PROVE  PermitsKept'
<1>1. r \in Holding /\ Holding' = Holding \ {r} BY DEF Holding, InTurn
<1>2. Cardinality(Holding') = Cardinality(Holding) - 1
  BY <1>1, HoldingFinite, FS_RemoveElement
<1> QED BY <1>2, HoldingFinite, LimitsAssumption DEF PermitsKept, TypeOK

\* What a stretch of a cascade does to a run.
LEMMA AbortEffect ==
  ASSUME TypeOK, NEW k \in Cascade, NEW ks, Abort(k, ks), NEW x \in Run
  PROVE  /\ \/ status'[x] = status[x] /\ results'[x] = results[x] /\ abortReason'[x] = abortReason[x]
            \/ /\ Direct(x) /\ status'[x] = "aborted" /\ results'[x] = results[x] + 1
               /\ abortReason'[x] = abortReq'[x] /\ abortReq'[x] # None
         /\ Terminal(x) \/ abortReq[x] # None => abortReq'[x] = abortReq[x]
         /\ \A j \in Start : cancel'[x][j] =>
              \/ cancel[x][j]
              \/ j = task[x] /\ abortReq'[x] # None /\ TaskLive(x) /\ ~Terminal(x)
<1>1. PICK B \in Batches(k.left) : AbortBatch(B, k.why) BY DEF Abort
<1>2. k.why # None /\ Why(x, k.why) # None BY DEF Cascade, Why, Reason, None
<1>3. abortReq'[x] = IF x \in B /\ ~Terminal(x) THEN Why(x, k.why) ELSE abortReq[x]
  BY <1>1 DEF AbortBatch
<1>4. Terminal(x) \/ abortReq[x] # None => abortReq'[x] = abortReq[x] BY <1>3 DEF Why
<1>5. CASE x \in B /\ Direct(x) BY <1>1, <1>2, <1>3, <1>4, <1>5 DEF AbortBatch, Direct
<1>6. CASE ~(x \in B /\ Direct(x))
 <2>1. status'[x] = status[x] /\ abortReason'[x] = abortReason[x]
   BY <1>1, <1>6 DEF AbortBatch
 <2>2. results'[x] = results[x] BY <1>1, <1>6 DEF AbortBatch, TypeOK
 <2>3. \A j \in Start : cancel'[x][j] =>
         cancel[x][j] \/ (j = task[x] /\ abortReq'[x] # None /\ TaskLive(x) /\ ~Terminal(x))
   BY <1>1, <1>2, <1>3 DEF AbortBatch
 <2> QED BY <1>4, <2>1, <2>2, <2>3
<1> QED BY <1>5, <1>6

\* A cascade leaves every run sound.
LEMMA AbortSound ==
  ASSUME TypeOK, Inductive, NEW k \in Cascade, NEW ks, Abort(k, ks), NEW x \in Run,
         completion'[x] = completion[x], message'[x] = message[x], task'[x] = task[x],
         pc'[x] = pc[x], turn'[x] = turn[x], spawner'[x] = spawner[x], reviver'[x] = reviver[x]
  PROVE  Sound(x)'
<1>1. Sound(x) BY DEF Inductive
<1>2. Direct(x) => \A j \in Start : pc[x][j] \notin InLoop
  BY <1>1 DEF Direct, Sound, TaskOwned, TaskLive, InLoop, Start
<1>3. Direct(x) => ~Terminal(x) BY DEF Direct
<1>4. \A j \in Start : TaskOwned(x, j)'
  BY <1>1, <1>2, <1>3, AbortEffect
     DEF Sound, TaskOwned, Terminal, TurnLive, Final, InLoop, Served, Place
<1>5. \A j \in Start : CancelCaused(x, j)'
 <2>1. TaskLive(x) => \A j \in Start : j # task[x] => pc[x][j] \notin Served
   BY <1>1 DEF Sound, TaskOwned, Served
 <2>2. ASSUME NEW j \in Start PROVE CancelCaused(x, j)'
  <3>0. CASE ~cancel'[x][j] BY <3>0 DEF CancelCaused
  <3>1. CASE cancel[x][j] BY <1>1, <3>1, AbortEffect DEF Sound, CancelCaused
  <3>2. CASE ~cancel[x][j] /\ cancel'[x][j]
   <4>1. j = task[x] /\ abortReq'[x] # None /\ TaskLive(x) BY <3>2, AbortEffect
   <4> QED BY <2>1, <4>1 DEF CancelCaused
  <3> QED BY <3>0, <3>1, <3>2
 <2> QED BY <2>2 DEF CancelCaused
<1>6. StartPending(x)'
 <2>1. /\ status'[x] = status[x] \/ (status'[x] = "aborted" /\ abortReq'[x] # None /\ Direct(x))
       /\ abortReq[x] # None => abortReq'[x] = abortReq[x]
   BY AbortEffect
 <2>2. status'[x] = None => status[x] = None BY <2>1 DEF None
 <2>3. status'[x] = "parked" => status[x] = "parked" BY <2>1
 <2>4. Terminal(x)' => Terminal(x) \/ abortReq'[x] # None BY <2>1 DEF Terminal
 <2> QED BY <1>1, <2>1, <2>2, <2>3, <2>4 DEF Sound, StartPending, TurnLive
<1> QED BY <1>4, <1>5, <1>6 DEF Sound

\* One run changes and stays sound, the others do not change.
LEMMA OneSound ==
  ASSUME Inductive, NEW r \in Run, Sound(r)', PermitsKept', \A x \in Run \ {r} : Same(x)
  PROVE  Inductive'
<1>1. ASSUME NEW x \in Run PROVE Sound(x)'
 <2>1. CASE x = r BY <2>1
 <2>2. CASE x # r BY <2>2, SameSound DEF Inductive
 <2> QED BY <2>1, <2>2
<1> QED BY <1>1 DEF Inductive

\* Every run stays sound and the permits stay where they are.
LEMMA AllSound ==
  ASSUME PermitsKept', \A x \in Run : Sound(x)'
  PROVE  Inductive'
BY DEF Inductive

\* A caller's dropped calls start nothing.
LEMMA DropCallsSound ==
  ASSUME TypeOK, Inductive, NEW c \in Caller, DropCalls(c), NEW x \in Run,
         status'[x] = status[x], abortReq'[x] = abortReq[x], completion'[x] = completion[x],
         message'[x] = message[x], task'[x] = task[x], pc'[x] = pc[x],
         cancel'[x] = cancel[x], turn'[x] # None <=> turn[x] # None
  PROVE  Sound(x)'
<1>1. /\ spawner'[x].by = spawner[x].by \/ spawner'[x].by = Nobody
      /\ reviver'[x].by = reviver[x].by \/ reviver'[x].by = Nobody
  BY DEF DropCalls, NoSpawner, NoReviver
<1>2. Sound(x) BY DEF Inductive
<1>3. StartPending(x)' BY <1>1, <1>2 DEF Sound, StartPending, Terminal, TurnLive
<1> QED BY <1>1, <1>2, <1>3 DEF Sound, TaskOwned, CancelCaused, Terminal, TurnLive

\* A run without a task in its loop stays sound when its callers do.
LEMMA OutsideSound ==
  ASSUME NEW x \in Run, Sound(x), \A j \in Start : pc[x][j] \notin InLoop,
         pc'[x] = pc[x], cancel'[x] = cancel[x], abortReq'[x] = abortReq[x], StartPending(x)'
  PROVE  Sound(x)'
<1>1. ASSUME NEW j \in Start PROVE pc[x][j] \notin Served /\ pc[x][j] \notin InTurn
                                  /\ pc[x][j] # "queueing"
  BY DEF Served, InLoop, InTurn, Place, None
<1>2. ASSUME NEW j \in Start PROVE TaskOwned(x, j)' BY <1>1 DEF TaskOwned, InTurn
<1>3. ASSUME NEW j \in Start PROVE CancelCaused(x, j)' BY <1>1 DEF Sound, CancelCaused
<1> QED BY <1>2, <1>3 DEF Sound

\* Every operation of the registry keeps the inductive invariant.
LEMMA InductiveCalls ==
  ASSUME TypeOK, Inductive, NEW c \in Caller, NEW r \in Run
  PROVE  /\ Spawn(c, r) => Inductive'
         /\ SpawnReturns(r) => Inductive'
         /\ WaitEnds(r) => Inductive'
         /\ \A m \in Msg, interrupt \in BOOLEAN : Send(c, r, m, interrupt) => Inductive'
         /\ \A m \in Msg \cup {None} : Revive(c, r, m) => Inductive'
         /\ ReviveReturns(r) => Inductive'
         /\ Cancel(c, r) => Inductive'
         /\ \A k \in cascades : ResumeAbort(k) => Inductive'
         /\ MainInterrupted => Inductive'
         /\ Detach(r) => Inductive'
         /\ \A k \in cascades : DetachStarts(k) => Inductive'
         /\ ShutdownBegins => Inductive'
         /\ ShutdownNext(r) => Inductive'
<1>0. PermitsKept /\ Sound(r) BY DEF Inductive
<1>1. ASSUME Spawn(c, r) PROVE Inductive'
 <2>1. PermitsKept' BY <1>0, <1>1, PermitsSame DEF Spawn
 <2>2. \A x \in Run \ {r} : Same(x) BY <1>1 DEF Spawn, Same, TypeOK
 <2>3. Sound(r)'
  <3>1. /\ status[r] = None /\ task[r] = 0 /\ reviver[r].by = Nobody
        /\ status'[r] = "queued" /\ spawner'[r].by = c
    BY <1>0, <1>1 DEF Spawn, Sound, StartPending, TypeOK
  <3>2. \A j \in Start : pc[r][j] \notin InLoop
    BY <1>0, <3>1, LimitsAssumption DEF Sound, TaskOwned, Start
  <3>3. ~Terminal(r)' BY <3>1 DEF Terminal, Final
  <3>4. /\ task'[r] = task[r] /\ pc'[r] = pc[r] /\ cancel'[r] = cancel[r] /\ turn'[r] = turn[r]
        /\ abortReq'[r] = abortReq[r] /\ reviver'[r] = reviver[r]
    BY <1>1 DEF Spawn
  <3>5. StartPending(r)' BY <1>0, <3>1, <3>3, <3>4 DEF Sound, StartPending, TurnLive, None
  <3> QED BY <1>0, <3>2, <3>4, <3>5, OutsideSound
 <2> QED BY <2>1, <2>2, <2>3, OneSound
<1>2. ASSUME SpawnReturns(r) PROVE Inductive'
 <2>1. /\ task[r] = 0 /\ reviver[r].by = Nobody
       /\ (Terminal(r) => abortReq[r] # None)
       /\ status[r] # None /\ status[r] # "parked"
   BY <1>0, <1>2 DEF SpawnReturns, Sound, StartPending
 <2>2. \A j \in Start : pc[r][j] \notin InLoop
   BY <1>0, <2>1, LimitsAssumption DEF Sound, TaskOwned, Start
 <2>3. 1 \in Start BY LimitsAssumption DEF Start
 <2>4. /\ task'[r] = 1 /\ spawner'[r].by = Nobody
       /\ \A j \in Start : pc'[r][j] = IF j = 1 THEN "created" ELSE pc[r][j]
   BY <1>2, <2>3 DEF SpawnReturns, Goto, TypeOK, NoSpawner
 <2>5. PermitsKept'
  <3>1. \A x \in Run, j \in Start : pc'[x][j] \in InTurn <=> pc[x][j] \in InTurn
   <4>1. \A x \in Run \ {r} : pc'[x] = pc[x] BY <1>2 DEF SpawnReturns, Goto, TypeOK
   <4>2. \A j \in Start : pc'[r][j] \in InTurn <=> pc[r][j] \in InTurn
     BY <2>2, <2>4 DEF InTurn, InLoop, None, Place
   <4> QED BY <4>1, <4>2
  <3> QED BY <1>0, <1>2, <3>1, PermitsSame DEF SpawnReturns
 <2>6. \A x \in Run \ {r} : Same(x) BY <1>2 DEF SpawnReturns, Goto, Same, TypeOK
 <2>7. turn'[r] = turn[r] /\ turn[r] = None
   BY <1>0, <1>2, <2>2 DEF SpawnReturns, Sound, StartPending, TurnLive, InLoop, None, Place
 <2>8. Sound(r)'
   BY <1>0, <1>2, <2>1, <2>2, <2>4, <2>7
      DEF SpawnReturns, Sound, StartPending, TaskOwned, CancelCaused, Terminal, TurnLive, InLoop,
         Served, None, Place
 <2> QED BY <2>5, <2>6, <2>8, OneSound
<1>3. ASSUME WaitEnds(r) PROVE Inductive'
 <2>1. \A x \in Run \ {r} : Same(x) BY <1>3 DEF WaitEnds, Same
 <2>2. Same(r) BY <1>3 DEF WaitEnds, Same
 <2> QED BY <1>0, <1>3, <2>1, <2>2, SameSound, OneSound, PermitsSame DEF WaitEnds
<1>4. ASSUME NEW m \in Msg, NEW interrupt \in BOOLEAN, Send(c, r, m, interrupt)
      PROVE  Inductive'
 <2>1. \A x \in Run \ {r} : Same(x) BY <1>4 DEF Send, Same
 <2>2. Same(r) BY <1>4 DEF Send, Same
 <2> QED BY <1>0, <1>4, <2>1, <2>2, SameSound, OneSound, PermitsSame DEF Send
<1>5. ASSUME NEW m \in Msg \cup {None}, Revive(c, r, m) PROVE Inductive'
 <2>1. /\ status[r] = "parked" /\ task[r] # 0 /\ spawner[r].by = Nobody
       /\ task[r] < MaxStarts /\ status'[r] = "idle" /\ reviver'[r].by = c
   BY <1>0, <1>5 DEF Revive, Sound, StartPending, TypeOK
 <2>2. \A j \in Start : pc[r][j] \notin InLoop BY <1>0, <2>1 DEF Sound, TaskOwned
 <2>3. \A x \in Run \ {r} : Same(x) BY <1>5 DEF Revive, Same, TypeOK
 <2>4. task[r] \in 1 .. MaxStarts - 1 BY <2>1, LimitsAssumption, SMTT(30) DEF TypeOK
 <2>5. ~Terminal(r)' BY <2>1 DEF Terminal, Final
 <2>6. Sound(r)'
  <3>1. /\ task'[r] = task[r] /\ pc'[r] = pc[r] /\ cancel'[r] = cancel[r] /\ turn'[r] = turn[r]
        /\ abortReq'[r] = abortReq[r] /\ spawner'[r] = spawner[r]
    BY <1>5 DEF Revive
  <3>2. StartPending(r)'
    BY <1>0, <2>1, <2>4, <2>5, <3>1 DEF Sound, StartPending, TurnLive, None
  <3> QED BY <1>0, <2>2, <3>1, <3>2, OutsideSound
 <2> QED BY <1>0, <1>5, <2>3, <2>6, OneSound, PermitsSame DEF Revive
<1>6. ASSUME ReviveReturns(r) PROVE Inductive'
 <2>1. /\ task[r] \in 1 .. MaxStarts - 1
       /\ (Terminal(r) => abortReq[r] # None)
       /\ status[r] # None /\ status[r] # "parked" /\ spawner[r].by = Nobody
   BY <1>0, <1>6 DEF ReviveReturns, Sound, StartPending
 <2>2. \A j \in Start : pc[r][j] \notin InLoop
   BY <1>0, <1>6 DEF ReviveReturns, Sound, TaskOwned
 <2>3. /\ reviver'[r].by = Nobody
       /\ \/ task'[r] = task[r] /\ pc'[r] = pc[r]
          \/ /\ task'[r] = task[r] + 1
             /\ \A j \in Start : pc'[r][j] = IF j = task[r] + 1 THEN "created" ELSE pc[r][j]
   BY <1>6 DEF ReviveReturns, Goto, TypeOK, NoReviver
 <2>4. PermitsKept'
  <3>1. \A x \in Run \ {r} : pc'[x] = pc[x] BY <1>6 DEF ReviveReturns, Goto, TypeOK
  <3>2. \A j \in Start : pc'[r][j] \in InTurn <=> pc[r][j] \in InTurn
    BY <2>1, <2>2, <2>3 DEF InTurn, InLoop, None, Place
  <3>3. \A x \in Run, j \in Start : pc'[x][j] \in InTurn <=> pc[x][j] \in InTurn
    BY <3>1, <3>2
  <3> QED BY <1>0, <1>6, <3>3, PermitsSame DEF ReviveReturns
 <2>5. \A x \in Run \ {r} : Same(x) BY <1>6 DEF ReviveReturns, Goto, Same, TypeOK
 <2>6. turn'[r] = turn[r] /\ turn[r] = None
   BY <1>0, <1>6, <2>2 DEF ReviveReturns, Sound, StartPending, TurnLive, InLoop, None, Place
 <2>7. /\ status'[r] = status[r] /\ abortReq'[r] = abortReq[r] /\ cancel'[r] = cancel[r]
       /\ spawner'[r] = spawner[r] /\ completion'[r] = completion[r]
   BY <1>6 DEF ReviveReturns
 <2>8. Sound(r)'
  <3>1. StartPending(r)' BY <2>1, <2>3, <2>6, <2>7 DEF StartPending, TurnLive
  <3>2. ASSUME NEW j \in Start PROVE TaskOwned(r, j)' /\ CancelCaused(r, j)'
    BY <1>0, <2>1, <2>2, <2>3, <2>7, <3>2
       DEF Sound, TaskOwned, CancelCaused, Terminal, InLoop, Served, None, Place
  <3> QED BY <3>1, <3>2 DEF Sound
 <2> QED BY <2>4, <2>5, <2>8, OneSound
<1>7. ASSUME Cancel(c, r) PROVE Inductive'
 <2>1. Tree(r, "call", c, "cancel") \in Cascade BY TreeType DEF Reason
 <2>2. Abort(Tree(r, "call", c, "cancel"), cascades) BY <1>7 DEF Cancel
 <2>3. ASSUME NEW x \in Run PROVE Sound(x)' BY <1>7, <2>1, <2>2, AbortSound DEF Cancel
 <2> QED BY <1>0, <1>7, <2>3, AllSound, PermitsSame DEF Cancel
<1>8. ASSUME NEW k \in cascades, ResumeAbort(k) PROVE Inductive'
 <2>1. k \in Cascade /\ Abort(k, cascades \ {k}) BY <1>8 DEF ResumeAbort, TypeOK
 <2>2. ASSUME NEW x \in Run PROVE Sound(x)' BY <1>8, <2>1, AbortSound DEF ResumeAbort
 <2> QED BY <1>0, <1>8, <2>2, AllSound, PermitsSame DEF ResumeAbort
<1>9. ASSUME MainInterrupted PROVE Inductive'
 <2>1. ASSUME NEW x \in Run PROVE Sound(x)'
   BY <1>9, DropCallsSound DEF MainInterrupted, Caller
 <2> QED BY <1>0, <1>9, <2>1, AllSound, PermitsSame DEF MainInterrupted
<1>10. ASSUME Detach(r) PROVE Inductive'
 <2>1. \/ abortReq' = abortReq
       \/ abortReq[r] = None /\ abortReq' = [abortReq EXCEPT ![r] = "cancel"]
   BY <1>10 DEF Detach
 <2>2. \A x \in Run \ {r} : Same(x) BY <1>10, <2>1 DEF Detach, Same, TypeOK
 <2>3. abortReq[r] # None => abortReq'[r] # None BY <2>1
 <2>4. Sound(r)'
   BY <1>0, <1>10, <2>3
      DEF Detach, Sound, StartPending, TaskOwned, CancelCaused, Terminal, TurnLive
 <2>5. PermitsKept' BY <1>0, <1>10, PermitsSame DEF Detach
 <2> QED BY <2>2, <2>4, <2>5, OneSound
<1>11. ASSUME NEW k \in cascades, DetachStarts(k) PROVE Inductive'
 <2>1. Tree(k.root, "detach", Nobody, "cancel") \in Cascade
  <3>1. k.root \in Run BY DEF TypeOK, Cascade
  <3> QED BY <3>1, TreeType DEF Reason
 <2>2. Abort(Tree(k.root, "detach", Nobody, "cancel"), cascades \ {k})
   BY <1>11 DEF DetachStarts
 <2>3. ASSUME NEW x \in Run PROVE Sound(x)'
   BY <1>11, <2>1, <2>2, AbortSound DEF DetachStarts
 <2> QED BY <1>0, <1>11, <2>3, AllSound, PermitsSame DEF DetachStarts
<1>12. ASSUME ShutdownBegins PROVE Inductive'
 <2>1. \A x \in Run : Same(x) BY <1>12 DEF ShutdownBegins, Same
 <2>2. ASSUME NEW x \in Run PROVE Sound(x)' BY <2>1, SameSound DEF Inductive
 <2> QED BY <1>0, <1>12, <2>2, AllSound, PermitsSame DEF ShutdownBegins
<1>13. ASSUME ShutdownNext(r) PROVE Inductive'
 <2>1. PermitsKept' BY <1>0, <1>13, PermitsSame DEF ShutdownNext
 <2>2. CASE Terminal(r)
  <3>1. \A x \in Run : Same(x) BY <1>13, <2>2 DEF ShutdownNext, Same
  <3>2. ASSUME NEW x \in Run PROVE Sound(x)' BY <3>1, SameSound DEF Inductive
  <3> QED BY <2>1, <3>2, AllSound
 <2>3. CASE ~Terminal(r)
  <3>1. Tree(r, "shutdown", Nobody, "shutdown") \in Cascade BY TreeType DEF Reason
  <3>2. Abort(Tree(r, "shutdown", Nobody, "shutdown"), cascades)
    BY <1>13, <2>3 DEF ShutdownNext
  <3>3. ASSUME NEW x \in Run PROVE Sound(x)'
    BY <1>13, <3>1, <3>2, AbortSound DEF ShutdownNext
  <3> QED BY <2>1, <3>3, AllSound
 <2> QED BY <2>2, <2>3
<1> QED BY <1>1, <1>2, <1>3, <1>4, <1>5, <1>6, <1>7, <1>8, <1>9, <1>10, <1>11, <1>12, <1>13

\* What is known of a run whose task i is in its loop.
LEMMA LoopFacts ==
  ASSUME Inductive, NEW r \in Run, NEW i \in Start, pc[r][i] \in InLoop
  PROVE  /\ i = task[r] /\ task[r] # 0 /\ status[r] \notin {None, "parked"}
         /\ spawner[r].by = Nobody /\ reviver[r].by = Nobody
         /\ Terminal(r) => abortReq[r] # None
         /\ \A j \in Start \ {i} : pc[r][j] \notin InLoop
         /\ \A j \in Start \ {i} : pc[r][j] \notin Served /\ pc[r][j] \notin InTurn
         /\ turn[r] # None <=> pc[r][i] = "turn"
         /\ pc[r][i] \in Served => ~Terminal(r)
         /\ pc[r][i] \in {"queueing", "entering"} => completion[r] = None /\ message[r] # None
         /\ abortReq[r] = None => \A j \in Start : ~cancel[r][j]
         /\ pc[r][i] \in Served => \A j \in Start \ {i} : ~cancel[r][j]
<1>1. Sound(r) BY DEF Inductive
<1>2. /\ i = task[r] /\ status[r] # "parked" /\ spawner[r].by = Nobody /\ reviver[r].by = Nobody
      /\ (Terminal(r) => abortReq[r] # None) /\ (pc[r][i] \in Served => ~Terminal(r))
      /\ (pc[r][i] \in {"queueing", "entering"} => completion[r] = None /\ message[r] # None)
  BY <1>1 DEF Sound, TaskOwned
<1>3. task[r] # 0 /\ status[r] # None
  BY <1>1, <1>2, LimitsAssumption DEF Sound, StartPending, Start
<1>4. \A j \in Start \ {i} : pc[r][j] \notin InLoop BY <1>1, <1>2 DEF Sound, TaskOwned
<1>5. \A j \in Start \ {i} : pc[r][j] \notin Served /\ pc[r][j] \notin InTurn /\ pc[r][j] #
"turn"
  BY <1>4 DEF InLoop, Served, InTurn, None, Place
<1>6. turn[r] # None <=> pc[r][i] = "turn"
  BY <1>1, <1>5 DEF Sound, StartPending, TaskOwned, TurnLive
<1>7. /\ abortReq[r] = None => \A j \in Start : ~cancel[r][j]
      /\ pc[r][i] \in Served => \A j \in Start \ {i} : ~cancel[r][j]
  BY <1>1 DEF Sound, CancelCaused
<1> QED BY <1>2, <1>3, <1>4, <1>5, <1>6, <1>7

\* The task leaves its loop.
LEMMA LeaveSound ==
  ASSUME Inductive, NEW r \in Run, NEW i \in Start, pc[r][i] \in InLoop,
         NEW q \in {"settling", "parking", "ended"},
         \A j \in Start : pc'[r][j] = IF j = i THEN q ELSE pc[r][j],
         task'[r] = task[r], abortReq'[r] = abortReq[r], turn'[r] = None, status'[r] # None,
         spawner'[r] = spawner[r], reviver'[r] = reviver[r],
         \A j \in Start : cancel'[r][j] => cancel[r][j]
  PROVE  Sound(r)'
<1>1. StartPending(r)' BY LoopFacts DEF StartPending, TurnLive
<1>2. ASSUME NEW j \in Start PROVE pc'[r][j] \notin InLoop /\ pc'[r][j] \notin Served
                                   /\ pc'[r][j] \notin InTurn /\ pc'[r][j] # "queueing"
  BY LoopFacts DEF InLoop, Served, InTurn, Place, None
<1>3. ASSUME NEW j \in Start PROVE TaskOwned(r, j)' BY <1>2 DEF TaskOwned, InTurn
<1>4. ASSUME NEW j \in Start PROVE CancelCaused(r, j)'
 <2>1. cancel[r][j] => abortReq[r] # None BY DEF Inductive, Sound, CancelCaused
 <2> QED BY <1>2, <2>1 DEF CancelCaused
<1> QED BY <1>1, <1>3, <1>4 DEF Sound

\* The task goes on in its loop.
LEMMA StaySound ==
  ASSUME Inductive, NEW r \in Run, NEW i \in Start, pc[r][i] \in InLoop, NEW q \in InLoop,
         \A j \in Start : pc'[r][j] = IF j = i THEN q ELSE pc[r][j],
         task'[r] = task[r], abortReq'[r] = abortReq[r],
         spawner'[r] = spawner[r], reviver'[r] = reviver[r],
         status'[r] \notin {None, "parked"},
         status'[r] \in Final => status'[r] = status[r],
         q \in Served => abortReq[r] = None \/ pc[r][i] \in Served,
         q \in Served => ~Terminal(r),
         q \in {"queueing", "entering"} => completion'[r] = None /\ message'[r] # None,
         turn'[r] # None <=> q = "turn",
         \A j \in Start : cancel'[r][j] => cancel[r][j]
  PROVE  Sound(r)'
<1>1. StartPending(r)' BY LoopFacts DEF StartPending, TurnLive
<1>2. Terminal(r)' => Terminal(r) BY DEF Terminal
<1>3. ASSUME NEW j \in Start PROVE TaskOwned(r, j)'
 <2>1. CASE j = i BY <1>2, <2>1, LoopFacts DEF TaskOwned, TurnLive
 <2>2. CASE j # i
  <3>1. /\ pc'[r][j] \notin InLoop /\ pc'[r][j] \notin Served /\ pc'[r][j] \notin InTurn
        /\ pc'[r][j] # "queueing"
    BY <2>2, LoopFacts DEF InLoop, Place, None
  <3> QED BY <3>1 DEF TaskOwned, InTurn
 <2> QED BY <2>1, <2>2
<1>4. ASSUME NEW j \in Start PROVE CancelCaused(r, j)'
 <2>1. cancel[r][j] => abortReq[r] # None BY DEF Inductive, Sound, CancelCaused
 <2>2. CASE j = i BY <2>1, <2>2, LoopFacts DEF CancelCaused
 <2>3. CASE j # i
  <3>1. q \in Served => ~cancel[r][j] BY <2>1, <2>3, LoopFacts
  <3>2. \A h \in Start : h # j => (pc'[r][h] \in Served => q \in Served) BY <2>3, LoopFacts
  <3> QED BY <2>1, <3>1, <3>2 DEF CancelCaused
 <2> QED BY <2>2, <2>3
<1> QED BY <1>1, <1>3, <1>4 DEF Sound

\* The loop goes through its head.
LEMMA LoopTopSound ==
  ASSUME TypeOK, Inductive, NEW r \in Run, NEW i \in Start, pc[r][i] \in InLoop,
         NEW m, LoopTop(r, i, m),
         task'[r] = task[r], abortReq'[r] = abortReq[r], completion'[r] = completion[r],
         spawner'[r] = spawner[r], reviver'[r] = reviver[r], turn'[r] = None,
         cancel'[r] = cancel[r]
  PROVE  Sound(r)' /\ \A j \in Start : pc'[r][j] \notin InTurn
<1>1. PICK q \in {"settling", "queueing", "idling"} :
        /\ \A j \in Start : pc'[r][j] = IF j = i THEN q ELSE pc[r][j]
        /\ q # "settling" => abortReq[r] = None /\ completion[r] = None
        /\ q = "queueing" => m # None /\ status' = status
        /\ q = "idling" => status'[r] = "idle"
        /\ q = "settling" => status'[r] = status[r] \/ status'[r] \in Final
 <2>1. CASE abortReq[r] # None BY <2>1 DEF LoopTop, Goto, Settle, TypeOK, Final
 <2>2. CASE abortReq[r] = None /\ completion[r] # None
   BY <2>2 DEF LoopTop, Goto, Settle, TypeOK, Final
 <2>3. CASE abortReq[r] = None /\ completion[r] = None BY <2>3 DEF LoopTop, Goto, TypeOK
 <2> QED BY <2>1, <2>2, <2>3
<1>2. message'[r] = m BY DEF LoopTop, TypeOK
<1>3. \A j \in Start : pc'[r][j] \notin InTurn BY <1>1, LoopFacts DEF InTurn
<1>4. CASE q = "settling"
 <2>1. status'[r] # None BY <1>1, <1>4, LoopFacts DEF Final, None
 <2> QED BY <1>1, <1>3, <1>4, <2>1, LeaveSound
<1>5. CASE q # "settling"
 <2>1. ~Terminal(r) BY <1>1, <1>5, LoopFacts
 <2>2. q \in InLoop /\ q # "turn" /\ q # "entering" BY <1>1, <1>5 DEF InLoop, Place, None
 <2>3. status'[r] \notin {None, "parked"} /\ status'[r] \notin Final
   BY <1>1, <1>5, <2>1, LoopFacts DEF Final, None, Terminal
 <2> QED BY <1>1, <1>2, <1>3, <1>5, <2>1, <2>2, <2>3, StaySound
<1> QED BY <1>4, <1>5

\* Every step of a run's task keeps the inductive invariant.
LEMMA InductiveTask ==
  ASSUME TypeOK, Inductive, NEW r \in Run, NEW i \in Start
  PROVE  /\ TaskStarts(r, i) => Inductive'
         /\ TaskStillborn(r, i) => Inductive'
         /\ Built(r, i) => Inductive'
         /\ BuildFails(r, i) => Inductive'
         /\ Acquire(r, i) => Inductive'
         /\ EnterTurn(r, i) => Inductive'
         /\ TurnReturns(r, i) => Inductive'
         /\ BudgetExceeded(r, i) => Inductive'
         /\ BudgetSettles(r, i) => Inductive'
         /\ TurnRaises(r, i) => Inductive'
         /\ TurnEscapes(r, i) => Inductive'
         /\ Receive(r, i) => Inductive'
         /\ Await(r, i) => Inductive'
         /\ IdleTimeout(r, i) => Inductive'
         /\ TaskCancelled(r, i) => Inductive'
         /\ TaskEnds(r, i) => Inductive'
         /\ TimerFires(r, i) => Inductive'
<1> DEFINE Goes(q) == /\ \A j \in Start : pc'[r][j] = IF j = i THEN q ELSE pc[r][j]
                      /\ \A x \in Run \ {r} : pc'[x] = pc[x]
           Ends == /\ status'[r] = status[r] \/ status'[r] \in Final
                   /\ \A x \in Run \ {r} : status'[x] = status[x]
<1>0. PermitsKept /\ Sound(r) BY DEF Inductive
<1>a. ASSUME NEW q, Goto(r, i, q) PROVE Goes(q) BY <1>a DEF Goto, TypeOK
<1>b. ASSUME NEW final \in Final, NEW reason, Settle(r, final, reason) PROVE Ends
  BY <1>b DEF Settle, TypeOK
<1>c. ASSUME NEW q, Goes(q), q \notin InTurn, pc[r][i] \notin InTurn, slots' = slots
      PROVE  PermitsKept'
 <2>1. \A x \in Run, j \in Start : pc'[x][j] \in InTurn <=> pc[x][j] \in InTurn BY <1>c
 <2> QED BY <1>0, <1>c, <2>1, PermitsSame
<1>d. ASSUME NEW q, Goes(q), q \notin InTurn, pc[r][i] \in InTurn, slots' = slots + 1
      PROVE  PermitsKept'
 <2>1. pc[r][i] \in InLoop BY <1>d DEF InTurn, InLoop, Place, None
 <2>2. \A j \in Start : pc'[r][j] \notin InTurn BY <1>d, <2>1, LoopFacts
 <2> QED BY <1>0, <1>d, <2>2, PermitGiven
<1>e. ASSUME Ends, pc[r][i] \in InLoop PROVE status'[r] # None
  BY <1>e, LoopFacts DEF Final, None
<1>f. "aborted" \in Final /\ "failed" \in Final BY DEF Final
<1> HIDE DEF Goes, Ends
<1>1. ASSUME TaskStarts(r, i) PROVE Inductive'
 <2>1. pc[r][i] = "created" /\ Goes("building") /\ slots' = slots
   BY <1>1, <1>a DEF TaskStarts
 <2>2. pc[r][i] \in InLoop /\ "building" \in InLoop /\ "building" \notin Served
   BY <2>1 DEF InLoop, Served, Place, None
 <2>3. PermitsKept' BY <1>c, <2>1 DEF InTurn
 <2>4. \A x \in Run \ {r} : Same(x) BY <1>1, <2>1 DEF TaskStarts, Goes, Same
 <2>5. Sound(r)'
  <3>1. status'[r] = status[r] /\ turn'[r] = turn[r] /\ cancel'[r] = cancel[r]
        /\ abortReq'[r] = abortReq[r] /\ task'[r] = task[r]
        /\ spawner'[r] = spawner[r] /\ reviver'[r] = reviver[r]
    BY <1>1 DEF TaskStarts
  <3> QED BY <2>1, <2>2, <3>1, LoopFacts, StaySound DEF Goes
 <2> QED BY <2>3, <2>4, <2>5, OneSound
<1>2. ASSUME TaskStillborn(r, i) PROVE Inductive'
 <2>1. pc[r][i] = "created" /\ Goes("ended") /\ slots' = slots
   BY <1>2, <1>a DEF TaskStillborn
 <2>2. pc[r][i] \in InLoop BY <2>1 DEF InLoop, Place, None
 <2>3. PermitsKept' BY <1>c, <2>1 DEF InTurn
 <2>4. \A x \in Run \ {r} : Same(x) BY <1>2, <2>1 DEF TaskStillborn, Goes, Same, TypeOK
 <2>5. Sound(r)'
  <3>1. status'[r] = status[r] /\ turn'[r] = turn[r] /\ abortReq'[r] = abortReq[r]
        /\ task'[r] = task[r] /\ spawner'[r] = spawner[r] /\ reviver'[r] = reviver[r]
        /\ \A j \in Start : cancel'[r][j] => cancel[r][j]
    BY <1>2 DEF TaskStillborn, TypeOK
  <3>2. status'[r] # None /\ turn'[r] = None BY <2>1, <2>2, <3>1, LoopFacts
  <3> QED BY <2>1, <2>2, <3>1, <3>2, LeaveSound DEF Goes
 <2> QED BY <2>3, <2>4, <2>5, OneSound
<1>3. ASSUME Built(r, i) PROVE Inductive'
 <2>1. pc[r][i] = "building" /\ LoopTop(r, i, message[r]) BY <1>3 DEF Built
 <2>2. pc[r][i] \in InLoop /\ pc[r][i] \notin InTurn BY <2>1 DEF InLoop, InTurn, Place, None
 <2>3. /\ task'[r] = task[r] /\ abortReq'[r] = abortReq[r] /\ completion'[r] = completion[r]
       /\ spawner'[r] = spawner[r] /\ reviver'[r] = reviver[r] /\ cancel'[r] = cancel[r]
       /\ turn'[r] = turn[r] /\ slots' = slots
   BY <1>3 DEF Built
 <2>4. turn'[r] = None BY <2>1, <2>2, <2>3, LoopFacts
 <2>5. Sound(r)' /\ \A j \in Start : pc'[r][j] \notin InTurn
   BY <2>1, <2>2, <2>3, <2>4, LoopTopSound
 <2>6. PICK q : Goes(q) BY <2>1, <1>a DEF LoopTop
 <2>7. PermitsKept' BY <1>c, <2>2, <2>3, <2>5, <2>6 DEF Goes
 <2>8. \A x \in Run \ {r} : Same(x)
   BY <1>3, <2>1, <2>6 DEF Built, LoopTop, Settle, Goes, Same, TypeOK
 <2> QED BY <2>5, <2>7, <2>8, OneSound
<1>4. ASSUME BuildFails(r, i) PROVE Inductive'
 <2>1. pc[r][i] = "building" /\ Goes("settling") /\ Ends /\ slots' = slots
   BY <1>4, <1>a, <1>b, <1>f DEF BuildFails
 <2>2. pc[r][i] \in InLoop BY <2>1 DEF InLoop, Place, None
 <2>3. PermitsKept' BY <1>c, <2>1 DEF InTurn
 <2>4. \A x \in Run \ {r} : Same(x) BY <1>4, <2>1 DEF BuildFails, Goes, Ends, Same
 <2>5. Sound(r)'
  <3>1. turn'[r] = turn[r] /\ abortReq'[r] = abortReq[r] /\ cancel'[r] = cancel[r]
        /\ task'[r] = task[r] /\ spawner'[r] = spawner[r] /\ reviver'[r] = reviver[r]
    BY <1>4 DEF BuildFails
  <3>2. status'[r] # None /\ turn'[r] = None BY <1>e, <2>1, <2>2, <3>1, LoopFacts
  <3> QED BY <2>1, <2>2, <3>1, <3>2, LeaveSound DEF Goes
 <2> QED BY <2>3, <2>4, <2>5, OneSound
<1>5. ASSUME Acquire(r, i) PROVE Inductive'
 <2>1. pc[r][i] = "queueing" /\ Goes("entering") /\ slots > 0 /\ slots' = slots - 1
   BY <1>5, <1>a DEF Acquire
 <2>2. /\ pc[r][i] \in InLoop /\ pc[r][i] \in Served /\ pc[r][i] \notin InTurn
       /\ "entering" \in InLoop /\ "entering" \in InTurn
   BY <2>1 DEF InLoop, InTurn, Served, Place, None
 <2>3. PermitsKept'
  <3>1. \A j \in Start : pc[r][j] \notin InTurn BY <2>2, LoopFacts
  <3> QED BY <1>0, <2>1, <2>2, <3>1, PermitTaken DEF Goes
 <2>4. status'[r] = "running" /\ \A x \in Run \ {r} : status'[x] = status[x]
   BY <1>5 DEF Acquire, TypeOK
 <2>5. \A x \in Run \ {r} : Same(x) BY <1>5, <2>1, <2>4 DEF Acquire, Goes, Same
 <2>6. Sound(r)'
  <3>1. /\ turn'[r] = turn[r] /\ abortReq'[r] = abortReq[r] /\ cancel'[r] = cancel[r]
        /\ task'[r] = task[r] /\ spawner'[r] = spawner[r] /\ reviver'[r] = reviver[r]
        /\ completion'[r] = completion[r] /\ message'[r] = message[r]
    BY <1>5 DEF Acquire
  <3>2. status'[r] \notin {None, "parked"} /\ status'[r] \notin Final
    BY <2>4 DEF None, Final
  <3> QED BY <2>1, <2>2, <3>1, <3>2, LoopFacts, StaySound DEF Goes
 <2> QED BY <2>3, <2>5, <2>6, OneSound
<1>6. ASSUME EnterTurn(r, i) PROVE Inductive'
 <2>1. pc[r][i] = "entering" BY <1>6 DEF EnterTurn
 <2>2. /\ pc[r][i] \in InLoop /\ pc[r][i] \in Served /\ pc[r][i] \in InTurn
       /\ "turn" \in InLoop /\ "turn" \in InTurn
   BY <2>1 DEF InLoop, InTurn, Served, Place, None
 <2>3. /\ abortReq'[r] = abortReq[r] /\ cancel'[r] = cancel[r]
       /\ task'[r] = task[r] /\ spawner'[r] = spawner[r] /\ reviver'[r] = reviver[r]
   BY <1>6 DEF EnterTurn
 <2>4. CASE abortReq[r] # None
  <3>1. Goes("settling") /\ Ends /\ slots' = slots + 1 /\ turn' = turn
    BY <1>6, <2>4, <1>a, <1>b, <1>f DEF EnterTurn
  <3>2. PermitsKept' BY <1>d, <2>2, <3>1 DEF InTurn
  <3>3. \A x \in Run \ {r} : Same(x) BY <1>6, <3>1 DEF EnterTurn, Goes, Ends, Same
  <3>4. status'[r] # None /\ turn'[r] = None BY <1>e, <2>1, <2>2, <3>1, LoopFacts
  <3>5. Sound(r)' BY <2>2, <2>3, <3>1, <3>4, LeaveSound DEF Goes
  <3> QED BY <3>2, <3>3, <3>5, OneSound
 <2>5. CASE abortReq[r] = None
  <3>1. /\ Goes("turn") /\ slots' = slots /\ status' = status
        /\ turn' = [turn EXCEPT ![r] = "opening"]
    BY <1>6, <2>5, <1>a DEF EnterTurn
  <3>2. PermitsKept'
   <4>1. \A x \in Run, j \in Start : pc'[x][j] \in InTurn <=> pc[x][j] \in InTurn
     BY <2>2, <3>1 DEF Goes
   <4> QED BY <1>0, <3>1, <4>1, PermitsSame
  <3>3. turn'[r] # None /\ \A x \in Run \ {r} : turn'[x] = turn[x] BY <3>1 DEF TypeOK, None
  <3>4. \A x \in Run \ {r} : Same(x) BY <1>6, <3>1, <3>3 DEF EnterTurn, Goes, Same
  <3>5. Sound(r)' BY <2>2, <2>3, <3>1, <3>3, LoopFacts, StaySound DEF Goes
  <3> QED BY <3>2, <3>4, <3>5, OneSound
 <2> QED BY <2>4, <2>5
<1>7. ASSUME TurnReturns(r, i) PROVE Inductive'
 <2>1. pc[r][i] = "turn" /\ slots' = slots + 1 /\ turn' = [turn EXCEPT ![r] = None]
   BY <1>7 DEF TurnReturns
 <2>2. PICK m : LoopTop(r, i, m) BY <1>7 DEF TurnReturns
 <2>3. pc[r][i] \in InLoop /\ pc[r][i] \in InTurn BY <2>1 DEF InLoop, InTurn, Place, None
 <2>4. /\ task'[r] = task[r] /\ abortReq'[r] = abortReq[r] /\ completion'[r] = completion[r]
       /\ spawner'[r] = spawner[r] /\ reviver'[r] = reviver[r] /\ cancel'[r] = cancel[r]
       /\ turn'[r] = None /\ \A x \in Run \ {r} : turn'[x] = turn[x]
   BY <1>7, <2>1 DEF TurnReturns, TypeOK
 <2>5. Sound(r)' /\ \A j \in Start : pc'[r][j] \notin InTurn
   BY <2>2, <2>3, <2>4, LoopTopSound
 <2>6. PICK q : Goes(q) BY <2>2, <1>a DEF LoopTop
 <2>7. PermitsKept' BY <1>d, <2>1, <2>3, <2>5, <2>6 DEF Goes
 <2>8. \A x \in Run \ {r} : Same(x)
   BY <1>7, <2>2, <2>4, <2>6 DEF TurnReturns, LoopTop, Settle, Goes, Same, TypeOK
 <2> QED BY <2>5, <2>7, <2>8, OneSound
<1>8. ASSUME BudgetExceeded(r, i) PROVE Inductive'
 <2> DEFINE K == [root |-> r, kind |-> "budget", by |-> Nobody, why |-> "budget",
                  left |-> Descendants(r)]
 <2>1. /\ pc[r][i] = "turn" /\ slots' = slots + 1 /\ turn' = [turn EXCEPT ![r] = None]
       /\ Goes("descend") /\ Abort(K, cascades)
   BY <1>8, <1>a DEF BudgetExceeded
 <2>2. K \in Cascade BY DEF Cascade, Descendants, Reason
 <2> HIDE DEF K
 <2>3. /\ pc[r][i] \in InLoop /\ pc[r][i] \in Served /\ pc[r][i] \in InTurn
       /\ "descend" \in InLoop /\ "descend" \in Served /\ "descend" \notin InTurn
   BY <2>1 DEF InLoop, Served, InTurn, Place, None
 <2>4. PermitsKept' BY <1>d, <2>1, <2>3
 <2>5. ASSUME NEW x \in Run \ {r} PROVE Sound(x)'
  <3>1. turn'[x] = turn[x] /\ pc'[x] = pc[x] BY <2>1 DEF Goes, TypeOK
  <3> QED BY <1>8, <2>1, <2>2, <3>1, AbortSound DEF BudgetExceeded
 <2>6. Sound(r)'
  <3>1. /\ task'[r] = task[r] /\ spawner'[r] = spawner[r] /\ reviver'[r] = reviver[r]
        /\ turn'[r] = None
    BY <1>8, <2>1 DEF BudgetExceeded, TypeOK
  <3>2. ~Direct(r) BY <2>1, <2>3, LoopFacts DEF Direct, TaskLive
  <3>3. /\ status'[r] = status[r] /\ ~Terminal(r)
        /\ abortReq[r] # None => abortReq'[r] = abortReq[r]
        /\ \A j \in Start : cancel'[r][j] => cancel[r][j] \/ (j = i /\ abortReq'[r] # None)
    BY <2>1, <2>2, <2>3, <3>2, AbortEffect, LoopFacts
  <3>4. \A j \in Start : cancel'[r][j] => j = i /\ abortReq'[r] # None
   <4>1. \A j \in Start : cancel[r][j] => j = i /\ abortReq[r] # None BY <2>3, LoopFacts
   <4> QED BY <3>3, <4>1
  <3>5. \A j \in Start : j # i => /\ pc'[r][j] \notin InLoop /\ pc'[r][j] \notin Served
                                  /\ pc'[r][j] \notin InTurn /\ pc'[r][j] # "queueing"
    BY <2>1, <2>3, LoopFacts DEF Goes, InLoop, Place, None
  <3>6. pc'[r][i] = "descend" BY <2>1 DEF Goes
  <3>7. StartPending(r)' BY <2>3, <3>1, <3>3, LoopFacts DEF StartPending, TurnLive
  <3>8. ASSUME NEW j \in Start PROVE TaskOwned(r, j)'
   <4>1. CASE j = i BY <2>3, <3>1, <3>3, <3>6, <4>1, LoopFacts DEF TaskOwned, Terminal
   <4>2. CASE j # i BY <3>5, <4>2 DEF TaskOwned, InTurn
   <4> QED BY <4>1, <4>2
  <3>9. ASSUME NEW j \in Start PROVE CancelCaused(r, j)' BY <3>4, <3>5 DEF CancelCaused
  <3> QED BY <3>7, <3>8, <3>9 DEF Sound
 <2>7. ASSUME NEW x \in Run PROVE Sound(x)' BY <2>5, <2>6
 <2> QED BY <2>4, <2>7, AllSound
<1>9. ASSUME BudgetSettles(r, i) PROVE Inductive'
 <2>1. pc[r][i] = "descend" /\ Goes("settling") /\ Ends /\ slots' = slots
   BY <1>9, <1>a, <1>b, <1>f DEF BudgetSettles
 <2>2. pc[r][i] \in InLoop BY <2>1 DEF InLoop, Place, None
 <2>3. PermitsKept' BY <1>c, <2>1 DEF InTurn
 <2>4. \A x \in Run \ {r} : Same(x) BY <1>9, <2>1 DEF BudgetSettles, Goes, Ends, Same
 <2>5. Sound(r)'
  <3>1. turn'[r] = turn[r] /\ abortReq'[r] = abortReq[r] /\ cancel'[r] = cancel[r]
        /\ task'[r] = task[r] /\ spawner'[r] = spawner[r] /\ reviver'[r] = reviver[r]
    BY <1>9 DEF BudgetSettles
  <3>2. status'[r] # None /\ turn'[r] = None BY <1>e, <2>1, <2>2, <3>1, LoopFacts
  <3> QED BY <2>1, <2>2, <3>1, <3>2, LeaveSound DEF Goes
 <2> QED BY <2>3, <2>4, <2>5, OneSound
<1>10. ASSUME TurnRaises(r, i) PROVE Inductive'
 <2>1. pc[r][i] = "turn" /\ Goes("settling") /\ Ends /\ slots' = slots + 1
   BY <1>10, <1>a, <1>b, <1>f DEF TurnRaises
 <2>2. pc[r][i] \in InLoop /\ pc[r][i] \in InTurn BY <2>1 DEF InLoop, InTurn, Place, None
 <2>3. PermitsKept' BY <1>d, <2>1, <2>2 DEF InTurn
 <2>4. turn'[r] = None /\ \A x \in Run \ {r} : turn'[x] = turn[x]
   BY <1>10 DEF TurnRaises, TypeOK
 <2>5. \A x \in Run \ {r} : Same(x) BY <1>10, <2>1, <2>4 DEF TurnRaises, Goes, Ends, Same
 <2>6. Sound(r)'
  <3>1. abortReq'[r] = abortReq[r] /\ cancel'[r] = cancel[r]
        /\ task'[r] = task[r] /\ spawner'[r] = spawner[r] /\ reviver'[r] = reviver[r]
    BY <1>10 DEF TurnRaises
  <3>2. status'[r] # None BY <1>e, <2>1, <2>2
  <3> QED BY <2>1, <2>2, <2>4, <3>1, <3>2, LeaveSound DEF Goes
 <2> QED BY <2>3, <2>5, <2>6, OneSound
<1>11. ASSUME TurnEscapes(r, i) PROVE Inductive'
 <2>1. pc[r][i] = "turn" /\ Goes("settling") /\ Ends /\ slots' = slots + 1
   BY <1>11, <1>a, <1>b, <1>f DEF TurnEscapes
 <2>2. pc[r][i] \in InLoop /\ pc[r][i] \in InTurn BY <2>1 DEF InLoop, InTurn, Place, None
 <2>3. PermitsKept' BY <1>d, <2>1, <2>2 DEF InTurn
 <2>4. turn'[r] = None /\ \A x \in Run \ {r} : turn'[x] = turn[x]
   BY <1>11 DEF TurnEscapes, TypeOK
 <2>5. \A x \in Run \ {r} : Same(x) BY <1>11, <2>1, <2>4 DEF TurnEscapes, Goes, Ends, Same
 <2>6. Sound(r)'
  <3>1. abortReq'[r] = abortReq[r] /\ cancel'[r] = cancel[r]
        /\ task'[r] = task[r] /\ spawner'[r] = spawner[r] /\ reviver'[r] = reviver[r]
    BY <1>11 DEF TurnEscapes
  <3>2. status'[r] # None BY <1>e, <2>1, <2>2
  <3> QED BY <2>1, <2>2, <2>4, <3>1, <3>2, LeaveSound DEF Goes
 <2> QED BY <2>3, <2>5, <2>6, OneSound
<1>12. ASSUME Receive(r, i) PROVE Inductive'
 <2>1. pc[r][i] \in {"idling", "waiting"} /\ slots' = slots BY <1>12 DEF Receive
 <2>2. PICK m : LoopTop(r, i, m) BY <1>12 DEF Receive
 <2>3. pc[r][i] \in InLoop /\ pc[r][i] \notin InTurn /\ pc[r][i] # "turn"
   BY <2>1 DEF InLoop, InTurn, Place, None
 <2>4. /\ task'[r] = task[r] /\ abortReq'[r] = abortReq[r] /\ completion'[r] = completion[r]
       /\ spawner'[r] = spawner[r] /\ reviver'[r] = reviver[r] /\ cancel'[r] = cancel[r]
       /\ turn'[r] = turn[r]
   BY <1>12 DEF Receive
 <2>5. turn'[r] = None BY <2>3, <2>4, LoopFacts
 <2>6. Sound(r)' /\ \A j \in Start : pc'[r][j] \notin InTurn
   BY <2>2, <2>3, <2>4, <2>5, LoopTopSound
 <2>7. PICK q : Goes(q) BY <2>2, <1>a DEF LoopTop
 <2>8. PermitsKept' BY <1>c, <2>1, <2>3, <2>6, <2>7 DEF Goes
 <2>9. \A x \in Run \ {r} : Same(x)
   BY <1>12, <2>2, <2>7, SMTT(30) DEF Receive, LoopTop, Settle, Goes, Same, TypeOK
 <2> QED BY <2>6, <2>8, <2>9, OneSound
<1>13. ASSUME Await(r, i) PROVE Inductive'
 <2>1. pc[r][i] = "idling" /\ Goes("waiting") /\ slots' = slots BY <1>13, <1>a DEF Await
 <2>2. /\ pc[r][i] \in InLoop /\ pc[r][i] \in Served /\ "waiting" \in InLoop
   BY <2>1 DEF InLoop, Served, Place, None
 <2>3. PermitsKept' BY <1>c, <2>1 DEF InTurn
 <2>4. \A x \in Run \ {r} : Same(x) BY <1>13, <2>1 DEF Await, Goes, Same
 <2>5. Sound(r)'
  <3>1. status'[r] = status[r] /\ turn'[r] = turn[r] /\ cancel'[r] = cancel[r]
        /\ abortReq'[r] = abortReq[r] /\ task'[r] = task[r]
        /\ spawner'[r] = spawner[r] /\ reviver'[r] = reviver[r]
    BY <1>13 DEF Await
  <3> QED BY <2>1, <2>2, <3>1, LoopFacts, StaySound DEF Goes
 <2> QED BY <2>3, <2>4, <2>5, OneSound
<1>14. ASSUME IdleTimeout(r, i) PROVE Inductive'
 <2>1. pc[r][i] = "waiting" /\ Goes("parking") /\ slots' = slots
   BY <1>14, <1>a DEF IdleTimeout
 <2>2. pc[r][i] \in InLoop BY <2>1 DEF InLoop, Place, None
 <2>3. PermitsKept' BY <1>c, <2>1 DEF InTurn
 <2>4. status'[r] = "parked" /\ \A x \in Run \ {r} : status'[x] = status[x]
   BY <1>14 DEF IdleTimeout, TypeOK
 <2>5. \A x \in Run \ {r} : Same(x) BY <1>14, <2>1, <2>4 DEF IdleTimeout, Goes, Same
 <2>6. Sound(r)'
  <3>1. turn'[r] = turn[r] /\ abortReq'[r] = abortReq[r] /\ cancel'[r] = cancel[r]
        /\ task'[r] = task[r] /\ spawner'[r] = spawner[r] /\ reviver'[r] = reviver[r]
    BY <1>14 DEF IdleTimeout
  <3>2. status'[r] # None /\ turn'[r] = None BY <2>1, <2>2, <2>4, <3>1, LoopFacts DEF None
  <3> QED BY <2>1, <2>2, <3>1, <3>2, LeaveSound DEF Goes
 <2> QED BY <2>3, <2>5, <2>6, OneSound
<1>15. ASSUME TaskCancelled(r, i) PROVE Inductive'
 <2>1. /\ cancel[r][i] /\ pc[r][i] # "turn" /\ Goes("settling") /\ Ends
       /\ pc[r][i] \in {"building", "queueing", "entering", "descend", "idling", "waiting",
                        "parking"}
       /\ slots' = slots + IF pc[r][i] = "entering" THEN 1 ELSE 0
   BY <1>15, <1>a, <1>b, <1>f DEF TaskCancelled
 <2>2. /\ task'[r] = task[r] /\ abortReq'[r] = abortReq[r] /\ turn'[r] = turn[r]
       /\ spawner'[r] = spawner[r] /\ reviver'[r] = reviver[r] /\ completion'[r] = completion[r]
       /\ \A j \in Start : cancel'[r][j] => cancel[r][j]
   BY <1>15 DEF TaskCancelled, TypeOK
 <2>3. PermitsKept'
  <3>1. CASE pc[r][i] = "entering" BY <1>d, <2>1, <3>1 DEF InTurn
  <3>2. CASE pc[r][i] # "entering"
   <4>1. slots' = slots BY <2>1, <3>2 DEF TypeOK
   <4> QED BY <1>c, <2>1, <3>2, <4>1 DEF InTurn
  <3> QED BY <3>1, <3>2
 <2>4. \A x \in Run \ {r} : Same(x)
   BY <1>15, <2>1 DEF TaskCancelled, Goes, Ends, Same, TypeOK
 <2>5. CASE pc[r][i] # "parking"
  <3>1. pc[r][i] \in InLoop BY <2>1, <2>5 DEF InLoop, Place, None
  <3>2. status'[r] # None /\ turn'[r] = None BY <1>e, <2>1, <2>2, <3>1, LoopFacts
  <3>3. Sound(r)' BY <2>1, <2>2, <3>1, <3>2, LeaveSound DEF Goes
  <3> QED BY <2>3, <2>4, <3>3, OneSound
 <2>6. CASE pc[r][i] = "parking"
  <3>1. abortReq[r] # None /\ \A j \in Start : j # i => pc[r][j] \notin Served
    BY <1>0, <2>1 DEF Sound, CancelCaused
  <3>2. \A j \in Start : /\ pc'[r][j] \notin Served /\ pc'[r][j] \notin InTurn
                         /\ pc'[r][j] # "queueing"
                         /\ pc'[r][j] \in InLoop => pc'[r][j] = pc[r][j]
    BY <2>1, <3>1 DEF Goes, Served, InLoop, InTurn, Place, None
  <3>3. turn[r] = None
    BY <1>0, <2>1, <3>1 DEF Sound, StartPending, TurnLive, Served, InLoop, Place, None
  <3>4. status'[r] # None \/ status[r] = None BY <2>1 DEF Ends, Final, None
  <3>5. status'[r] = "parked" => status[r] = "parked" BY <2>1 DEF Ends, Final
  <3>6. StartPending(r)'
   <4>1. status'[r] = None => status[r] = None BY <2>1 DEF Ends, Final, None
   <4> QED BY <1>0, <2>2, <3>1, <3>3, <3>5, <4>1 DEF Sound, StartPending, TurnLive
  <3>7. ASSUME NEW j \in Start PROVE TaskOwned(r, j)'
    BY <1>0, <2>2, <3>1, <3>2, <3>5 DEF Sound, TaskOwned, InTurn
  <3>8. ASSUME NEW j \in Start PROVE CancelCaused(r, j)'
    BY <2>2, <3>1, <3>2 DEF CancelCaused
  <3>9. Sound(r)' BY <3>6, <3>7, <3>8 DEF Sound
  <3> QED BY <2>3, <2>4, <3>9, OneSound
 <2> QED BY <2>5, <2>6
<1>16. ASSUME TaskEnds(r, i) PROVE Inductive'
 <2>1. pc[r][i] \in {"settling", "parking"} /\ Goes("ended") /\ slots' = slots
   BY <1>16, <1>a DEF TaskEnds
 <2>2. PermitsKept' BY <1>c, <2>1 DEF InTurn
 <2>3. \A x \in Run \ {r} : Same(x) BY <1>16, <2>1 DEF TaskEnds, Goes, Same
 <2>4. /\ task'[r] = task[r] /\ abortReq'[r] = abortReq[r] /\ turn'[r] = turn[r]
       /\ spawner'[r] = spawner[r] /\ reviver'[r] = reviver[r] /\ completion'[r] = completion[r]
       /\ status'[r] = status[r] /\ message'[r] = message[r] /\ cancel'[r] = cancel[r]
   BY <1>16 DEF TaskEnds
 <2>5. \A j \in Start : pc'[r][j] = pc[r][j] \/ (j = i /\ pc'[r][j] = "ended")
   BY <2>1 DEF Goes
 <2>6. "ended" \notin InLoop /\ "ended" \notin Served BY DEF InLoop, Served
 <2>7. StartPending(r)'
  <3>1. turn[r] # None => \E j \in Start : pc'[r][j] = "turn"
    BY <1>0, <2>1 DEF Sound, StartPending, TurnLive, Goes
  <3> QED BY <1>0, <2>4, <3>1 DEF Sound, StartPending, Terminal, TurnLive
 <2>8. ASSUME NEW j \in Start PROVE TaskOwned(r, j)'
   BY <1>0, <2>4, <2>5, <2>6 DEF Sound, TaskOwned, Terminal, TurnLive
 <2>9. ASSUME NEW j \in Start PROVE CancelCaused(r, j)'
   BY <1>0, <2>4, <2>5, <2>6 DEF Sound, CancelCaused
 <2>10. Sound(r)' BY <2>7, <2>8, <2>9 DEF Sound
 <2> QED BY <2>2, <2>3, <2>10, OneSound
<1>17. ASSUME TimerFires(r, i) PROVE Inductive'
 <2>1. Tree(r, "timer", i, "timeout") \in Cascade BY TreeType DEF Reason
 <2>2. Abort(Tree(r, "timer", i, "timeout"), cascades) BY <1>17 DEF TimerFires
 <2>3. ASSUME NEW x \in Run PROVE Sound(x)' BY <1>17, <2>1, <2>2, AbortSound DEF TimerFires
 <2> QED BY <1>0, <1>17, <2>3, AllSound, PermitsSame DEF TimerFires
<1> QED BY <1>1, <1>2, <1>3, <1>4, <1>5, <1>6, <1>7, <1>8, <1>9, <1>10, <1>11, <1>12, <1>13,
<1>14, <1>15, <1>16, <1>17

\* Every step of a turn keeps the inductive invariant.
LEMMA InductiveTurn ==
  ASSUME TypeOK, Inductive, NEW r \in Run
  PROVE  /\ TurnOpens(r) => Inductive'
         /\ Request(r) => Inductive'
         /\ \A final \in {"done", "failed"} : Yield(r, final) => Inductive'
         /\ TurnStops(r) => Inductive'
         /\ TurnInterrupted(r) => Inductive'
<1>0. PermitsKept /\ Sound(r) BY DEF Inductive
<1>a. ASSUME turn[r] # None, turn'[r] # None, \A x \in Run \ {r} : Same(x),
             status'[r] = status[r], abortReq'[r] = abortReq[r], message'[r] = message[r],
             task'[r] = task[r], pc'[r] = pc[r], cancel'[r] = cancel[r],
             spawner'[r].by = spawner[r].by, reviver'[r].by = reviver[r].by,
             slots' = slots, pc' = pc
      PROVE  Inductive'
 <2>1. PICK i \in Start : pc[r][i] = "turn" BY <1>0, <1>a DEF Sound, StartPending, TurnLive
 <2>2. pc[r][i] \in InLoop BY <2>1 DEF InLoop, Place, None
 <2>3. \A j \in Start : pc[r][j] \notin {"queueing", "entering"}
   BY <2>1, <2>2, LoopFacts DEF InLoop, Place, None
 <2>4. StartPending(r)' BY <1>0, <1>a DEF Sound, StartPending, Terminal, TurnLive
 <2>5. ASSUME NEW j \in Start PROVE TaskOwned(r, j)'
   BY <1>0, <1>a, <2>3 DEF Sound, TaskOwned, Terminal, TurnLive
 <2>6. ASSUME NEW j \in Start PROVE CancelCaused(r, j)'
   BY <1>0, <1>a DEF Sound, CancelCaused
 <2>7. Sound(r)' BY <2>4, <2>5, <2>6 DEF Sound
 <2> QED BY <1>0, <1>a, <2>7, OneSound, PermitsSame
<1>1. ASSUME TurnOpens(r) PROVE Inductive'
 <2>1. turn[r] # None /\ turn'[r] # None /\ \A x \in Run \ {r} : turn'[x] = turn[x]
   BY <1>1 DEF TurnOpens, TypeOK, None
 <2>2. \A x \in Run \ {r} : Same(x) BY <1>1, <2>1 DEF TurnOpens, Same
 <2> QED BY <1>1, <1>a, <2>1, <2>2 DEF TurnOpens
<1>2. ASSUME Request(r) PROVE Inductive'
 <2>1. turn[r] # None /\ turn' = turn BY <1>2 DEF Request, None
 <2>2. \A x \in Run \ {r} : Same(x) BY <1>2 DEF Request, Same
 <2> QED BY <1>2, <1>a, <2>1, <2>2 DEF Request
<1>3. ASSUME NEW final \in {"done", "failed"}, Yield(r, final) PROVE Inductive'
 <2>1. turn[r] # None /\ turn' = turn BY <1>3 DEF Yield, None
 <2>2. \A x \in Run \ {r} : Same(x) BY <1>3 DEF Yield, Same, TypeOK
 <2> QED BY <1>3, <1>a, <2>1, <2>2 DEF Yield
<1>4. ASSUME TurnStops(r) PROVE Inductive'
 <2>1. turn[r] # None /\ turn'[r] # None /\ \A x \in Run \ {r} : turn'[x] = turn[x]
   BY <1>4 DEF TurnStops, TypeOK, None
 <2>2. \A x \in Run \ {r} : Same(x) BY <1>4, <2>1 DEF TurnStops, Same
 <2> QED BY <1>4, <1>a, <2>1, <2>2 DEF TurnStops
<1>5. ASSUME TurnInterrupted(r) PROVE Inductive'
 <2>1. DropCalls(r) /\ r \in Caller BY <1>5 DEF TurnInterrupted, Caller
 <2>2. \A x \in Run : turn'[x] # None <=> turn[x] # None
   BY <1>5 DEF TurnInterrupted, TypeOK, None
 <2>3. ASSUME NEW x \in Run PROVE Sound(x)'
   BY <1>5, <2>1, <2>2, DropCallsSound DEF TurnInterrupted
 <2> QED BY <1>0, <1>5, <2>3, AllSound, PermitsSame DEF TurnInterrupted
<1> QED BY <1>1, <1>2, <1>3, <1>4, <1>5

\* The initial state satisfies the inductive invariant.
LEMMA InductiveInit == Init => Inductive
<1> SUFFICES ASSUME Init PROVE Inductive OBVIOUS
<1>1. Holding = {} BY DEF Init, Holding, None
<1>2. PermitsKept BY <1>1, FS_EmptySet, LimitsAssumption DEF PermitsKept, Init
<1>3. ASSUME NEW r \in Run PROVE Sound(r)
  BY DEF Init, Sound, StartPending, TaskOwned, CancelCaused, TurnLive, Terminal, NoSpawner,
         NoReviver, None, InLoop, Served, Final
<1> QED BY <1>2, <1>3 DEF Inductive

\* The inductive invariant is kept by every step.
LEMMA InductiveStep == TypeOK /\ Inductive /\ [Next]_vars => Inductive'
<1> SUFFICES ASSUME TypeOK, Inductive, [Next]_vars PROVE Inductive' OBVIOUS
<1>1. CASE UNCHANGED vars
 <2>1. \A x \in Run : Same(x) BY <1>1 DEF Same, vars
 <2>2. ASSUME NEW x \in Run PROVE Sound(x)' BY <2>1, SameSound DEF Inductive
 <2>3. PermitsKept' BY <1>1, PermitsSame DEF Inductive, vars
 <2> QED BY <2>2, <2>3, AllSound
<1>2. CASE Next
 <2>1. ASSUME NEW c \in Caller, Calls(c) PROVE Inductive' BY <2>1, InductiveCalls DEF Calls
 <2>2. ASSUME NEW r \in Run,
              \/ SpawnReturns(r) \/ ReviveReturns(r) \/ WaitEnds(r)
              \/ Detach(r) \/ ShutdownNext(r)
       PROVE  Inductive'
   BY <2>2, InductiveCalls DEF Caller
 <2>3. ASSUME NEW r \in Run,
              TurnStep(r) \/ Request(r) \/ \E final \in {"done", "failed"} : Yield(r, final)
       PROVE  Inductive'
   BY <2>3, InductiveTurn DEF TurnStep
 <2>4. ASSUME NEW r \in Run, NEW i \in Start,
              \/ TaskStep(r, i) \/ BuildFails(r, i) \/ Acquire(r, i)
              \/ IdleTimeout(r, i) \/ TimerFires(r, i)
       PROVE  Inductive'
   BY <2>4, InductiveTask DEF TaskStep
 <2>5. ASSUME NEW k \in cascades, ResumeAbort(k) \/ DetachStarts(k) PROVE Inductive'
  <3>1. PICK r \in Run : TRUE BY <2>5 DEF TypeOK, Cascade
  <3> QED BY <2>5, <3>1, InductiveCalls DEF Caller
 <2>6. ASSUME MainInterrupted \/ ShutdownBegins PROVE Inductive'
  <3>1. CASE MainInterrupted
   <4>1. ASSUME NEW x \in Run PROVE Sound(x)'
     BY <3>1, DropCallsSound DEF MainInterrupted, Caller
   <4> QED BY <3>1, <4>1, AllSound, PermitsSame DEF Inductive, MainInterrupted
  <3>2. CASE ShutdownBegins
   <4>1. \A x \in Run : Same(x) BY <3>2 DEF ShutdownBegins, Same
   <4>2. ASSUME NEW x \in Run PROVE Sound(x)' BY <4>1, SameSound DEF Inductive
   <4> QED BY <3>2, <4>2, AllSound, PermitsSame DEF Inductive, ShutdownBegins
  <3> QED BY <2>6, <3>1, <3>2
 <2> QED BY <1>2, <2>1, <2>2, <2>3, <2>4, <2>5, <2>6 DEF Next
<1> QED BY <1>1, <1>2

------------------------------------------------------------------------------
(* The theorems. *)

\* In every reachable state the variables have their types and every run is sound:
\* TypeOK needs the inductive invariant (a revived run still has a task to be given), and
\* the invariant needs the types.
THEOREM Invariance == Spec => [](TypeOK /\ Inductive)
<1>1. Init => TypeOK /\ Inductive BY TypeInit, InductiveInit
<1>2. TypeOK /\ Inductive /\ [Next]_vars => (TypeOK /\ Inductive)'
  BY TypeStep, InductiveStep
<1> QED BY <1>1, <1>2, PTL DEF Spec

\* Type correctness of every reachable state.
THEOREM TypeCorrect == Spec => []TypeOK
BY Invariance, PTL

\* "Agent concurrency limits active model turns" (README.md:204-205), however turns
\* end: every live turn holds one of MaxConcurrency permits.
THEOREM TurnsAreBounded == Spec => []TurnsBounded
<1>1. TypeOK /\ Inductive => TurnsBounded
 <2> SUFFICES ASSUME TypeOK, Inductive PROVE TurnsBounded OBVIOUS
 <2>1. {r \in Run : TurnLive(r)} \subseteq Holding
   BY DEF Inductive, Sound, StartPending, Holding
 <2>2. Cardinality({r \in Run : TurnLive(r)}) <= Cardinality(Holding)
   BY <2>1, HoldingFinite, FS_Subset
 <2>3. IsFiniteSet({r \in Run : TurnLive(r)}) BY <2>1, HoldingFinite, FS_Subset
 <2>4. Cardinality({r \in Run : TurnLive(r)}) \in Nat BY <2>3, FS_CardinalityType
 <2> QED
   BY <2>2, <2>4, HoldingFinite, LimitsAssumption
      DEF Inductive, PermitsKept, TurnsBounded, TypeOK
<1> QED BY <1>1, Invariance, PTL

\* At most one task of a run is inside _loop, and it is run.task.
THEOREM LoopIsOne == Spec => []OneLoop
<1>1. Inductive => OneLoop BY DEF Inductive, Sound, TaskOwned, OneLoop
<1> QED BY <1>1, Invariance, PTL

------------------------------------------------------------------------------
(* How a run ends: once, with one result and its first reason, and no turn *)
(* after that.                                                             *)

\* Nothing that says how x ended changes.
Unsettled(x) ==
  status'[x] = status[x] /\ results'[x] = results[x] /\ abortReason'[x] = abortReason[x]

\* x goes on in another live status.
GoesOn(x) ==
  /\ ~Terminal(x) /\ status'[x] \in Live
  /\ results'[x] = results[x] /\ abortReason'[x] = abortReason[x]

\* x ends in this step, with the reason of its known abort if there is one.
EndsNow(x) ==
  /\ ~Terminal(x) /\ status'[x] \in Final
  /\ results'[x] = results[x] + 1
  /\ status'[x] = "aborted" /\ abortReq'[x] # None => abortReason'[x] \in {abortReq'[x], "budget"}

\* The ways a step can touch the end of x.
Endings(x) ==
  /\ Unsettled(x) \/ GoesOn(x) \/ EndsNow(x)
  /\ Terminal(x) => abortReq'[x] = abortReq[x]

\* A step that leaves the settled state alone, and requests no abort of an ended run.
LEMMA EndingsSame ==
  ASSUME UNCHANGED settleVars, NEW x \in Run, Terminal(x) => abortReq'[x] = abortReq[x]
  PROVE  Endings(x)
BY DEF Endings, Unsettled

\* _settle, with the reason that is known or for a run that is not being aborted.
LEMMA EndingsSettle ==
  ASSUME TypeOK, NEW r \in Run, NEW final \in Final, NEW reason, Settle(r, final, reason),
         abortReq' = abortReq,
         final = "aborted" /\ abortReq[r] # None => reason \in {abortReq[r], "budget"},
         NEW x \in Run
  PROVE  Endings(x)
<1>1. CASE Terminal(r) BY <1>1, EndingsSame DEF Settle
<1>2. CASE ~Terminal(r) /\ x # r BY <1>2 DEF Settle, TypeOK, Endings, Unsettled
<1>3. CASE ~Terminal(r) /\ x = r
 <2>1. status'[r] = final /\ results'[r] = results[r] + 1 BY <1>3 DEF Settle, TypeOK
 <2>2. final = "aborted" => abortReason'[r] = reason BY <1>3 DEF Settle, TypeOK
 <2> QED BY <1>3, <2>1, <2>2 DEF Endings, EndsNow
<1> QED BY <1>1, <1>2, <1>3

\* A run that is live goes on in another live status.
LEMMA EndingsLive ==
  ASSUME TypeOK, NEW r \in Run, ~Terminal(r), NEW s \in Live,
         status' = [status EXCEPT ![r] = s], abortReason' = abortReason, results' = results,
         abortReq' = abortReq, NEW x \in Run
  PROVE  Endings(x)
BY DEF TypeOK, Endings, Unsettled, GoesOn

\* The head of the loop.
LEMMA EndingsLoopTop ==
  ASSUME TypeOK, Inductive, NEW r \in Run, NEW i \in Start, pc[r][i] \in InLoop,
         NEW m, LoopTop(r, i, m), abortReq' = abortReq, NEW x \in Run
  PROVE  Endings(x)
<1>1. Terminal(r) => abortReq[r] # None BY DEF Inductive, Sound, TaskOwned
<1>2. CASE abortReq[r] # None
 <2>1. Settle(r, "aborted", abortReq[r]) BY <1>2 DEF LoopTop
 <2> QED BY <2>1, EndingsSettle DEF Final
<1>3. CASE abortReq[r] = None /\ completion[r] # None
 <2>1. Settle(r, completion[r], None) /\ completion[r] \in Final
   BY <1>3 DEF LoopTop, TypeOK, Final
 <2> QED BY <1>3, <2>1, EndingsSettle
<1>4. CASE abortReq[r] = None /\ completion[r] = None
 <2>1. CASE UNCHANGED settleVars BY <2>1, EndingsSame
 <2>2. CASE status' = [status EXCEPT ![r] = "idle"] /\ UNCHANGED <<abortReason, results>>
   BY <1>1, <1>4, <2>2, EndingsLive DEF Live
 <2> QED BY <1>4, <2>1, <2>2 DEF LoopTop
<1> QED BY <1>2, <1>3, <1>4

\* A stretch of a cascade.
LEMMA EndingsAbort ==
  ASSUME TypeOK, NEW k \in Cascade, NEW ks, Abort(k, ks), NEW x \in Run
  PROVE  Endings(x)
<1>1. Terminal(x) => abortReq'[x] = abortReq[x] BY AbortEffect
<1>2. \/ Unsettled(x)
      \/ /\ Direct(x) /\ status'[x] = "aborted" /\ results'[x] = results[x] + 1
         /\ abortReason'[x] = abortReq'[x] /\ abortReq'[x] # None
  BY AbortEffect DEF Unsettled
<1>3. Direct(x) => ~Terminal(x) BY DEF Direct
<1> QED BY <1>1, <1>2, <1>3 DEF Endings, EndsNow, Final

\* Calls of the registry.
LEMMA EndingsCalls ==
  ASSUME TypeOK, Inductive, NEW c \in Caller, NEW r \in Run, NEW x \in Run
  PROVE  /\ Calls(c) => Endings(x)
         /\ SpawnReturns(r) \/ ReviveReturns(r) \/ WaitEnds(r) => Endings(x)
         /\ Detach(r) \/ ShutdownNext(r) => Endings(x)
         /\ MainInterrupted \/ ShutdownBegins => Endings(x)
         /\ \A k \in cascades : ResumeAbort(k) \/ DetachStarts(k) => Endings(x)
<1>0. cascades \in SUBSET Cascade BY DEF TypeOK
<1>1. ASSUME Calls(c) PROVE Endings(x)
 <2>1. ASSUME NEW q \in Run, Spawn(c, q) PROVE Endings(x)
  <3>1. ~Terminal(q) /\ status' = [status EXCEPT ![q] = "queued"]
    BY <2>1 DEF Spawn, Terminal, Final, None
  <3> QED BY <2>1, <3>1, EndingsLive DEF Spawn, Live
 <2>2. ASSUME NEW q \in Run, Cancel(c, q) PROVE Endings(x)
  <3>1. Tree(q, "call", c, "cancel") \in Cascade BY TreeType DEF Reason
  <3> QED BY <2>2, <3>1, EndingsAbort DEF Cancel
 <2>3. ASSUME NEW q \in Run, NEW m \in Msg, NEW interrupt \in BOOLEAN, Send(c, q, m, interrupt)
       PROVE  Endings(x)
   BY <2>3, EndingsSame DEF Send
 <2>4. ASSUME NEW q \in Run, NEW m \in Msg \cup {None}, Revive(c, q, m) PROVE Endings(x)
  <3>1. ~Terminal(q) /\ status' = [status EXCEPT ![q] = "idle"]
    BY <2>4 DEF Revive, Terminal, Final
  <3> QED BY <2>4, <3>1, EndingsLive DEF Revive, Live
 <2> QED BY <1>1, <2>1, <2>2, <2>3, <2>4 DEF Calls
<1>2. ASSUME SpawnReturns(r) \/ ReviveReturns(r) \/ WaitEnds(r) PROVE Endings(x)
 <2>1. UNCHANGED settleVars /\ abortReq' = abortReq
   BY <1>2 DEF SpawnReturns, ReviveReturns, WaitEnds
 <2> QED BY <2>1, EndingsSame
<1>3. ASSUME Detach(r) PROVE Endings(x)
 <2>1. UNCHANGED settleVars /\ (Terminal(x) => abortReq'[x] = abortReq[x])
   BY <1>3 DEF Detach, TypeOK
 <2> QED BY <2>1, EndingsSame
<1>4. ASSUME ShutdownNext(r) PROVE Endings(x)
 <2>1. CASE Terminal(r)
  <3>1. UNCHANGED settleVars /\ abortReq' = abortReq BY <1>4, <2>1 DEF ShutdownNext
  <3> QED BY <3>1, EndingsSame
 <2>2. CASE ~Terminal(r)
  <3>1. Tree(r, "shutdown", Nobody, "shutdown") \in Cascade BY TreeType DEF Reason
  <3> QED BY <1>4, <2>2, <3>1, EndingsAbort DEF ShutdownNext
 <2> QED BY <2>1, <2>2
<1>5. ASSUME MainInterrupted \/ ShutdownBegins PROVE Endings(x)
 <2>1. UNCHANGED settleVars /\ abortReq' = abortReq
   BY <1>5 DEF MainInterrupted, ShutdownBegins
 <2> QED BY <2>1, EndingsSame
<1>6. ASSUME NEW k \in cascades, ResumeAbort(k) \/ DetachStarts(k) PROVE Endings(x)
 <2>1. CASE ResumeAbort(k) BY <1>0, <2>1, EndingsAbort DEF ResumeAbort
 <2>2. CASE DetachStarts(k)
  <3>1. k.root \in Run BY <1>0 DEF Cascade
  <3>2. Tree(k.root, "detach", Nobody, "cancel") \in Cascade BY <3>1, TreeType DEF Reason
  <3> QED BY <2>2, <3>2, EndingsAbort DEF DetachStarts
 <2> QED BY <1>6, <2>1, <2>2
<1> QED BY <1>1, <1>2, <1>3, <1>4, <1>5, <1>6

\* The run's task and its turn.
LEMMA EndingsTask ==
  ASSUME TypeOK, Inductive, NEW r \in Run, NEW i \in Start, NEW x \in Run
  PROVE  /\ TaskStep(r, i) => Endings(x)
         /\ BuildFails(r, i) \/ Acquire(r, i) \/ IdleTimeout(r, i) \/ TimerFires(r, i) => Endings(x)
         /\ TurnStep(r) \/ Request(r) => Endings(x)
         /\ \A final \in {"done", "failed"} : Yield(r, final) => Endings(x)
<1>0. /\ pc[r][i] \in InLoop => (Terminal(r) => abortReq[r] # None)
      /\ pc[r][i] \in Served => ~Terminal(r)
  BY DEF Inductive, Sound, TaskOwned
<1>1. ASSUME TaskStarts(r, i) \/ TaskStillborn(r, i) \/ Await(r, i) \/ TaskEnds(r, i)
      PROVE  Endings(x)
 <2>1. UNCHANGED settleVars /\ abortReq' = abortReq
   BY <1>1 DEF TaskStarts, TaskStillborn, Await, TaskEnds
 <2> QED BY <2>1, EndingsSame
<1>2. ASSUME TurnStep(r) \/ Request(r) PROVE Endings(x)
 <2>1. UNCHANGED settleVars /\ abortReq' = abortReq
   BY <1>2 DEF TurnStep, TurnOpens, TurnStops, TurnInterrupted, Request
 <2> QED BY <2>1, EndingsSame
<1>3. ASSUME NEW final \in {"done", "failed"}, Yield(r, final) PROVE Endings(x)
  BY <1>3, EndingsSame DEF Yield
<1>4. ASSUME Built(r, i) \/ TurnReturns(r, i) \/ Receive(r, i) PROVE Endings(x)
 <2>1. PICK m : LoopTop(r, i, m) BY <1>4 DEF Built, TurnReturns, Receive
 <2>2. pc[r][i] \in InLoop /\ abortReq' = abortReq
   BY <1>4 DEF Built, TurnReturns, Receive, InLoop, Place, None
 <2> QED BY <2>1, <2>2, EndingsLoopTop
<1>5. ASSUME BuildFails(r, i) \/ TurnRaises(r, i) PROVE Endings(x)
 <2>1. Settle(r, "failed", None) /\ abortReq' = abortReq BY <1>5 DEF BuildFails, TurnRaises
 <2> QED BY <2>1, EndingsSettle DEF Final
<1>6. ASSUME TurnEscapes(r, i) \/ TaskCancelled(r, i) PROVE Endings(x)
 <2>1. Settle(r, "aborted", Why(r, "shutdown")) /\ abortReq' = abortReq
   BY <1>6 DEF TurnEscapes, TaskCancelled
 <2> QED BY <2>1, EndingsSettle DEF Final, Why
<1>7. ASSUME BudgetSettles(r, i) PROVE Endings(x)
  BY <1>7, EndingsSettle DEF BudgetSettles, Final
<1>8. ASSUME EnterTurn(r, i) PROVE Endings(x)
 <2>1. CASE abortReq[r] # None
  <3>1. Settle(r, "aborted", abortReq[r]) /\ abortReq' = abortReq
    BY <1>8, <2>1 DEF EnterTurn
  <3> QED BY <3>1, EndingsSettle DEF Final
 <2>2. CASE abortReq[r] = None
  <3>1. UNCHANGED settleVars /\ abortReq' = abortReq BY <1>8, <2>2 DEF EnterTurn
  <3> QED BY <3>1, EndingsSame
 <2> QED BY <2>1, <2>2
<1>9. ASSUME Acquire(r, i) \/ IdleTimeout(r, i) PROVE Endings(x)
 <2>1. ~Terminal(r) BY <1>0, <1>9 DEF Acquire, IdleTimeout, Served, InLoop, Place, None
 <2>2. PICK s \in {"running", "parked"} : status' = [status EXCEPT ![r] = s]
   BY <1>9 DEF Acquire, IdleTimeout
 <2>3. abortReason' = abortReason /\ results' = results /\ abortReq' = abortReq
   BY <1>9 DEF Acquire, IdleTimeout
 <2> QED BY <2>1, <2>2, <2>3, EndingsLive DEF Live
<1>10. ASSUME BudgetExceeded(r, i) PROVE Endings(x)
 <2> DEFINE K == [root |-> r, kind |-> "budget", by |-> Nobody, why |-> "budget",
                  left |-> Descendants(r)]
 <2>1. K \in Cascade /\ Abort(K, cascades)
   BY <1>10 DEF BudgetExceeded, Cascade, Descendants, Reason
 <2> HIDE DEF K
 <2> QED BY <2>1, EndingsAbort
<1>11. ASSUME TimerFires(r, i) PROVE Endings(x)
 <2>1. Tree(r, "timer", i, "timeout") \in Cascade BY TreeType DEF Reason
 <2> QED BY <1>11, <2>1, EndingsAbort DEF TimerFires
<1> QED BY <1>1, <1>2, <1>3, <1>4, <1>5, <1>6, <1>7, <1>8, <1>9, <1>10, <1>11 DEF TaskStep

\* Every step leaves a run's end alone, or ends a run that had not ended.
LEMMA EndingsStep ==
  ASSUME TypeOK, Inductive, [Next]_vars, NEW x \in Run
  PROVE  Endings(x)
<1>1. CASE UNCHANGED vars
 <2>1. UNCHANGED settleVars /\ abortReq' = abortReq BY <1>1 DEF vars
 <2> QED BY <2>1, EndingsSame
<1>2. CASE Next
 <2>1. ASSUME NEW c \in Caller, Calls(c) PROVE Endings(x) BY <2>1, EndingsCalls
 <2>2. ASSUME NEW r \in Run,
              \/ SpawnReturns(r) \/ ReviveReturns(r) \/ WaitEnds(r)
              \/ Detach(r) \/ ShutdownNext(r)
       PROVE  Endings(x)
   BY <2>2, EndingsCalls DEF Caller
 <2>3. ASSUME MainInterrupted \/ ShutdownBegins PROVE Endings(x)
   BY <2>3, EndingsCalls DEF Caller
 <2>4. ASSUME NEW k \in cascades, ResumeAbort(k) \/ DetachStarts(k) PROVE Endings(x)
   BY <2>4, EndingsCalls DEF Caller
 <2>5. ASSUME NEW r \in Run,
              TurnStep(r) \/ Request(r) \/ \E final \in {"done", "failed"} : Yield(r, final)
       PROVE  Endings(x)
  <3>1. 1 \in Start BY LimitsAssumption DEF Start
  <3> QED BY <2>5, <3>1, EndingsTask
 <2>6. ASSUME NEW r \in Run, NEW i \in Start,
              \/ TaskStep(r, i) \/ BuildFails(r, i) \/ Acquire(r, i)
              \/ IdleTimeout(r, i) \/ TimerFires(r, i)
       PROVE  Endings(x)
   BY <2>6, EndingsTask
 <2> QED BY <1>2, <2>1, <2>2, <2>3, <2>4, <2>5, <2>6 DEF Next
<1> QED BY <1>1, <1>2

\* FinalStays: a settled run is never revived, re-queued or settled differently.
THEOREM EndIsFinal == Spec => FinalStays
<1> DEFINE Stays == \A r \in Run : Terminal(r) =>
                      status'[r] = status[r] /\ abortReason'[r] = abortReason[r]
<1>1. ASSUME TypeOK, Inductive, [Next]_vars PROVE Stays
  BY <1>1, EndingsStep DEF Endings, Unsettled, GoesOn, EndsNow
<1>2. TypeOK /\ Inductive /\ [Next]_vars => [Stays]_vars BY <1>1
<1> QED BY <1>2, Invariance, PTL DEF Spec, FinalStays

\* ResultOnce: every way a run can end writes one agent_result, and no live run has one.
THEOREM OneResult == Spec => []ResultOnce
<1>1. Init => ResultOnce BY DEF Init, ResultOnce, Terminal, Final, None
<1>2. ASSUME TypeOK, Inductive, ResultOnce, [Next]_vars PROVE ResultOnce'
 <2>1. ASSUME NEW r \in Run PROVE results'[r] = IF Terminal(r)' THEN 1 ELSE 0
  <3>1. Unsettled(r) \/ GoesOn(r) \/ EndsNow(r) BY <1>2, EndingsStep DEF Endings
  <3>2. results[r] = IF Terminal(r) THEN 1 ELSE 0 BY <1>2 DEF ResultOnce
  <3>3. CASE Unsettled(r) BY <3>2, <3>3 DEF Unsettled, Terminal
  <3>4. CASE GoesOn(r) BY <3>2, <3>4 DEF GoesOn, Terminal, Live, Final
  <3>5. CASE EndsNow(r) BY <3>2, <3>5 DEF EndsNow, Terminal
  <3> QED BY <3>1, <3>3, <3>4, <3>5
 <2> QED BY <2>1 DEF ResultOnce
<1>3. ResultOnce /\ UNCHANGED vars => ResultOnce' BY DEF ResultOnce, Terminal, vars
<1> QED BY <1>1, <1>2, Invariance, PTL DEF Spec

\* ReasonFirst: the first abort reason is the one recorded, unless the run was already
\* ending over its budget.
THEOREM FirstReason == Spec => []ReasonFirst
<1>1. Init => ReasonFirst BY DEF Init, ReasonFirst, None
<1>2. ASSUME TypeOK, Inductive, ReasonFirst, [Next]_vars PROVE ReasonFirst'
 <2>1. ASSUME NEW r \in Run, status'[r] = "aborted", abortReq'[r] # None
       PROVE  abortReason'[r] \in {abortReq'[r], "budget"}
  <3>1. /\ Unsettled(r) \/ GoesOn(r) \/ EndsNow(r)
        /\ Terminal(r) => abortReq'[r] = abortReq[r]
    BY <1>2, EndingsStep DEF Endings
  <3>2. CASE Unsettled(r)
    BY <1>2, <2>1, <3>1, <3>2 DEF Unsettled, ReasonFirst, Terminal, Final
  <3>3. CASE GoesOn(r) BY <2>1, <3>3 DEF GoesOn, Live
  <3>4. CASE EndsNow(r) BY <2>1, <3>4 DEF EndsNow
  <3> QED BY <3>1, <3>2, <3>3, <3>4
 <2> QED BY <2>1 DEF ReasonFirst
<1> QED BY <1>1, <1>2, Invariance, PTL DEF Spec

\* A turn that was not there is created by EnterTurn, of a run that is not ending.
LEMMA TurnBegins ==
  ASSUME TypeOK, Inductive, Next, NEW x \in Run, turn[x] = None, turn'[x] # None
  PROVE  abortReq[x] = None /\ completion[x] = None
<1>1. turn' # turn OBVIOUS
<1>2. ASSUME NEW c \in Caller, Calls(c) PROVE FALSE
  BY <1>1, <1>2, ZenonT(40) DEF Calls, Spawn, Cancel, Send, Revive
<1>3. ASSUME NEW r \in Run,
             \/ SpawnReturns(r) \/ ReviveReturns(r) \/ WaitEnds(r)
             \/ Detach(r) \/ ShutdownNext(r)
      PROVE  FALSE
  BY <1>1, <1>3 DEF SpawnReturns, ReviveReturns, WaitEnds, Detach, ShutdownNext
<1>4. ASSUME MainInterrupted \/ ShutdownBegins PROVE FALSE
  BY <1>1, <1>4 DEF MainInterrupted, ShutdownBegins
<1>5. ASSUME NEW k \in cascades, ResumeAbort(k) \/ DetachStarts(k) PROVE FALSE
  BY <1>1, <1>5 DEF ResumeAbort, DetachStarts
<1>6. ASSUME NEW r \in Run,
             TurnStep(r) \/ Request(r) \/ \E final \in {"done", "failed"} : Yield(r, final)
      PROVE  FALSE
 <2>1. CASE TurnStep(r)
  <3>1. turn[r] \in {"opening", "streaming"}
    BY <2>1 DEF TurnStep, TurnOpens, TurnStops, TurnInterrupted
  <3>2. \E p : turn' = [turn EXCEPT ![r] = p]
    BY <2>1 DEF TurnStep, TurnOpens, TurnStops, TurnInterrupted
  <3>3. turn'[x] = turn[x] \/ x = r BY <3>2 DEF TypeOK
  <3> QED BY <3>1, <3>3 DEF None
 <2>2. CASE Request(r) \/ \E final \in {"done", "failed"} : Yield(r, final)
   BY <1>1, <2>2 DEF Request, Yield
 <2> QED BY <1>6, <2>1, <2>2
<1>7. ASSUME NEW r \in Run, NEW i \in Start, EnterTurn(r, i)
      PROVE  abortReq[x] = None /\ completion[x] = None
 <2>1. abortReq[r] = None /\ turn' = [turn EXCEPT ![r] = "opening"]
   BY <1>1, <1>7 DEF EnterTurn
 <2>2. x = r BY <2>1 DEF TypeOK
 <2>3. completion[r] = None BY <1>7 DEF EnterTurn, Inductive, Sound, TaskOwned
 <2> QED BY <2>1, <2>2, <2>3
<1>8. ASSUME NEW r \in Run, NEW i \in Start,
             \/ TurnReturns(r, i) \/ BudgetExceeded(r, i) \/ TurnRaises(r, i) \/ TurnEscapes(r, i)
      PROVE  FALSE
 <2>1. turn' = [turn EXCEPT ![r] = None]
   BY <1>8 DEF TurnReturns, BudgetExceeded, TurnRaises, TurnEscapes
 <2> QED BY <2>1 DEF TypeOK
<1>9. ASSUME NEW r \in Run, NEW i \in Start,
             \/ TaskStarts(r, i) \/ TaskStillborn(r, i) \/ Built(r, i) \/ BuildFails(r, i)
             \/ BudgetSettles(r, i) \/ Receive(r, i) \/ Await(r, i) \/ TaskCancelled(r, i)
      PROVE  FALSE
  BY <1>1, <1>9 DEF TaskStarts, TaskStillborn, Built, BuildFails, BudgetSettles, Receive, Await,
     TaskCancelled
<1>10. ASSUME NEW r \in Run, NEW i \in Start,
              Acquire(r, i) \/ IdleTimeout(r, i) \/ TaskEnds(r, i) \/ TimerFires(r, i)
       PROVE  FALSE
  BY <1>1, <1>10 DEF Acquire, IdleTimeout, TaskEnds, TimerFires
<1> QED BY <1>2, <1>3, <1>4, <1>5, <1>6, <1>7, <1>8, <1>9, <1>10 DEF Next, TaskStep

\* NoTurnAfterEnd: no turn begins for a run whose abort or completion is known, however
\* the request interleaves with the wait for a permit.
THEOREM NoLateTurn == Spec => NoTurnAfterEnd
<1> DEFINE Timely == \A r \in Run : turn[r] = None /\ turn'[r] # None =>
                       abortReq[r] = None /\ completion[r] = None
<1>1. ASSUME TypeOK, Inductive, Next PROVE Timely BY <1>1, TurnBegins
<1>2. TypeOK /\ Inductive /\ [Next]_vars => [Timely]_vars BY <1>1
<1> QED BY <1>2, Invariance, PTL DEF Spec, NoTurnAfterEnd

------------------------------------------------------------------------------
(* What AgentRuns promises whoever waits for a run: its deadline stays     *)
(* armed, its texts are not lost in silence, and going over its budget     *)
(* ends its children too.  Each has an invariant of its own, kept by every *)
(* step of a state that is sound.                                          *)


------------------------------------------------------------------------------
(* A run that is over or being aborted stays so.                           *)

\* What a stretch of a cascade reaches is doomed, and what was doomed stays so.
LEMMA AbortReaches ==
  ASSUME TypeOK, NEW k \in Cascade, NEW ks, Abort(k, ks)
  PROVE  \E B \in SUBSET k.left :
           /\ \A x \in B : Doomed(x)'
           /\ \A x \in Run : Doomed(x) => Doomed(x)'
           /\ IF B = k.left THEN cascades' = ks
              ELSE cascades' = ks \cup {[k EXCEPT !.left = @ \ B]}
<1>1. PICK B \in Batches(k.left) :
        /\ AbortBatch(B, k.why)
        /\ cascades' = ks \cup (IF B = k.left THEN {} ELSE {[k EXCEPT !.left = @ \ B]})
  BY DEF Abort
<1>2. B \in SUBSET k.left /\ k.left \in SUBSET Run BY DEF Batches, Cascade
<1>3. ASSUME NEW x \in Run, Terminal(x) PROVE Terminal(x)'
  BY <1>3, AbortEffect DEF Direct, Terminal
<1>4. ASSUME NEW x \in Run, Doomed(x) PROVE Doomed(x)' BY <1>3, <1>4, AbortEffect DEF Doomed
<1>5. ASSUME NEW x \in B PROVE Doomed(x)'
 <2>1. CASE Terminal(x) BY <1>2, <1>3, <2>1 DEF Doomed
 <2>2. CASE ~Terminal(x)
  <3>1. abortReq'[x] = Why(x, k.why) BY <1>1, <1>2, <2>2 DEF AbortBatch
  <3>2. Why(x, k.why) # None BY DEF Cascade, Why, Reason, None
  <3> QED BY <3>1, <3>2 DEF Doomed
 <2> QED BY <2>1, <2>2
<1>6. IF B = k.left THEN cascades' = ks ELSE cascades' = ks \cup {[k EXCEPT !.left = @ \ B]}
  BY <1>1
<1> QED BY <1>2, <1>4, <1>5, <1>6

\* No step takes back the request of an abort.
LEMMA AbortReqStays ==
  ASSUME TypeOK, [Next]_vars, NEW x \in Run, abortReq[x] # None
  PROVE  abortReq'[x] # None
<1>0. cascades \in SUBSET Cascade BY DEF TypeOK
<1>1. CASE abortReq' = abortReq BY <1>1
<1>2. ASSUME NEW k \in Cascade, NEW ks, Abort(k, ks) PROVE abortReq'[x] # None
  BY <1>2, AbortEffect
<1>3. ASSUME NEW c \in Caller, Calls(c) PROVE abortReq'[x] # None
 <2>1. ASSUME NEW q \in Run, Cancel(c, q) PROVE abortReq'[x] # None
  <3>1. Tree(q, "call", c, "cancel") \in Cascade BY TreeType DEF Reason
  <3> QED BY <1>2, <2>1, <3>1 DEF Cancel
 <2>2. ASSUME NEW q \in Run,
              \/ Spawn(c, q) \/ \E m \in Msg, interrupt \in BOOLEAN : Send(c, q, m, interrupt)
              \/ \E m \in Msg \cup {None} : Revive(c, q, m)
       PROVE  abortReq' = abortReq
   BY <2>2 DEF Spawn, Send, Revive
 <2> QED BY <1>1, <1>3, <2>1, <2>2 DEF Calls
<1>4. ASSUME NEW r \in Run, Detach(r) PROVE abortReq'[x] # None BY <1>4 DEF Detach, TypeOK
<1>5. ASSUME NEW r \in Run, ShutdownNext(r) PROVE abortReq'[x] # None
 <2>1. Tree(r, "shutdown", Nobody, "shutdown") \in Cascade BY TreeType DEF Reason
 <2> QED BY <1>1, <1>2, <1>5, <2>1 DEF ShutdownNext
<1>6. ASSUME NEW k \in cascades, ResumeAbort(k) \/ DetachStarts(k) PROVE abortReq'[x] # None
 <2>1. k \in Cascade /\ k.root \in Run BY <1>0 DEF Cascade
 <2>2. Tree(k.root, "detach", Nobody, "cancel") \in Cascade BY <2>1, TreeType DEF Reason
 <2> QED BY <1>2, <1>6, <2>1, <2>2 DEF ResumeAbort, DetachStarts
<1>7. ASSUME NEW r \in Run, NEW i \in Start, BudgetExceeded(r, i) PROVE abortReq'[x] # None
 <2> DEFINE K == [root |-> r, kind |-> "budget", by |-> Nobody, why |-> "budget",
                  left |-> Descendants(r)]
 <2>1. K \in Cascade /\ Abort(K, cascades)
   BY <1>7 DEF BudgetExceeded, Cascade, Descendants, Reason
 <2> HIDE DEF K
 <2> QED BY <1>2, <2>1
<1>8. ASSUME NEW r \in Run, NEW i \in Start, TimerFires(r, i) PROVE abortReq'[x] # None
 <2>1. Tree(r, "timer", i, "timeout") \in Cascade BY TreeType DEF Reason
 <2> QED BY <1>2, <1>8, <2>1 DEF TimerFires
<1>9. ASSUME NEW r \in Run, NEW i \in Start,
             \/ TaskStarts(r, i) \/ TaskStillborn(r, i) \/ Built(r, i) \/ EnterTurn(r, i)
             \/ TurnReturns(r, i) \/ BudgetSettles(r, i) \/ TurnRaises(r, i)
             \/ TurnEscapes(r, i) \/ Receive(r, i) \/ Await(r, i) \/ TaskCancelled(r, i)
             \/ TaskEnds(r, i) \/ BuildFails(r, i) \/ Acquire(r, i) \/ IdleTimeout(r, i)
      PROVE  abortReq' = abortReq
  BY <1>9 DEF TaskStarts, TaskStillborn, Built, EnterTurn, TurnReturns, BudgetSettles, TurnRaises,
     TurnEscapes, Receive, Await, TaskCancelled, TaskEnds, BuildFails, Acquire, IdleTimeout
<1>10. ASSUME NEW r \in Run,
              \/ SpawnReturns(r) \/ ReviveReturns(r) \/ WaitEnds(r) \/ TurnStep(r) \/ Request(r)
              \/ \E final \in {"done", "failed"} : Yield(r, final)
       PROVE  abortReq' = abortReq
  BY <1>10 DEF SpawnReturns, ReviveReturns, WaitEnds, TurnStep, TurnOpens, TurnStops,
     TurnInterrupted, Request, Yield
<1>11. ASSUME MainInterrupted \/ ShutdownBegins \/ UNCHANGED vars PROVE abortReq' = abortReq
  BY <1>11 DEF MainInterrupted, ShutdownBegins, vars
<1> QED BY <1>1, <1>3, <1>4, <1>5, <1>6, <1>7, <1>8, <1>9, <1>10, <1>11 DEF Next, TaskStep

\* ... and so no step saves a run.
LEMMA DoomedStays ==
  ASSUME TypeOK, Inductive, [Next]_vars, NEW x \in Run, Doomed(x)
  PROVE  Doomed(x)'
BY AbortReqStays, EndingsStep DEF Doomed, Terminal, Endings, Unsettled, GoesOn, EndsNow

------------------------------------------------------------------------------
(* The deadline.                                                           *)

\* Where a task has begun and not ended.
Body == Place \ {None, "created", "ended"}

WatchInv == TimersReach /\ \A x \in Run : WatchdogsSuffice(x)

\* A step in which no task of x begins or ends, and no watchdog of x unless x is doomed.
LEMMA WatchStep ==
  ASSUME NEW x \in Run, WatchdogsSuffice(x), Doomed(x) => Doomed(x)', task'[x] = task[x],
         \A i \in Start : pc'[x][i] = pc[x][i] \/ (pc[x][i] \in Body /\ pc'[x][i] \in Body),
         Watchdogs(x)' \subseteq Watchdogs(x), Doomed(x)' \/ Watchdogs(x)' = Watchdogs(x)
  PROVE  WatchdogsSuffice(x)'
<1>1. \A i \in Start : (pc'[x][i] \in {None, "created", "ended"}) =>
                          pc'[x][i] = pc[x][i]
  BY DEF Body
<1>2. Watched(x)' = Watched(x) BY DEF Watched, Body
<1>3. ASSUME NEW i \in Start, i > task'[x] PROVE pc'[x][i] = None
  BY <1>3 DEF WatchdogsSuffice, Body
<1>4. ASSUME NEW i \in Start, pc'[x][i] \in {None, "created"} PROVE i \notin Watchdogs(x)'
  BY <1>1, <1>4 DEF WatchdogsSuffice
<1>5. Deadlines /\ x \notin Advisor /\ ~Doomed(x)' =>
        Cardinality(Watched(x)') <= Cardinality(Watchdogs(x)')
  BY <1>2 DEF WatchdogsSuffice
<1> QED BY <1>3, <1>4, <1>5 DEF WatchdogsSuffice

\* The same tasks, watchdogs and timer cascades: x stays guarded.
LEMMA WatchSame ==
  ASSUME NEW x \in Run, WatchdogsSuffice(x), Doomed(x) => Doomed(x)', task'[x] = task[x],
         \A i \in Start : pc'[x][i] = pc[x][i] \/ (pc[x][i] \in Body /\ pc'[x][i] \in Body),
         timers'[x] = timers[x],
         \A k \in cascades : k.kind = "timer" => k \in cascades',
         \A k \in cascades' : k.kind = "timer" => k \in cascades
  PROVE  WatchdogsSuffice(x)'
<1>1. Watchdogs(x)' = Watchdogs(x) BY DEF Watchdogs
<1> QED BY <1>1, WatchStep

\* The same timer cascades still reach their roots.
LEMMA ReachSame ==
  ASSUME TypeOK, TimersReach, \A x \in Run : Doomed(x) => Doomed(x)',
         \A k \in cascades' : k.kind = "timer" => k \in cascades
  PROVE  TimersReach'
BY DEF TimersReach, TypeOK, Cascade

\* A stretch of cascade k, of a watchdog that slept or was aborting or of another kind: its
\* watchdog is still aborting afterwards, or its run is doomed.
LEMMA AbortWatch ==
  ASSUME TypeOK, TimersReach, NEW k \in Cascade, NEW ks \in SUBSET cascades, Abort(k, ks),
         \A c \in cascades : c.kind = "timer" => c \in ks \/ c = k,
         k.kind = "timer" =>
           k.by \in Watchdogs(k.root) /\ (k.root \in k.left \/ Doomed(k.root)),
         \A x \in Run : \/ timers'[x] = timers[x]
                        \/ k.kind = "timer" /\ x = k.root /\ timers'[x] = timers[x] \ {k.by},
         NEW y \in Run
  PROVE  /\ TimersReach'
         /\ Doomed(y) => Doomed(y)'
         /\ Watchdogs(y)' \subseteq Watchdogs(y)
         /\ Doomed(y)' \/ Watchdogs(y)' = Watchdogs(y)
<1>1. PICK B \in SUBSET k.left :
        /\ \A x \in B : Doomed(x)'
        /\ \A x \in Run : Doomed(x) => Doomed(x)'
        /\ IF B = k.left THEN cascades' = ks
           ELSE cascades' = ks \cup {[k EXCEPT !.left = @ \ B]}
  BY AbortReaches
<1> DEFINE rest == [k EXCEPT !.left = @ \ B]
<1>2. /\ rest.kind = k.kind /\ rest.root = k.root /\ rest.by = k.by
      /\ rest.left = k.left \ B
  BY DEF Cascade
<1>3. /\ ks \subseteq cascades'
      /\ \A c \in cascades' : c \in ks \/ c = rest
      /\ B # k.left => rest \in cascades'
  BY <1>1
<1> HIDE DEF rest
<1>4. k.root \in Run /\ \A c \in cascades : c.root \in Run BY DEF TypeOK, Cascade
<1>5. k.kind = "timer" /\ B = k.left => Doomed(k.root)' BY <1>1, <1>4
<1>6. k.kind = "timer" =>
        rest.by \in Start /\ (rest.root \in rest.left \/ Doomed(rest.root)')
  BY <1>1, <1>2, <1>4 DEF Watchdogs
<1>7. TimersReach'
 <2>1. ASSUME NEW c \in cascades', c.kind = "timer"
       PROVE  c.by \in Start /\ (c.root \in c.left \/ Doomed(c.root)')
   BY <1>1, <1>2, <1>3, <1>4, <1>6, <2>1 DEF TimersReach
 <2> QED BY <2>1 DEF TimersReach
<1>8. ASSUME NEW i \in Watchdogs(y)' PROVE i \in Watchdogs(y)
 <2>1. i \in Start /\ (i \in timers'[y] \/
         \E c \in cascades' : c.kind = "timer" /\ c.root = y /\ c.by = i)
   BY <1>8 DEF Watchdogs
 <2>2. CASE i \in timers'[y] BY <2>1, <2>2 DEF Watchdogs
 <2>3. ASSUME NEW c \in cascades', c.kind = "timer", c.root = y, c.by = i
       PROVE  i \in Watchdogs(y)
  <3>1. CASE c \in ks BY <2>1, <2>3, <3>1 DEF Watchdogs
  <3>2. CASE c = rest BY <1>2, <2>3, <3>2
  <3> QED BY <1>3, <3>1, <3>2
 <2> QED BY <2>1, <2>2, <2>3
<1>9. ASSUME ~Doomed(y)', NEW i \in Watchdogs(y) PROVE i \in Watchdogs(y)'
 <2>1. CASE k.kind = "timer" /\ y = k.root /\ i = k.by
  <3>1. rest \in cascades' BY <1>3, <1>5, <1>9, <2>1
  <3> QED BY <1>2, <1>9, <2>1, <3>1 DEF Watchdogs
 <2>2. CASE ~(k.kind = "timer" /\ y = k.root /\ i = k.by)
  <3>1. i \in timers[y] => i \in timers'[y] BY <2>2
  <3>2. ASSUME NEW c \in cascades, c.kind = "timer", c.root = y, c.by = i
        PROVE  c \in cascades'
    BY <1>3, <2>2, <3>2
  <3> QED BY <1>9, <3>1, <3>2 DEF Watchdogs
 <2> QED BY <2>1, <2>2
<1> QED BY <1>1, <1>7, <1>8, <1>9

\* A step of a cascade keeps the invariant, when no task begins or ends in it.
LEMMA AbortKeepsWatch ==
  ASSUME TypeOK, WatchInv, NEW k \in Cascade, NEW ks \in SUBSET cascades, Abort(k, ks),
         \A c \in cascades : c.kind = "timer" => c \in ks \/ c = k,
         k.kind = "timer" =>
           k.by \in Watchdogs(k.root) /\ (k.root \in k.left \/ Doomed(k.root)),
         \A x \in Run : \/ timers'[x] = timers[x]
                        \/ k.kind = "timer" /\ x = k.root /\ timers'[x] = timers[x] \ {k.by},
         task' = task,
         \A x \in Run, i \in Start :
            pc'[x][i] = pc[x][i] \/ (pc[x][i] \in Body /\ pc'[x][i] \in Body)
  PROVE  WatchInv'
<1>1. ASSUME NEW x \in Run PROVE TimersReach' /\ WatchdogsSuffice(x)'
 <2>1. /\ TimersReach'
       /\ Doomed(x) => Doomed(x)'
       /\ Watchdogs(x)' \subseteq Watchdogs(x)
       /\ Doomed(x)' \/ Watchdogs(x)' = Watchdogs(x)
   BY AbortWatch DEF WatchInv
 <2> QED BY <2>1, WatchStep DEF WatchInv
<1>2. Run # {} BY DEF Cascade
<1> QED BY <1>1, <1>2 DEF WatchInv

\* Steps that touch neither tasks nor watchdogs, nor the cascades of watchdogs.
LEMMA WatchQuiet ==
  ASSUME TypeOK, WatchInv, \A x \in Run : Doomed(x) => Doomed(x)', task' = task,
         timers' = timers,
         \A x \in Run, i \in Start :
            pc'[x][i] = pc[x][i] \/ (pc[x][i] \in Body /\ pc'[x][i] \in Body),
         \A k \in cascades : k.kind = "timer" => k \in cascades',
         \A k \in cascades' : k.kind = "timer" => k \in cascades
  PROVE  WatchInv'
<1>1. TimersReach' BY ReachSame DEF WatchInv
<1>2. ASSUME NEW x \in Run PROVE WatchdogsSuffice(x)' BY WatchSame DEF WatchInv
<1> QED BY <1>1, <1>2 DEF WatchInv

\* The calls of the registry, up to where they suspend, and their interruption.
LEMMA WatchCalls ==
  ASSUME TypeOK, WatchInv, \A x \in Run : Doomed(x) => Doomed(x)', NEW c \in Caller,
         NEW r \in Run
  PROVE  /\ Calls(c) => WatchInv'
         /\ MainInterrupted \/ ShutdownBegins \/ WaitEnds(r) \/ Detach(r) => WatchInv'
         /\ ShutdownNext(r) => WatchInv'
         /\ \A k \in cascades : ResumeAbort(k) \/ DetachStarts(k) => WatchInv'
<1>0. cascades \in SUBSET Cascade BY DEF TypeOK
<1>1. ASSUME NEW q \in Run, Cancel(c, q) PROVE WatchInv'
 <2> DEFINE K == Tree(q, "call", c, "cancel")
 <2>1. K \in Cascade BY TreeType DEF Reason
 <2>2. K.kind = "call" /\ Abort(K, cascades) BY <1>1 DEF Cancel, Tree
 <2>3. task' = task /\ pc' = pc /\ timers' = timers BY <1>1 DEF Cancel
 <2> HIDE DEF K
 <2> QED BY <2>1, <2>2, <2>3, AbortKeepsWatch
<1>2. ASSUME NEW q \in Run,
             \/ Spawn(c, q) \/ \E m \in Msg, interrupt \in BOOLEAN : Send(c, q, m, interrupt)
             \/ \E m \in Msg \cup {None} : Revive(c, q, m)
      PROVE  WatchInv'
 <2>1. task' = task /\ pc' = pc /\ timers' = timers /\ cascades' = cascades
   BY <1>2 DEF Spawn, Send, Revive
 <2> QED BY <2>1, WatchQuiet
<1>3. ASSUME MainInterrupted \/ ShutdownBegins \/ WaitEnds(r) PROVE WatchInv'
 <2>1. task' = task /\ pc' = pc /\ timers' = timers
   BY <1>3 DEF MainInterrupted, ShutdownBegins, WaitEnds
 <2>2. /\ \A k \in cascades : k.kind = "timer" => k \in cascades'
       /\ \A k \in cascades' : k \in cascades
   BY <1>3 DEF MainInterrupted, ShutdownBegins, WaitEnds, DropCalls
 <2> QED BY <2>1, <2>2, WatchQuiet
<1>4. ASSUME Detach(r) PROVE WatchInv'
 <2>1. task' = task /\ pc' = pc /\ timers' = timers BY <1>4 DEF Detach
 <2> DEFINE d == [root |-> r, kind |-> "detaching", by |-> Nobody, why |-> "cancel",
                  left |-> {}]
 <2>2. d.kind = "detaching" /\ (cascades' = cascades \/ cascades' = cascades \cup {d})
   BY <1>4 DEF Detach
 <2> HIDE DEF d
 <2>3. /\ \A k \in cascades : k.kind = "timer" => k \in cascades'
       /\ \A k \in cascades' : k.kind = "timer" => k \in cascades
   BY <2>2
 <2> QED BY <2>1, <2>3, WatchQuiet
<1>5. ASSUME ShutdownNext(r) PROVE WatchInv'
 <2>1. task' = task /\ pc' = pc /\ timers' = timers BY <1>5 DEF ShutdownNext
 <2> DEFINE K == Tree(r, "shutdown", Nobody, "shutdown")
 <2>2. K \in Cascade /\ K.kind = "shutdown" BY TreeType DEF Reason, Tree
 <2>3. cascades' = cascades \/ Abort(K, cascades) BY <1>5 DEF ShutdownNext
 <2> HIDE DEF K
 <2>4. CASE cascades' = cascades BY <2>1, <2>4, WatchQuiet
 <2>5. CASE Abort(K, cascades) BY <2>1, <2>2, <2>5, AbortKeepsWatch
 <2> QED BY <2>3, <2>4, <2>5
<1>6. ASSUME NEW k \in cascades, ResumeAbort(k) PROVE WatchInv'
 <2>1. task' = task /\ pc' = pc /\ timers' = timers BY <1>6 DEF ResumeAbort
 <2>2. k \in Cascade /\ Abort(k, cascades \ {k}) BY <1>0, <1>6 DEF ResumeAbort
 <2>3. k.kind = "timer" => k.root \in k.left \/ Doomed(k.root) BY DEF WatchInv, TimersReach
 <2>4. CASE k.kind # "timer" BY <2>1, <2>2, <2>4, AbortKeepsWatch
 <2>5. CASE k.kind = "timer"
  <3>1. k.by \in Watchdogs(k.root) BY <2>5 DEF Watchdogs, WatchInv, TimersReach
  <3> QED BY <2>1, <2>2, <2>3, <3>1, AbortKeepsWatch
 <2> QED BY <2>4, <2>5
<1>7. ASSUME NEW k \in cascades, DetachStarts(k) PROVE WatchInv'
 <2>1. task' = task /\ pc' = pc /\ timers' = timers BY <1>7 DEF DetachStarts
 <2> DEFINE K == Tree(k.root, "detach", Nobody, "cancel")
 <2>2. k.root \in Run /\ k.kind = "detaching" BY <1>0, <1>7 DEF Cascade, DetachStarts
 <2>3. K \in Cascade /\ K.kind = "detach" BY <2>2, TreeType DEF Reason, Tree
 <2>4. Abort(K, cascades \ {k}) BY <1>7 DEF DetachStarts
 <2> HIDE DEF K
 <2> QED BY <2>1, <2>2, <2>3, <2>4, AbortKeepsWatch
<1> QED BY <1>1, <1>2, <1>3, <1>4, <1>5, <1>6, <1>7 DEF Calls

\* A fresh task for r, which has none in its loop.
LEMMA WatchFresh ==
  ASSUME TypeOK, WatchInv, \A x \in Run : Doomed(x) => Doomed(x)', NEW r \in Run,
         task[r] + 1 \in Start, task' = [task EXCEPT ![r] = @ + 1],
         pc' = [pc EXCEPT ![r][task[r] + 1] = "created"],
         timers' = timers, cascades' = cascades
  PROVE  WatchInv'
<1>1. TimersReach' BY ReachSame DEF WatchInv
<1>2. ASSUME NEW x \in Run, x # r PROVE WatchdogsSuffice(x)'
 <2>1. task'[x] = task[x] /\ pc'[x] = pc[x] BY <1>2 DEF TypeOK
 <2> QED BY <2>1, WatchSame DEF WatchInv
<1>3. WatchdogsSuffice(r)'
 <2>1. /\ task[r] \in Nat /\ task'[r] = task[r] + 1
       /\ \A i \in Start : pc'[r][i] = IF i = task[r] + 1 THEN "created" ELSE pc[r][i]
   BY DEF TypeOK
 <2>2. WatchdogsSuffice(r) /\ Watchdogs(r)' = Watchdogs(r) BY DEF WatchInv, Watchdogs
 <2>3. pc[r][task[r] + 1] = None BY <2>1, <2>2 DEF WatchdogsSuffice
 <2>4. Watched(r)' = Watched(r) BY <2>1, <2>3 DEF Watched, None
 <2>5. ASSUME NEW i \in Start, i > task'[r] PROVE pc'[r][i] = None
   BY <2>1, <2>2, <2>5 DEF WatchdogsSuffice, Start
 <2>6. ASSUME NEW i \in Start, pc'[r][i] \in {None, "created"} PROVE i \notin Watchdogs(r)'
   BY <2>1, <2>2, <2>3, <2>6 DEF WatchdogsSuffice
 <2> QED BY <2>2, <2>4, <2>5, <2>6 DEF WatchdogsSuffice
<1> QED BY <1>1, <1>2, <1>3 DEF WatchInv

\* How many watchdogs and watched tasks there are, is a number.
LEMMA WatchFinite ==
  ASSUME NEW x \in Run
  PROVE  /\ IsFiniteSet(Watched(x)) /\ Cardinality(Watched(x)) \in Nat
         /\ IsFiniteSet(Watchdogs(x)) /\ Cardinality(Watchdogs(x)) \in Nat
<1>1. IsFiniteSet(Start) BY LimitsAssumption, FS_Interval DEF Start
<1>2. Watched(x) \subseteq Start /\ Watchdogs(x) \subseteq Start BY DEF Watched, Watchdogs
<1> QED BY <1>1, <1>2, FS_Subset, FS_CardinalityType

\* A task of r begins and makes its watchdog.
LEMMA WatchStarts ==
  ASSUME TypeOK, WatchInv, \A x \in Run : Doomed(x) => Doomed(x)', NEW r \in Run,
         NEW i \in Start, TaskStarts(r, i)
  PROVE  WatchInv'
<1>0. /\ pc[r][i] = "created" /\ task' = task /\ cascades' = cascades
      /\ pc' = [pc EXCEPT ![r][i] = "building"]
      /\ Deadlines /\ r \notin Advisor => timers' = [timers EXCEPT ![r] = @ \cup {i}]
      /\ ~(Deadlines /\ r \notin Advisor) => timers' = timers
  BY DEF TaskStarts, Goto
<1>1. TimersReach' BY <1>0, ReachSame DEF WatchInv
<1>2. ASSUME NEW x \in Run, x # r PROVE WatchdogsSuffice(x)'
 <2>1. task'[x] = task[x] /\ pc'[x] = pc[x] /\ timers'[x] = timers[x]
   BY <1>0, <1>2 DEF TypeOK
 <2> QED BY <1>0, <2>1, WatchSame DEF WatchInv
<1>3. WatchdogsSuffice(r)'
 <2>1. WatchdogsSuffice(r) BY DEF WatchInv
 <2>2. \A j \in Start : pc'[r][j] = IF j = i THEN "building" ELSE pc[r][j]
   BY <1>0 DEF TypeOK
 <2>3. i \notin Watched(r) /\ Watched(r)' = Watched(r) \cup {i}
   BY <1>0, <2>2 DEF Watched, None
 <2>4. i \notin Watchdogs(r) BY <1>0, <2>1 DEF WatchdogsSuffice
 <2>5. IF Deadlines /\ r \notin Advisor THEN Watchdogs(r)' = Watchdogs(r) \cup {i}
       ELSE Watchdogs(r)' = Watchdogs(r)
   BY <1>0 DEF Watchdogs, TypeOK
 <2>6. Cardinality(Watched(r)') = Cardinality(Watched(r)) + 1
   BY <2>3, WatchFinite, FS_AddElement
 <2>7. Deadlines /\ r \notin Advisor =>
         Cardinality(Watchdogs(r)') = Cardinality(Watchdogs(r)) + 1
   BY <2>4, <2>5, WatchFinite, FS_AddElement
 <2>8. Deadlines /\ r \notin Advisor /\ ~Doomed(r)' =>
         Cardinality(Watched(r)') <= Cardinality(Watchdogs(r)')
   BY <2>1, <2>6, <2>7, WatchFinite DEF WatchdogsSuffice
 <2>9. ASSUME NEW j \in Start, j > task'[r] PROVE pc'[r][j] = None
   BY <1>0, <2>1, <2>2, <2>9 DEF WatchdogsSuffice, None
 <2>10. ASSUME NEW j \in Start, pc'[r][j] \in {None, "created"} PROVE j \notin Watchdogs(r)'
   BY <2>1, <2>2, <2>5, <2>10 DEF WatchdogsSuffice, None
 <2> QED BY <2>8, <2>9, <2>10 DEF WatchdogsSuffice
<1> QED BY <1>1, <1>2, <1>3 DEF WatchInv

\* A task of r ends, and with it at most one watchdog, perhaps of another task.
LEMMA WatchEnds ==
  ASSUME TypeOK, WatchInv, \A x \in Run : Doomed(x) => Doomed(x)', NEW r \in Run,
         NEW i \in Start, TaskEnds(r, i)
  PROVE  WatchInv'
<1>0. /\ pc[r][i] \in {"settling", "parking"} /\ task' = task
      /\ pc' = [pc EXCEPT ![r][i] = "ended"]
      /\ timers' = [timers EXCEPT ![r] = @ \ {timerRef[r]}]
      /\ cascades' = {k \in cascades :
                        ~(k.kind = "timer" /\ k.root = r /\ k.by = timerRef[r])}
  BY DEF TaskEnds, Goto
<1>1. TimersReach' BY <1>0, ReachSame DEF WatchInv
<1>2. ASSUME NEW x \in Run, x # r PROVE WatchdogsSuffice(x)'
 <2>1. task'[x] = task[x] /\ pc'[x] = pc[x] /\ timers'[x] = timers[x]
   BY <1>0, <1>2 DEF TypeOK
 <2>2. Watchdogs(x)' = Watchdogs(x) BY <1>0, <1>2, <2>1 DEF Watchdogs
 <2> QED BY <2>1, <2>2, WatchStep DEF WatchInv
<1>3. WatchdogsSuffice(r)'
 <2>1. WatchdogsSuffice(r) BY DEF WatchInv
 <2>2. \A j \in Start : pc'[r][j] = IF j = i THEN "ended" ELSE pc[r][j] BY <1>0 DEF TypeOK
 <2>3. i \in Watched(r) /\ Watched(r)' = Watched(r) \ {i} BY <1>0, <2>2 DEF Watched, None
 <2>4. Watchdogs(r)' = Watchdogs(r) \ {timerRef[r]} BY <1>0 DEF Watchdogs, TypeOK
 <2>5. Cardinality(Watched(r)') = Cardinality(Watched(r)) - 1
   BY <2>3, WatchFinite, FS_RemoveElement
 <2>6. /\ Cardinality(Watchdogs(r)') \in Nat
       /\ Cardinality(Watchdogs(r)') >= Cardinality(Watchdogs(r)) - 1
  <3> DEFINE W == Watchdogs(r)
             V == Watchdogs(r)'
  <3>1. IsFiniteSet(W) /\ Cardinality(W) \in Nat BY WatchFinite
  <3>2. IsFiniteSet(V) /\ Cardinality(V) \in Nat
    BY <2>4, <3>1, FS_Subset, FS_CardinalityType
  <3> HIDE DEF W, V
  <3>3. CASE timerRef[r] \in W
   <4>1. V = W \ {timerRef[r]} BY <2>4 DEF W, V
   <4>2. Cardinality(V) = Cardinality(W) - 1 BY <3>1, <3>3, <4>1, FS_RemoveElement
   <4>3. Cardinality(V) \in Nat /\ Cardinality(V) >= Cardinality(W) - 1 BY <3>1, <3>2, <4>2
   <4> QED BY <4>3 DEF W, V
  <3>4. CASE timerRef[r] \notin W
   <4>1. V = W BY <2>4, <3>4 DEF W, V
   <4>2. Cardinality(V) \in Nat /\ Cardinality(V) >= Cardinality(W) - 1 BY <3>1, <4>1
   <4> QED BY <4>2 DEF W, V
  <3> QED BY <3>3, <3>4
 <2>7. Deadlines /\ r \notin Advisor /\ ~Doomed(r)' =>
         Cardinality(Watched(r)') <= Cardinality(Watchdogs(r)')
   BY <2>1, <2>5, <2>6, WatchFinite DEF WatchdogsSuffice
 <2>8. ASSUME NEW j \in Start, j > task'[r] PROVE pc'[r][j] = None
   BY <1>0, <2>1, <2>2, <2>8 DEF WatchdogsSuffice, None
 <2>9. ASSUME NEW j \in Start, pc'[r][j] \in {None, "created"} PROVE j \notin Watchdogs(r)'
   BY <2>1, <2>2, <2>4, <2>9 DEF WatchdogsSuffice, None
 <2> QED BY <2>7, <2>8, <2>9 DEF WatchdogsSuffice
<1> QED BY <1>1, <1>2, <1>3 DEF WatchInv

\* A task that was cancelled before its first step is gone without a watchdog.
LEMMA WatchStillborn ==
  ASSUME TypeOK, WatchInv, \A x \in Run : Doomed(x) => Doomed(x)', NEW r \in Run,
         NEW i \in Start, TaskStillborn(r, i)
  PROVE  WatchInv'
<1>0. /\ pc[r][i] = "created" /\ task' = task /\ cascades' = cascades
      /\ pc' = [pc EXCEPT ![r][i] = "ended"] /\ timers' = timers
  BY DEF TaskStillborn, Goto
<1>1. TimersReach' BY <1>0, ReachSame DEF WatchInv
<1>2. ASSUME NEW x \in Run PROVE WatchdogsSuffice(x)'
 <2>1. WatchdogsSuffice(x) BY DEF WatchInv
 <2>2. \A j \in Start : pc'[x][j] = IF x = r /\ j = i THEN "ended" ELSE pc[x][j]
   BY <1>0 DEF TypeOK
 <2>3. Watched(x)' = Watched(x) /\ Watchdogs(x)' = Watchdogs(x)
   BY <1>0, <2>2 DEF Watched, Watchdogs
 <2>4. ASSUME NEW j \in Start, j > task'[x] PROVE pc'[x][j] = None
   BY <1>0, <2>1, <2>2, <2>4 DEF WatchdogsSuffice, None
 <2>5. ASSUME NEW j \in Start, pc'[x][j] \in {None, "created"} PROVE j \notin Watchdogs(x)'
   BY <2>1, <2>2, <2>3, <2>5 DEF WatchdogsSuffice, None
 <2> QED BY <2>1, <2>3, <2>4, <2>5 DEF WatchdogsSuffice
<1> QED BY <1>1, <1>2 DEF WatchInv

\* A task moves on within its body and no cascade of a watchdog is touched.
LEMMA WatchBody ==
  ASSUME TypeOK, WatchInv, \A x \in Run : Doomed(x) => Doomed(x)', NEW r \in Run,
         NEW i \in Start, NEW q \in Body, pc[r][i] \in Body, Goto(r, i, q),
         task' = task, timers' = timers,
         \A k \in cascades : k.kind = "timer" => k \in cascades',
         \A k \in cascades' : k.kind = "timer" => k \in cascades
  PROVE  WatchInv'
<1>1. \A x \in Run, j \in Start :
        pc'[x][j] = pc[x][j] \/ (pc[x][j] \in Body /\ pc'[x][j] \in Body)
  BY DEF Goto, TypeOK
<1> QED BY <1>1, WatchQuiet

\* The head of the loop leads to one of three places.
LEMMA LoopTopGoes ==
  ASSUME NEW r, NEW i, NEW m, LoopTop(r, i, m)
  PROVE  \E q \in {"settling", "queueing", "idling"} : Goto(r, i, q)
BY DEF LoopTop

\* What a run's task does.
LEMMA WatchTask ==
  ASSUME TypeOK, Inductive, WatchInv, \A x \in Run : Doomed(x) => Doomed(x)', NEW r \in Run,
         NEW i \in Start
  PROVE  /\ TaskStep(r, i) => WatchInv'
         /\ BuildFails(r, i) \/ Acquire(r, i) \/ IdleTimeout(r, i) => WatchInv'
         /\ TimerFires(r, i) => WatchInv'
<1>0. {"building", "queueing", "entering", "turn", "descend", "idling", "waiting", "parking",
       "settling"} \subseteq Body
  BY DEF Body, Place, None
<1>1. ASSUME Built(r, i) \/ TurnReturns(r, i) \/ Receive(r, i) PROVE WatchInv'
 <2>1. \E q \in {"settling", "queueing", "idling"} : Goto(r, i, q)
   BY <1>1, LoopTopGoes DEF Built, TurnReturns, Receive
 <2>2. /\ pc[r][i] \in {"building", "turn", "idling", "waiting"}
       /\ task' = task /\ timers' = timers /\ cascades' = cascades
   BY <1>1 DEF Built, TurnReturns, Receive
 <2> QED BY <1>0, <2>1, <2>2, WatchBody
<1>2. ASSUME \/ BuildFails(r, i) \/ Acquire(r, i) \/ IdleTimeout(r, i) \/ EnterTurn(r, i)
             \/ BudgetSettles(r, i) \/ TurnRaises(r, i) \/ TurnEscapes(r, i) \/ Await(r, i)
      PROVE  WatchInv'
 <2>1. \E q \in {"settling", "entering", "parking", "turn", "waiting"} : Goto(r, i, q)
   BY <1>2 DEF BuildFails, Acquire, IdleTimeout, EnterTurn, BudgetSettles, TurnRaises,
      TurnEscapes, Await
 <2>2. /\ pc[r][i] \in {"building", "queueing", "waiting", "entering", "descend", "turn",
                        "idling"}
       /\ task' = task /\ timers' = timers /\ cascades' = cascades
   BY <1>2 DEF BuildFails, Acquire, IdleTimeout, EnterTurn, BudgetSettles, TurnRaises, TurnEscapes,
      Await
 <2> QED BY <1>0, <2>1, <2>2, WatchBody
<1>3. ASSUME TaskCancelled(r, i) PROVE WatchInv'
 <2>1. /\ Goto(r, i, "settling") /\ task' = task /\ timers' = timers
       /\ pc[r][i] \in {"building", "queueing", "entering", "descend", "idling", "waiting",
                        "parking"}
       /\ \/ cascades' = cascades
          \/ cascades' = {k \in cascades : ~(k.kind = "budget" /\ k.root = r)}
   BY <1>3 DEF TaskCancelled
 <2>2. /\ \A k \in cascades : k.kind = "timer" => k \in cascades'
       /\ \A k \in cascades' : k \in cascades
   BY <2>1
 <2> QED BY <1>0, <2>1, <2>2, WatchBody
<1>4. ASSUME BudgetExceeded(r, i) PROVE WatchInv'
 <2> DEFINE K == [root |-> r, kind |-> "budget", by |-> Nobody, why |-> "budget",
                  left |-> Descendants(r)]
 <2>1. K \in Cascade /\ Abort(K, cascades) /\ K.kind = "budget"
   BY <1>4 DEF BudgetExceeded, Cascade, Descendants, Reason
 <2> HIDE DEF K
 <2>2. pc[r][i] = "turn" /\ Goto(r, i, "descend") /\ task' = task /\ timers' = timers
   BY <1>4 DEF BudgetExceeded
 <2>3. \A x \in Run, j \in Start :
         pc'[x][j] = pc[x][j] \/ (pc[x][j] \in Body /\ pc'[x][j] \in Body)
   BY <1>0, <2>2 DEF Goto, TypeOK
 <2> QED BY <2>1, <2>2, <2>3, AbortKeepsWatch
<1>5. ASSUME TimerFires(r, i) PROVE WatchInv'
 <2> DEFINE K == Tree(r, "timer", i, "timeout")
 <2>1. K \in Cascade BY TreeType DEF Reason
 <2>2. /\ K.kind = "timer" /\ K.root = r /\ K.by = i /\ r \in K.left
       /\ Abort(K, cascades)
   BY <1>5 DEF TimerFires, Tree
 <2>3. /\ i \in timers[r] /\ task' = task /\ pc' = pc
       /\ timers' = [timers EXCEPT ![r] = @ \ {i}]
   BY <1>5 DEF TimerFires
 <2> HIDE DEF K
 <2>4. K.by \in Watchdogs(K.root) BY <2>2, <2>3 DEF Watchdogs
 <2>5. \A x \in Run : timers'[x] = timers[x] \/ (x = K.root /\ timers'[x] = timers[x] \ {K.by})
   BY <2>2, <2>3 DEF TypeOK
 <2> QED BY <2>1, <2>2, <2>3, <2>4, <2>5, AbortKeepsWatch
<1> QED BY <1>1, <1>2, <1>3, <1>4, <1>5, WatchStarts, WatchStillborn, WatchEnds DEF TaskStep

\* A run's turn, and the end of the calls that start its tasks.
LEMMA WatchTurn ==
  ASSUME TypeOK, Inductive, WatchInv, \A x \in Run : Doomed(x) => Doomed(x)', NEW r \in Run
  PROVE  /\ TurnStep(r) \/ Request(r) => WatchInv'
         /\ \A final \in {"done", "failed"} : Yield(r, final) => WatchInv'
         /\ SpawnReturns(r) \/ ReviveReturns(r) => WatchInv'
<1>1. ASSUME TurnStep(r) \/ Request(r) \/ \E final \in {"done", "failed"} : Yield(r, final)
      PROVE  WatchInv'
 <2>1. task' = task /\ pc' = pc /\ timers' = timers
   BY <1>1 DEF TurnStep, TurnOpens, TurnStops, TurnInterrupted, Request, Yield
 <2>2. /\ \A k \in cascades : k.kind = "timer" => k \in cascades'
       /\ \A k \in cascades' : k \in cascades
   BY <1>1 DEF TurnStep, TurnOpens, TurnStops, TurnInterrupted, Request, Yield, DropCalls
 <2> QED BY <2>1, <2>2, WatchQuiet
<1>2. ASSUME SpawnReturns(r) PROVE WatchInv'
 <2>1. task[r] = 0 BY <1>2 DEF SpawnReturns, Inductive, Sound, StartPending
 <2>2. task[r] + 1 = 1 /\ 1 \in Start BY <2>1, LimitsAssumption DEF Start
 <2>3. /\ task' = [task EXCEPT ![r] = @ + 1] /\ pc' = [pc EXCEPT ![r][task[r] + 1] = "created"]
       /\ timers' = timers /\ cascades' = cascades
   BY <1>2, <2>1, <2>2 DEF SpawnReturns, Goto, TypeOK
 <2> QED BY <2>2, <2>3, WatchFresh
<1>3. ASSUME ReviveReturns(r) PROVE WatchInv'
 <2>1. timers' = timers /\ cascades' = cascades BY <1>3 DEF ReviveReturns
 <2>2. CASE attached[r]
  <3>1. task[r] + 1 \in Start
    BY <1>3, LimitsAssumption DEF ReviveReturns, Inductive, Sound, StartPending, Start
  <3>2. task' = [task EXCEPT ![r] = @ + 1] /\ pc' = [pc EXCEPT ![r][task[r] + 1] = "created"]
    BY <1>3, <2>2 DEF ReviveReturns, Goto
  <3> QED BY <2>1, <3>1, <3>2, WatchFresh
 <2>3. CASE ~attached[r]
  <3>1. task' = task /\ pc' = pc BY <1>3, <2>3 DEF ReviveReturns
  <3> QED BY <2>1, <3>1, WatchQuiet
 <2> QED BY <2>2, <2>3
<1> QED BY <1>1, <1>2, <1>3

\* No step leaves a run with fewer watchdogs than it needs.
LEMMA WatchInvStep == TypeOK /\ Inductive /\ WatchInv /\ [Next]_vars => WatchInv'
<1> SUFFICES ASSUME TypeOK, Inductive, WatchInv, [Next]_vars PROVE WatchInv' OBVIOUS
<1>1. \A x \in Run : Doomed(x) => Doomed(x)' BY DoomedStays
<1>2. CASE UNCHANGED vars
 <2>1. task' = task /\ pc' = pc /\ timers' = timers /\ cascades' = cascades BY <1>2 DEF vars
 <2> QED BY <1>1, <2>1, WatchQuiet
<1>3. CASE Next
 <2>1. ASSUME NEW c \in Caller, Calls(c) PROVE WatchInv'
  <3>1. CASE Run = {} BY <2>1, <3>1 DEF Calls
  <3>2. CASE Run # {} BY <1>1, <2>1, <3>2, WatchCalls
  <3> QED BY <3>1, <3>2
 <2>2. ASSUME NEW r \in Run,
              \/ SpawnReturns(r) \/ ReviveReturns(r)
              \/ TurnStep(r) \/ Request(r) \/ \E final \in {"done", "failed"} : Yield(r, final)
       PROVE  WatchInv'
   BY <1>1, <2>2, WatchTurn
 <2>3. ASSUME NEW r \in Run, WaitEnds(r) \/ Detach(r) \/ ShutdownNext(r) PROVE WatchInv'
   BY <1>1, <2>3, WatchCalls DEF Caller
 <2>4. ASSUME MainInterrupted \/ ShutdownBegins PROVE WatchInv'
  <3>1. CASE Run = {} BY <3>1, TypeStep DEF WatchInv, TimersReach, TypeOK, Cascade
  <3>2. CASE Run # {} BY <1>1, <2>4, <3>2, WatchCalls DEF Caller
  <3> QED BY <3>1, <3>2
 <2>5. ASSUME NEW k \in cascades, ResumeAbort(k) \/ DetachStarts(k) PROVE WatchInv'
  <3>1. k.root \in Run BY DEF TypeOK, Cascade
  <3> QED BY <1>1, <2>5, <3>1, WatchCalls DEF Caller
 <2>6. ASSUME NEW r \in Run, NEW i \in Start,
              \/ TaskStep(r, i) \/ BuildFails(r, i) \/ Acquire(r, i)
              \/ IdleTimeout(r, i) \/ TimerFires(r, i)
       PROVE  WatchInv'
   BY <1>1, <2>6, WatchTask
 <2> QED BY <1>3, <2>1, <2>2, <2>3, <2>4, <2>5, <2>6 DEF Next
<1> QED BY <1>2, <1>3

\* Nothing has begun.
LEMMA WatchInvInit == Init => WatchInv
<1> SUFFICES ASSUME Init PROVE WatchInv OBVIOUS
<1>1. TimersReach BY DEF Init, TimersReach
<1>2. ASSUME NEW x \in Run PROVE WatchdogsSuffice(x)
 <2>1. Watched(x) = {} /\ Watchdogs(x) = {} BY DEF Init, Watched, Watchdogs
 <2>2. \A i \in Start : pc[x][i] = None BY DEF Init
 <2>3. Cardinality(Watched(x)) <= Cardinality(Watchdogs(x)) BY <2>1, FS_EmptySet
 <2> QED BY <2>1, <2>2, <2>3 DEF WatchdogsSuffice
<1> QED BY <1>1, <1>2 DEF WatchInv

\* DeadlineArmed: however parking and reviving interleave with the end of an older task, which
\* cancels whichever watchdog _runtime_timer names by then (agents.py 502-530), a run in its
\* loop has one left, or is being aborted.
THEOREM DeadlineStaysArmed == Spec => []DeadlineArmed
<1>1. ASSUME TypeOK, Inductive, WatchInv PROVE DeadlineArmed
 <2> SUFFICES ASSUME NEW r \in Run, NEW i \in Start, Deadlines, r \notin Advisor,
                     pc[r][i] \in InLoop \ {"created"}, abortReq[r] = None,
                     timers[r] = {}
              PROVE  \E k \in cascades : k.kind = "timer" /\ k.root = r
   BY DEF DeadlineArmed
 <2>1. i \in Watched(r) BY DEF Watched, InLoop, Place
 <2>2. ~Doomed(r) BY <1>1, LoopFacts DEF Doomed
 <2>3. Cardinality(Watched(r)) <= Cardinality(Watchdogs(r))
   BY <1>1, <2>2 DEF WatchInv, WatchdogsSuffice
 <2>4. Watchdogs(r) # {}
  <3>1. Cardinality(Watched(r)) # 0 BY <2>1, WatchFinite, FS_EmptySet
  <3>2. Cardinality(Watchdogs(r)) # 0 BY <2>3, <3>1, WatchFinite
  <3> QED BY <3>2, FS_EmptySet
 <2> QED BY <2>4 DEF Watchdogs
<1>2. TypeOK /\ Inductive /\ WatchInv /\ [Next]_vars => WatchInv' BY WatchInvStep
<1> QED BY <1>1, <1>2, WatchInvInit, Invariance, PTL DEF Spec

------------------------------------------------------------------------------
(* The texts.                                                              *)

Items(q) == {q[n] : n \in DOMAIN q}
Waits == {"queueing", "entering"}

\* y waits in the inbox of x, is the message of its loop, or has had its turn.
Carries(x, y) == y \in Items(inbox[x]) \/ y \in handled[x] \/ message[x] = y

TextOK(x) ==
  /\ TextsKept(x)
  /\ \A m \in Msg : sent[m] = x => Ending(x) \/ Carries(x, m) \/ Carries(x, "warning")

\* A bounded queue takes the new item in and keeps the others, or warns.
LEMMA PutKeeps ==
  ASSUME NEW q \in Seq(Item), NEW item \in Item
  PROVE  /\ item \in Items(PutBounded(q, item, TRUE))
         /\ \/ \A y \in Items(q) : y \in Items(PutBounded(q, item, TRUE))
            \/ "warning" \in Items(PutBounded(q, item, TRUE))
<1>1. CASE Len(q) < QueueLimit
 <2>1. PutBounded(q, item, TRUE) = Append(q, item) BY <1>1 DEF PutBounded
 <2>2. /\ Append(q, item)[Len(q) + 1] = item /\ Len(q) + 1 \in DOMAIN Append(q, item)
       /\ \A n \in DOMAIN q : n \in DOMAIN Append(q, item) /\ Append(q, item)[n] = q[n]
   OBVIOUS
 <2> QED BY <2>1, <2>2 DEF Items
<1>2. CASE ~(Len(q) < QueueLimit)
 <2>1. Len(q) \in Nat /\ Len(q) >= 2 /\ q # <<>> BY <1>2, LimitsAssumption
 <2> DEFINE t == Tail(q)
            u == Append(t, "warning")
            v == Tail(u)
            w == Append(v, item)
 <2>2. PutBounded(q, item, TRUE) = w BY <1>2 DEF PutBounded
 <2>3. t \in Seq(Item) /\ Len(t) = Len(q) - 1 BY <2>1
 <2> HIDE DEF t
 <2>4. u \in Seq(Item) /\ Len(u) = Len(q) /\ u[Len(q)] = "warning" BY <2>1, <2>3 DEF Item
 <2> HIDE DEF u
 <2>5. v \in Seq(Item) /\ Len(v) = Len(q) - 1 /\ v[Len(q) - 1] = "warning" BY <2>1, <2>4
 <2> HIDE DEF v
 <2>6. /\ w[Len(q)] = item /\ w[Len(q) - 1] = "warning"
       /\ Len(q) \in DOMAIN w /\ Len(q) - 1 \in DOMAIN w
   BY <2>1, <2>5
 <2> HIDE DEF w
 <2> QED BY <2>2, <2>6 DEF Items
<1> QED BY <1>1, <1>2

\* A run that is ending keeps ending.
LEMMA EndingStays ==
  ASSUME TypeOK, Inductive, [Next]_vars, NEW x \in Run
  PROVE  Ending(x) => Ending(x)'
<1>1. CASE Doomed(x) BY <1>1, DoomedStays DEF Ending
<1>2. CASE completion' = completion BY <1>1, <1>2 DEF Ending
<1>3. ASSUME NEW r \in Run, NEW final \in {"done", "failed"}, Yield(r, final)
      PROVE  Ending(x) => Ending(x)'
  BY <1>1, <1>3 DEF Yield, Ending, TypeOK, None
<1>4. ASSUME UNCHANGED workVars PROVE completion' = completion BY <1>4
<1>5. ASSUME \/ UNCHANGED vars \/ MainInterrupted \/ ShutdownBegins
             \/ \E k \in cascades : ResumeAbort(k) \/ DetachStarts(k)
      PROVE  completion' = completion
  BY <1>4, <1>5 DEF vars, MainInterrupted, ShutdownBegins, ResumeAbort, DetachStarts
<1>8. ASSUME NEW c \in Caller, Calls(c) PROVE completion' = completion
 <2>1. PICK r \in Run :
         \/ Spawn(c, r) \/ Cancel(c, r)
         \/ \E m \in Msg, interrupt \in BOOLEAN : Send(c, r, m, interrupt)
         \/ \E m \in Msg \cup {None} : Revive(c, r, m)
   BY <1>8 DEF Calls
 <2> QED BY <1>4, <2>1 DEF Spawn, Cancel, Send, Revive
<1>6. ASSUME NEW r \in Run,
             \/ SpawnReturns(r) \/ ReviveReturns(r) \/ WaitEnds(r) \/ Detach(r)
             \/ ShutdownNext(r) \/ TurnStep(r) \/ Request(r)
      PROVE  completion' = completion
  BY <1>4, <1>6 DEF SpawnReturns, ReviveReturns, WaitEnds, Detach, ShutdownNext, TurnStep,
     TurnOpens, TurnStops, TurnInterrupted, Request
<1>7. ASSUME NEW r \in Run, NEW i \in Start,
             \/ TaskStep(r, i) \/ BuildFails(r, i) \/ Acquire(r, i)
             \/ IdleTimeout(r, i) \/ TimerFires(r, i)
      PROVE  completion' = completion
  BY <1>4, <1>7 DEF TaskStep, TaskStarts, TaskStillborn, Built, EnterTurn, TurnReturns,
     BudgetExceeded, BudgetSettles, TurnRaises, TurnEscapes, Receive, Await, TaskCancelled,
     TaskEnds, BuildFails, Acquire, IdleTimeout, TimerFires
<1> QED BY <1>2, <1>3, <1>5, <1>6, <1>7, <1>8 DEF Next

\* A step that moves no text of x, and does not take it from the wait for its turn.
LEMMA TextQuiet ==
  ASSUME NEW x \in Run, TextOK(x), Ending(x) => Ending(x)',
         \/ Ending(x)'
         \/ /\ message'[x] = message[x] /\ inbox'[x] = inbox[x] /\ handled[x] \subseteq handled'[x]
            /\ \/ message[x] \in handled'[x]
               \/ task'[x] = task[x] /\ (pc[x][task[x]] \in Waits => pc'[x][task[x]] \in Waits),
         \A m \in Msg : sent'[m] = x => sent[m] = x
  PROVE  TextOK(x)'
<1>1. CASE Ending(x)' BY <1>1 DEF TextOK, TextsKept
<1>2. CASE ~Ending(x)'
 <2>1. TextsKept(x)' BY <1>2 DEF TextOK, TextsKept, Waits
 <2>2. ASSUME NEW y, Carries(x, y) PROVE Carries(x, y)' BY <1>2, <2>2 DEF Carries
 <2> QED BY <1>2, <2>1, <2>2 DEF TextOK
<1> QED BY <1>1, <1>2

\* A step that puts a new message into the loop of x, where the former one had its turn, and
\* may take that message from the inbox.
LEMMA TextNext ==
  ASSUME NEW x \in Run, TextOK(x), Ending(x) => Ending(x)',
         task[x] = 0 \/ pc[x][task[x]] \notin Waits,
         handled' = handled, \A m \in Msg : sent'[m] = x => sent[m] = x,
         \A y \in Items(inbox[x]) \cap (Msg \cup {"warning"}) :
            y \in Items(inbox'[x]) \/ message'[x] = y,
         \/ message'[x] \notin Msg \cup {"warning"}
         \/ task'[x] # 0 /\ pc'[x][task'[x]] \in Waits
         \/ Ending(x)'
  PROVE  TextOK(x)'
<1>1. CASE Ending(x)' BY <1>1 DEF TextOK, TextsKept
<1>2. CASE ~Ending(x)'
 <2>1. TextsKept(x)' BY <1>2 DEF TextsKept, Waits
 <2>2. message[x] \in Msg \cup {"warning"} => message[x] \in handled[x]
   BY <1>2 DEF TextOK, TextsKept, Waits
 <2>3. ASSUME NEW y \in Msg \cup {"warning"}, Carries(x, y) PROVE Carries(x, y)'
   BY <2>2, <2>3 DEF Carries
 <2>4. ASSUME NEW m \in Msg, sent'[m] = x PROVE Carries(x, m)' \/ Carries(x, "warning")'
   BY <1>2, <2>3, <2>4 DEF TextOK
 <2> QED BY <2>1, <2>4 DEF TextOK
<1> QED BY <1>1, <1>2

\* A text arrives in the inbox of x.
LEMMA TextArrives ==
  ASSUME TypeOK, NEW x \in Run, TextOK(x), Ending(x) => Ending(x)', NEW m \in Msg,
         inbox'[x] = PutBounded(inbox[x], m, TRUE), handled' = handled,
         message'[x] = message[x],
         task'[x] = task[x] /\ pc'[x] = pc[x],
         \A n \in Msg : sent'[n] = x => sent[n] = x \/ n = m
  PROVE  TextOK(x)'
<1>1. /\ m \in Items(inbox'[x])
      /\ \/ \A y \in Items(inbox[x]) : y \in Items(inbox'[x])
         \/ "warning" \in Items(inbox'[x])
  BY PutKeeps DEF TypeOK, Item
<1>2. TextsKept(x)' BY DEF TextOK, TextsKept
<1>3. ASSUME NEW n \in Msg, sent'[n] = x
      PROVE  Ending(x)' \/ Carries(x, n)' \/ Carries(x, "warning")'
  BY <1>1, <1>3 DEF TextOK, Carries
<1> QED BY <1>2, <1>3 DEF TextOK

\* The calls of the registry, and what they do to the texts of x.
LEMMA TextCalls ==
  ASSUME TypeOK, Inductive, [Next]_vars, NEW x \in Run, TextOK(x), NEW c \in Caller,
         NEW r \in Run
  PROVE  /\ Calls(c) => TextOK(x)'
         /\ SpawnReturns(r) \/ ReviveReturns(r) \/ WaitEnds(r) => TextOK(x)'
         /\ Detach(r) \/ ShutdownNext(r) => TextOK(x)'
         /\ MainInterrupted \/ ShutdownBegins => TextOK(x)'
         /\ \A k \in cascades : ResumeAbort(k) \/ DetachStarts(k) => TextOK(x)'
<1>0. (Ending(x) => Ending(x)') /\ cascades \in SUBSET Cascade BY EndingStays DEF TypeOK
<1>a. ASSUME message' = message, inbox' = inbox, handled' = handled, sent' = sent,
             task' = task, pc' = pc
      PROVE  TextOK(x)'
  BY <1>0, <1>a, TextQuiet
<1>b. ASSUME NEW k \in Cascade, NEW ks, Abort(k, ks), UNCHANGED loopVars, UNCHANGED workVars
      PROVE  TextOK(x)'
 <2>1. inbox'[x] = inbox[x] \/ Ending(x)'
  <3>1. PICK B \in Batches(k.left) : AbortBatch(B, k.why) BY <1>b DEF Abort
  <3>2. inbox'[x] = inbox[x] \/ (x \in B /\ ~Terminal(x)) BY <3>1 DEF AbortBatch
  <3>3. x \in B /\ ~Terminal(x) => abortReq'[x] = Why(x, k.why) BY <3>1 DEF AbortBatch
  <3>4. Why(x, k.why) # None BY DEF Cascade, Why, Reason, None
  <3> QED BY <3>2, <3>3, <3>4 DEF Ending, Doomed
 <2> QED BY <1>0, <1>b, <2>1, TextQuiet
<1>1. ASSUME NEW q \in Run, Spawn(c, q) PROVE TextOK(x)'
 <2>0. /\ status[q] = None /\ inbox' = inbox /\ handled' = handled /\ sent' = sent
       /\ task' = task /\ pc' = pc /\ message' = [message EXCEPT ![q] = "prompt"]
   BY <1>1 DEF Spawn
 <2>1. CASE x # q BY <1>0, <2>0, <2>1, TextQuiet DEF TypeOK
 <2>2. CASE x = q
  <3>1. task[x] = 0 /\ message'[x] = "prompt"
    BY <2>0, <2>2 DEF Inductive, Sound, StartPending, TypeOK
  <3>2. message'[x] \notin Msg \cup {"warning"} BY <3>1, TextsAssumption
  <3> QED BY <1>0, <2>0, <3>1, <3>2, TextNext
 <2> QED BY <2>1, <2>2
<1>2. ASSUME NEW q \in Run, Cancel(c, q) PROVE TextOK(x)'
 <2>1. Tree(q, "call", c, "cancel") \in Cascade BY TreeType DEF Reason
 <2> QED BY <1>2, <1>b, <2>1 DEF Cancel
<1>3. ASSUME NEW q \in Run, NEW m \in Msg, NEW interrupt \in BOOLEAN, Send(c, q, m, interrupt)
      PROVE  TextOK(x)'
 <2>0. /\ sent' = [sent EXCEPT ![m] = q] /\ inbox' = [inbox EXCEPT ![q] = PutBounded(@, m, TRUE)]
       /\ message' = message /\ handled' = handled /\ task' = task /\ pc' = pc
   BY <1>3 DEF Send
 <2>1. CASE x # q BY <1>0, <2>0, <2>1, TextQuiet DEF TypeOK
 <2>2. CASE x = q
  <3>1. \A n \in Msg : sent'[n] = x => sent[n] = x \/ n = m BY <2>0 DEF TypeOK
  <3>2. inbox'[x] = PutBounded(inbox[x], m, TRUE) BY <2>0, <2>2 DEF TypeOK
  <3> QED BY <1>0, <2>0, <3>1, <3>2, TextArrives
 <2> QED BY <2>1, <2>2
<1>4. ASSUME NEW q \in Run, NEW m \in Msg \cup {None}, Revive(c, q, m) PROVE TextOK(x)'
  BY <1>4, <1>a DEF Revive
<1>5. ASSUME SpawnReturns(r) PROVE TextOK(x)'
 <2>0. /\ message' = message /\ inbox' = inbox /\ handled' = handled /\ sent' = sent
       /\ task' = [task EXCEPT ![r] = 1] /\ pc' = [pc EXCEPT ![r][1] = "created"]
   BY <1>5 DEF SpawnReturns, Goto
 <2>1. CASE x # r BY <1>0, <2>0, <2>1, TextQuiet DEF TypeOK
 <2>2. CASE x = r
  <3>1. task[x] = 0 BY <1>5, <2>2 DEF SpawnReturns, Inductive, Sound, StartPending
  <3>2. message[x] \in Msg \cup {"warning"} => message[x] \in handled[x] \/ Ending(x)
    BY <3>1 DEF TextOK, TextsKept
  <3>3. TextsKept(x)' BY <1>0, <2>0, <3>2 DEF TextsKept
  <3>4. \A y : Carries(x, y) => Carries(x, y)' BY <2>0 DEF Carries
  <3> QED BY <1>0, <2>0, <3>3, <3>4 DEF TextOK
 <2> QED BY <2>1, <2>2
<1>6. ASSUME ReviveReturns(r) PROVE TextOK(x)'
 <2>0. PICK m \in Msg \cup {None} :
       /\ handled' = handled
       /\ sent' = [n \in Msg |-> IF n = m THEN r ELSE sent[n]]
       /\ inbox' = [inbox EXCEPT ![r] = IF m = None THEN @ ELSE PutBounded(@, m, TRUE)]
   BY <1>6 DEF ReviveReturns, TypeOK
 <2>1. IF attached[r]
       THEN /\ task' = [task EXCEPT ![r] = @ + 1]
            /\ pc' = [pc EXCEPT ![r][task[r] + 1] = "created"]
            /\ message' = [message EXCEPT ![r] = None]
       ELSE task' = task /\ pc' = pc /\ message' = message
   BY <1>6 DEF ReviveReturns, Goto
 <2>2. reviver[r].by # Nobody BY <1>6 DEF ReviveReturns
 <2>3. CASE x # r
  <3>1. /\ message'[x] = message[x] /\ inbox'[x] = inbox[x] /\ task'[x] = task[x]
        /\ pc'[x] = pc[x] /\ \A n \in Msg : sent'[n] = x => sent[n] = x
    BY <2>0, <2>1, <2>3 DEF TypeOK
  <3> QED BY <1>0, <2>0, <3>1, TextQuiet
 <2>4. CASE x = r
  <3>1. \A j \in Start : pc[x][j] \notin InLoop
    BY <2>2, <2>4 DEF Inductive, Sound, TaskOwned
  <3>2. task[x] \in Start /\ pc[x][task[x]] \notin Waits
   <4>1. task[x] \in Start
     BY <2>2, <2>4, LimitsAssumption DEF Inductive, Sound, StartPending, Start
   <4> QED BY <3>1, <4>1 DEF InLoop, Place, Waits, None
  <3>3. message[x] \in Msg \cup {"warning"} => message[x] \in handled[x] \/ Ending(x)
    BY <3>2 DEF TextOK, TextsKept, Waits
  <3>4. message'[x] = message[x] \/ message'[x] \notin Msg \cup {"warning"}
    BY <2>1, <2>4, TextsAssumption DEF TypeOK, None
  <3>5. TextsKept(x)' BY <1>0, <2>0, <3>3, <3>4 DEF TextsKept
  <3>6. \/ Ending(x)
        \/ Carries(x, "warning")'
        \/ \A y \in Msg \cup {"warning"} : Carries(x, y) => Carries(x, y)'
   <4>1. CASE m = None
    <5>1. inbox'[x] = inbox[x] BY <2>0, <2>4, <4>1 DEF TypeOK
    <5> QED BY <2>0, <3>3, <5>1 DEF Carries
   <4>2. CASE m # None
    <5>1. inbox'[x] = PutBounded(inbox[x], m, TRUE) BY <2>0, <2>4, <4>2 DEF TypeOK
    <5>2. inbox[x] \in Seq(Item) BY DEF TypeOK
    <5>4. m \in Item BY <2>0, <4>2 DEF Item
    <5>3. \/ \A y \in Items(inbox[x]) : y \in Items(inbox'[x])
          \/ "warning" \in Items(inbox'[x])
      BY <5>1, <5>2, <5>4, PutKeeps
    <5> QED BY <2>0, <3>3, <5>3 DEF Carries
   <4> QED BY <4>1, <4>2
  <3>7. m # None => Carries(x, m)'
   <4>1. ASSUME m # None PROVE m \in Items(inbox'[x])
    <5>1. inbox'[x] = PutBounded(inbox[x], m, TRUE) BY <2>0, <2>4, <4>1 DEF TypeOK
    <5>2. inbox[x] \in Seq(Item) BY DEF TypeOK
    <5>4. m \in Item BY <2>0, <4>1 DEF Item
    <5> QED BY <5>1, <5>2, <5>4, PutKeeps
   <4> QED BY <4>1 DEF Carries
  <3>8. ASSUME NEW n \in Msg, sent'[n] = x
        PROVE  Ending(x)' \/ Carries(x, n)' \/ Carries(x, "warning")'
   <4>1. CASE n = m
    <5>1. m # None BY <4>1, TextsAssumption DEF None
    <5> QED BY <3>7, <4>1, <5>1
   <4>2. CASE n # m
    <5>1. sent[n] = x BY <2>0, <3>8, <4>2
    <5> QED BY <1>0, <3>6, <5>1 DEF TextOK
   <4> QED BY <4>1, <4>2
  <3> QED BY <3>5, <3>8 DEF TextOK
 <2> QED BY <2>3, <2>4
<1>7. ASSUME WaitEnds(r) \/ Detach(r) \/ MainInterrupted \/ ShutdownBegins PROVE TextOK(x)'
  BY <1>7, <1>a DEF WaitEnds, Detach, MainInterrupted, ShutdownBegins
<1>8. ASSUME ShutdownNext(r) PROVE TextOK(x)'
 <2>1. CASE Terminal(r) BY <1>8, <1>a, <2>1 DEF ShutdownNext
 <2>2. CASE ~Terminal(r)
  <3>1. Tree(r, "shutdown", Nobody, "shutdown") \in Cascade BY TreeType DEF Reason
  <3> QED BY <1>8, <1>b, <2>2, <3>1 DEF ShutdownNext
 <2> QED BY <2>1, <2>2
<1>9. ASSUME NEW k \in cascades, ResumeAbort(k) PROVE TextOK(x)'
  BY <1>0, <1>9, <1>b DEF ResumeAbort
<1>10. ASSUME NEW k \in cascades, DetachStarts(k) PROVE TextOK(x)'
 <2>1. k.root \in Run BY <1>0 DEF Cascade
 <2>2. Tree(k.root, "detach", Nobody, "cancel") \in Cascade BY <2>1, TreeType DEF Reason
 <2> QED BY <1>10, <1>b, <2>2 DEF DetachStarts
<1> QED BY <1>1, <1>2, <1>3, <1>4, <1>5, <1>6, <1>7, <1>8, <1>9, <1>10 DEF Calls

\* One stretch of an abort leaves the inbox of x alone, or x is ending.
LEMMA AbortText ==
  ASSUME NEW x \in Run, NEW k \in Cascade, NEW ks, Abort(k, ks)
  PROVE  inbox'[x] = inbox[x] \/ Ending(x)'
<1>1. PICK B \in Batches(k.left) : AbortBatch(B, k.why) BY DEF Abort
<1>2. inbox'[x] = inbox[x] \/ (x \in B /\ ~Terminal(x)) BY <1>1 DEF AbortBatch
<1>3. x \in B /\ ~Terminal(x) => abortReq'[x] = Why(x, k.why) BY <1>1 DEF AbortBatch
<1>4. Why(x, k.why) # None BY DEF Cascade, Why, Reason, None
<1> QED BY <1>2, <1>3, <1>4 DEF Ending, Doomed

\* The head of the loop, where x takes a new message.
LEMMA TextLoopTop ==
  ASSUME TypeOK, NEW x \in Run, TextOK(x), Ending(x) => Ending(x)', NEW m,
         task[x] \in Start, pc[x][task[x]] \notin Waits, LoopTop(x, task[x], m),
         handled' = handled, sent' = sent, task' = task, abortReq' = abortReq,
         completion' = completion,
         \A y \in Items(inbox[x]) \cap (Msg \cup {"warning"}) :
            y \in Items(inbox'[x]) \/ m = y
  PROVE  TextOK(x)'
<1>1. message'[x] = m BY DEF LoopTop, TypeOK
<1>2. CASE abortReq[x] # None \/ completion[x] # None
  BY <1>2 DEF TextOK, TextsKept, Ending, Doomed
<1>3. CASE abortReq[x] = None /\ completion[x] = None
 <2>1. m # None => pc'[x][task[x]] = "queueing" BY <1>3 DEF LoopTop, Goto, TypeOK
 <2>2. m = None => m \notin Msg \cup {"warning"} BY TextsAssumption DEF None
 <2> QED BY <1>1, <2>1, <2>2, TextNext, LimitsAssumption DEF Waits, Start
<1> QED BY <1>2, <1>3

\* The steps of a task, and what they do to the texts of x.
LEMMA TextTask ==
  ASSUME TypeOK, Inductive, [Next]_vars, NEW x \in Run, TextOK(x), NEW r \in Run, NEW i \in Start,
         \/ TaskStep(r, i) \/ BuildFails(r, i) \/ Acquire(r, i)
         \/ IdleTimeout(r, i) \/ TimerFires(r, i)
  PROVE  TextOK(x)'
<1>0. (Ending(x) => Ending(x)') /\ (pc[r][i] \in InLoop => i = task[r])
  BY EndingStays DEF Inductive, Sound, TaskOwned
<1>a. ASSUME NEW p, pc[r][i] \notin Waits, pc' = [pc EXCEPT ![r][i] = p],
             message' = message, inbox' = inbox, handled' = handled, sent' = sent, task' = task
      PROVE  TextOK(x)'
 <2>1. pc[x][task[x]] \in Waits => pc'[x][task[x]] \in Waits BY <1>a DEF TypeOK
 <2> QED BY <1>0, <1>a, <2>1, TextQuiet
<1>b. ASSUME x # r, NEW p, pc' = [pc EXCEPT ![r][i] = p], task' = task,
             message'[x] = message[x], inbox'[x] = inbox[x], handled'[x] = handled[x],
             sent' = sent
      PROVE  TextOK(x)'
  BY <1>0, <1>b, TextQuiet DEF TypeOK
<1>1. ASSUME TaskStarts(r, i) PROVE TextOK(x)' BY <1>1, <1>a DEF TaskStarts, Goto, Waits
<1>2. ASSUME TaskStillborn(r, i) PROVE TextOK(x)'
  BY <1>2, <1>a DEF TaskStillborn, Goto, Waits
<1>3. ASSUME NEW m, pc[r][i] \in {"building", "turn", "idling", "waiting"}, LoopTop(r, i, m),
             handled' = handled, sent' = sent, task' = task, abortReq' = abortReq,
             completion' = completion, \A q \in Run : q # r => inbox'[q] = inbox[q],
             \A y \in Items(inbox[r]) \cap (Msg \cup {"warning"}) :
               y \in Items(inbox'[r]) \/ m = y
      PROVE  TextOK(x)'
 <2>1. CASE x # r
  <3>1. message'[x] = message[x] /\ \E p : pc' = [pc EXCEPT ![r][i] = p]
    BY <1>3, <2>1 DEF LoopTop, Goto, TypeOK
  <3> QED BY <1>3, <1>b, <2>1, <3>1
 <2>2. CASE x = r
  <3>1. i = task[r] /\ pc[r][i] \notin Waits BY <1>0, <1>3 DEF InLoop, Place, Waits, None
  <3> QED BY <1>0, <1>3, <2>2, <3>1, TextLoopTop
 <2> QED BY <2>1, <2>2
<1>4. ASSUME Built(r, i) PROVE TextOK(x)' BY <1>4, <1>3 DEF Built
<1>5. ASSUME BuildFails(r, i) PROVE TextOK(x)' BY <1>5, <1>a DEF BuildFails, Goto, Waits
<1>6. ASSUME Acquire(r, i) PROVE TextOK(x)'
 <2>0. /\ pc' = [pc EXCEPT ![r][i] = "entering"] /\ message' = message /\ inbox' = inbox
       /\ handled' = handled /\ sent' = sent /\ task' = task
   BY <1>6 DEF Acquire, Goto
 <2>1. pc[x][task[x]] \in Waits => pc'[x][task[x]] \in Waits BY <2>0 DEF TypeOK, Waits
 <2> QED BY <1>0, <2>0, <2>1, TextQuiet
<1>7. ASSUME EnterTurn(r, i) PROVE TextOK(x)'
 <2>0. message' = message /\ inbox' = inbox /\ sent' = sent /\ task' = task
   BY <1>7 DEF EnterTurn
 <2>4. pc' = [pc EXCEPT ![r][i] = "turn"] \/ pc' = [pc EXCEPT ![r][i] = "settling"]
   BY <1>7 DEF EnterTurn, Goto
 <2>5. handled'[x] = IF x = r /\ abortReq[r] = None THEN handled[x] \cup {message[x]}
                     ELSE handled[x]
  <3>1. handled' = IF abortReq[r] # None THEN handled
                   ELSE [handled EXCEPT ![r] = @ \cup {message[r]}]
    BY <1>7 DEF EnterTurn
  <3> QED BY <3>1 DEF TypeOK
 <2>1. CASE x # r BY <1>b, <2>0, <2>1, <2>4, <2>5
 <2>2. CASE x = r /\ abortReq[r] # None BY <1>0, <2>2 DEF TextOK, TextsKept, Ending, Doomed
 <2>3. CASE x = r /\ abortReq[r] = None
  <3>1. message[x] \in handled'[x] /\ handled[x] \subseteq handled'[x] BY <2>3, <2>5
  <3> QED BY <1>0, <2>0, <3>1, TextQuiet
 <2> QED BY <2>1, <2>2, <2>3
<1>8. ASSUME TurnReturns(r, i) PROVE TextOK(x)'
 <2>1. PICK m : LoopTop(r, i, m) BY <1>8 DEF TurnReturns
 <2> QED BY <1>8, <1>3, <2>1 DEF TurnReturns
<1>9. ASSUME BudgetExceeded(r, i) PROVE TextOK(x)'
 <2> DEFINE k == [root |-> r, kind |-> "budget", by |-> Nobody, why |-> "budget",
                  left |-> Descendants(r)]
 <2>0. /\ pc' = [pc EXCEPT ![r][i] = "descend"] /\ pc[r][i] \notin Waits /\ Abort(k, cascades)
       /\ message' = message /\ handled' = handled /\ sent' = sent /\ task' = task
   BY <1>9 DEF BudgetExceeded, Goto, Waits
 <2>1. k \in Cascade BY DEF Cascade, Descendants, Reason
 <2>2. inbox'[x] = inbox[x] \/ Ending(x)' BY <2>0, <2>1, AbortText
 <2>3. pc[x][task[x]] \in Waits => pc'[x][task[x]] \in Waits BY <2>0 DEF TypeOK
 <2> QED BY <1>0, <2>0, <2>2, <2>3, TextQuiet
<1>10. ASSUME BudgetSettles(r, i) PROVE TextOK(x)'
  BY <1>10, <1>a DEF BudgetSettles, Goto, Waits
<1>11. ASSUME TurnRaises(r, i) \/ TurnEscapes(r, i) PROVE TextOK(x)'
  BY <1>11, <1>a DEF TurnRaises, TurnEscapes, Goto, Waits
<1>12. ASSUME Receive(r, i) PROVE TextOK(x)'
 <2> DEFINE m == IF Head(inbox[r]) = "wake" THEN None ELSE Head(inbox[r])
 <2>1. \A y \in Items(inbox[r]) \cap (Msg \cup {"warning"}) :
          y \in Items(Tail(inbox[r])) \/ m = y
  <3>1. inbox[r] \in Seq(Item) /\ inbox[r] # <<>> BY <1>12 DEF Receive, TypeOK
  <3>2. "wake" \notin Msg \cup {"warning"} BY TextsAssumption
  <3>3. ASSUME NEW n \in DOMAIN inbox[r], inbox[r][n] # Head(inbox[r])
        PROVE  inbox[r][n] \in Items(Tail(inbox[r]))
   <4>1. n # 1 /\ n \in 1 .. Len(inbox[r]) BY <3>1, <3>3
   <4>2. n - 1 \in DOMAIN Tail(inbox[r]) /\ Tail(inbox[r])[n - 1] = inbox[r][n]
     BY <3>1, <4>1
   <4> QED BY <4>2 DEF Items
  <3> QED BY <3>2, <3>3 DEF Items
 <2>2. inbox'[r] = Tail(inbox[r]) /\ \A q \in Run : q # r => inbox'[q] = inbox[q]
   BY <1>12 DEF Receive, TypeOK
 <2>3. /\ LoopTop(r, i, m) /\ pc[r][i] \in {"idling", "waiting"} /\ handled' = handled
       /\ sent' = sent /\ task' = task /\ abortReq' = abortReq /\ completion' = completion
   BY <1>12 DEF Receive
 <2> HIDE DEF m
 <2> QED BY <1>3, <2>1, <2>2, <2>3
<1>13. ASSUME Await(r, i) PROVE TextOK(x)' BY <1>13, <1>a DEF Await, Goto, Waits
<1>14. ASSUME TaskCancelled(r, i) PROVE TextOK(x)'
 <2>0. /\ pc' = [pc EXCEPT ![r][i] = "settling"] /\ message' = message /\ inbox' = inbox
       /\ handled' = handled /\ sent' = sent /\ task' = task /\ cancel[r][i]
   BY <1>14 DEF TaskCancelled, Goto
 <2>1. CASE x # r BY <1>b, <2>0, <2>1
 <2>2. CASE x = r
  <3>1. abortReq[x] # None BY <2>0, <2>2 DEF Inductive, Sound, CancelCaused
  <3> QED BY <1>0, <3>1 DEF TextOK, TextsKept, Ending, Doomed
 <2> QED BY <2>1, <2>2
<1>15. ASSUME TaskEnds(r, i) PROVE TextOK(x)' BY <1>15, <1>a DEF TaskEnds, Goto, Waits
<1>16. ASSUME IdleTimeout(r, i) PROVE TextOK(x)' BY <1>16, <1>a DEF IdleTimeout, Goto, Waits
<1>17. ASSUME TimerFires(r, i) PROVE TextOK(x)'
 <2>1. Tree(r, "timer", i, "timeout") \in Cascade BY TreeType DEF Reason
 <2>2. inbox'[x] = inbox[x] \/ Ending(x)' BY <1>17, <2>1, AbortText DEF TimerFires
 <2> QED BY <1>0, <1>17, <2>2, TextQuiet DEF TimerFires
<1> QED BY <1>1, <1>2, <1>4, <1>5, <1>6, <1>7, <1>8, <1>9, <1>10, <1>11, <1>12, <1>13, <1>14, <1>15,
<1>16, <1>17 DEF TaskStep

\* The steps of a turn.
LEMMA TextTurn ==
  ASSUME TypeOK, Inductive, [Next]_vars, NEW x \in Run, TextOK(x), NEW r \in Run,
         TurnStep(r) \/ Request(r) \/ \E final \in {"done", "failed"} : Yield(r, final)
  PROVE  TextOK(x)'
<1>0. Ending(x) => Ending(x)' BY EndingStays
<1>1. CASE TurnStep(r) \/ Request(r)
  BY <1>0, <1>1, TextQuiet DEF TurnStep, TurnOpens, TurnStops, TurnInterrupted, Request, DropCalls
<1>2. ASSUME NEW final \in {"done", "failed"}, Yield(r, final) PROVE TextOK(x)'
 <2>0. /\ inbox' = [inbox EXCEPT ![r] = PutBounded(@, "wake", FALSE)] /\ message' = message
       /\ completion' = [completion EXCEPT ![r] = final] /\ handled' = handled /\ sent' = sent
       /\ pc' = pc /\ task' = task
   BY <1>2 DEF Yield
 <2>1. inbox'[x] = inbox[x] \/ Ending(x)' BY <2>0 DEF TypeOK, Ending, None
 <2> QED BY <1>0, <2>0, <2>1, TextQuiet
<1> QED BY <1>1, <1>2

\* No step loses a text.
LEMMA TextStep ==
  ASSUME TypeOK, Inductive, \A x \in Run : TextOK(x), [Next]_vars
  PROVE  \A x \in Run : TextOK(x)'
<1> SUFFICES ASSUME NEW x \in Run PROVE TextOK(x)' OBVIOUS
<1>1. CASE UNCHANGED vars
  BY <1>1 DEF vars, TextOK, TextsKept, Carries, Ending, Doomed, Terminal
<1>2. CASE Next
 <2>1. ASSUME NEW c \in Caller, Calls(c) PROVE TextOK(x)' BY <2>1, TextCalls
 <2>2. ASSUME NEW r \in Run,
              \/ SpawnReturns(r) \/ ReviveReturns(r) \/ WaitEnds(r)
              \/ Detach(r) \/ ShutdownNext(r)
       PROVE  TextOK(x)'
   BY <2>2, TextCalls DEF Caller
 <2>3. ASSUME NEW k \in cascades, ResumeAbort(k) \/ DetachStarts(k) PROVE TextOK(x)'
   BY <2>3, TextCalls DEF Caller
 <2>4. ASSUME MainInterrupted \/ ShutdownBegins PROVE TextOK(x)'
   BY <2>4, TextCalls DEF Caller
 <2>5. ASSUME NEW r \in Run,
              TurnStep(r) \/ Request(r) \/ \E final \in {"done", "failed"} : Yield(r, final)
       PROVE  TextOK(x)'
   BY <2>5, TextTurn
 <2>6. ASSUME NEW r \in Run, NEW i \in Start,
              \/ TaskStep(r, i) \/ BuildFails(r, i) \/ Acquire(r, i)
              \/ IdleTimeout(r, i) \/ TimerFires(r, i)
       PROVE  TextOK(x)'
   BY <2>6, TextTask
 <2> QED BY <1>2, <2>1, <2>2, <2>3, <2>4, <2>5, <2>6 DEF Next
<1> QED BY <1>1, <1>2

\* NoSilentLoss: a text that send accepted waits in the inbox, is in the loop or has had its
\* turn, or a warning stands for it, while the run can still go on (agents.py _loop, send).
THEOREM TextsAreKept == Spec => []NoSilentLoss
<1>1. Init => \A x \in Run : TextOK(x)
 <2> SUFFICES ASSUME Init, NEW x \in Run PROVE TextOK(x) OBVIOUS
 <2>1. TextsKept(x) BY TextsAssumption DEF Init, TextsKept, None
 <2>2. \A m \in Msg : sent[m] # x BY RunsAssumption DEF Init
 <2> QED BY <2>1, <2>2 DEF TextOK
<1>2. (\A x \in Run : TextOK(x)) => NoSilentLoss
  BY DEF TextOK, NoSilentLoss, Carries, Items, Ending, Doomed
<1>3. TypeOK /\ Inductive /\ (\A x \in Run : TextOK(x)) /\ [Next]_vars
        => (\A x \in Run : TextOK(x))'
  BY TextStep
<1> QED BY <1>1, <1>2, <1>3, Invariance, PTL DEF Spec

------------------------------------------------------------------------------
(* The budget.                                                             *)

\* x is among those that the abort of r's descendants has still to reach.
Still(r, x) == \E k \in cascades : k.kind = "budget" /\ k.root = r /\ x \in k.left

\* Steps that add to the suspended cascades, if anything.
LEMMA StillKept ==
  ASSUME cascades \subseteq cascades', NEW r, NEW x, Still(r, x)
  PROVE  Still(r, x)'
BY DEF Still

\* An abort that begins, and one that goes on.
LEMMA AbortAdds ==
  ASSUME TypeOK, NEW k \in Cascade, NEW ks, Abort(k, ks)
  PROVE  ks \subseteq cascades'
BY AbortReaches

LEMMA AbortGoesOn ==
  ASSUME TypeOK, NEW k \in Cascade, Abort(k, cascades \ {k}), NEW r \in Run, NEW x \in Run,
         Still(r, x)
  PROVE  Still(r, x)' \/ Doomed(x)'
<1>1. PICK c \in cascades : c.kind = "budget" /\ c.root = r /\ x \in c.left BY DEF Still
<1>2. CASE c # k BY <1>1, <1>2, AbortAdds DEF Still
<1>3. CASE c = k
 <2>1. PICK B \in SUBSET k.left :
         /\ \A y \in B : Doomed(y)'
         /\ IF B = k.left THEN cascades' = cascades \ {k}
            ELSE cascades' = (cascades \ {k}) \cup {[k EXCEPT !.left = @ \ B]}
   BY AbortReaches
 <2>2. CASE x \in B BY <2>1, <2>2
 <2>3. CASE x \notin B
  <3>1. [k EXCEPT !.left = @ \ B] \in cascades' BY <1>1, <1>3, <2>1, <2>3
  <3>2. /\ [k EXCEPT !.left = @ \ B].kind = "budget" /\ [k EXCEPT !.left = @ \ B].root = r
        /\ x \in [k EXCEPT !.left = @ \ B].left
    BY <1>1, <1>3, <2>3 DEF Cascade
  <3> QED BY <3>1, <3>2 DEF Still
 <2> QED BY <2>2, <2>3
<1> QED BY <1>2, <1>3

\* What the abort of r's descendants has still to reach stays to be reached, unless r's own task
\* is cancelled while it waits for the abort.
LEMMA StillStep ==
  ASSUME TypeOK, [Next]_vars, NEW r \in Run, NEW x \in Run, Still(r, x)
  PROVE  \/ Still(r, x)' \/ Doomed(x)'
         \/ \E i \in Start : pc[r][i] = "descend" /\ TaskCancelled(r, i)
<1>0. cascades \in SUBSET Cascade BY DEF TypeOK
<1>1. ASSUME cascades' = cascades PROVE Still(r, x)' BY <1>1, StillKept
<1>2. ASSUME NEW k \in Cascade, Abort(k, cascades) PROVE Still(r, x)'
  BY <1>2, AbortAdds, StillKept
<1>3. ASSUME NEW c \in Caller, Calls(c) PROVE Still(r, x)'
 <2>1. ASSUME NEW q \in Run, Cancel(c, q) PROVE Still(r, x)'
  <3>1. Tree(q, "call", c, "cancel") \in Cascade BY TreeType DEF Reason
  <3> QED BY <1>2, <2>1, <3>1 DEF Cancel
 <2>2. ASSUME NEW q \in Run,
              \/ Spawn(c, q) \/ \E m \in Msg, interrupt \in BOOLEAN : Send(c, q, m, interrupt)
              \/ \E m \in Msg \cup {None} : Revive(c, q, m)
       PROVE  cascades' = cascades
   BY <2>2 DEF Spawn, Send, Revive
 <2> QED BY <1>1, <1>3, <2>1, <2>2 DEF Calls
<1>4. ASSUME NEW q \in Run, Detach(q) \/ ShutdownNext(q) PROVE Still(r, x)'
 <2>1. CASE Detach(q) BY <2>1, StillKept DEF Detach
 <2>2. CASE ShutdownNext(q)
  <3>1. Tree(q, "shutdown", Nobody, "shutdown") \in Cascade BY TreeType DEF Reason
  <3> QED BY <1>1, <1>2, <2>2, <3>1 DEF ShutdownNext
 <2> QED BY <1>4, <2>1, <2>2
<1>5. ASSUME NEW k \in cascades, ResumeAbort(k) PROVE Still(r, x)' \/ Doomed(x)'
  BY <1>0, <1>5, AbortGoesOn DEF ResumeAbort
<1>6. ASSUME NEW k \in cascades, DetachStarts(k) PROVE Still(r, x)'
 <2>1. k.root \in Run /\ Tree(k.root, "detach", Nobody, "cancel") \in Cascade
   BY <1>0, TreeType DEF Cascade, Reason
 <2>2. cascades \ {k} \subseteq cascades' /\ k.kind # "budget"
   BY <1>6, <2>1, AbortAdds DEF DetachStarts
 <2> QED BY <2>2 DEF Still
<1>7. ASSUME NEW c, DropCalls(c) PROVE Still(r, x)' BY <1>7 DEF DropCalls, Still
<1>8. ASSUME NEW q \in Run, NEW i \in Start, BudgetExceeded(q, i) \/ TimerFires(q, i)
      PROVE  Still(r, x)'
 <2>1. CASE BudgetExceeded(q, i)
  <3> DEFINE K == [root |-> q, kind |-> "budget", by |-> Nobody, why |-> "budget",
                   left |-> Descendants(q)]
  <3>1. K \in Cascade /\ Abort(K, cascades)
    BY <2>1 DEF BudgetExceeded, Cascade, Descendants, Reason
  <3> HIDE DEF K
  <3> QED BY <1>2, <3>1
 <2>2. CASE TimerFires(q, i)
  <3>1. Tree(q, "timer", i, "timeout") \in Cascade BY TreeType DEF Reason
  <3> QED BY <1>2, <2>2, <3>1 DEF TimerFires
 <2> QED BY <1>8, <2>1, <2>2
<1>9. ASSUME NEW q \in Run, NEW i \in Start, TaskCancelled(q, i)
      PROVE  Still(r, x)' \/ (q = r /\ pc[r][i] = "descend")
  BY <1>9 DEF TaskCancelled, Still
<1>10. ASSUME NEW q \in Run, NEW i \in Start, TaskEnds(q, i) PROVE Still(r, x)'
  BY <1>10 DEF TaskEnds, Still
<1>11. ASSUME NEW q \in Run, NEW i \in Start,
              \/ TaskStarts(q, i) \/ TaskStillborn(q, i) \/ Built(q, i) \/ EnterTurn(q, i)
              \/ TurnReturns(q, i) \/ BudgetSettles(q, i) \/ TurnRaises(q, i)
              \/ TurnEscapes(q, i) \/ Receive(q, i) \/ Await(q, i) \/ BuildFails(q, i)
              \/ Acquire(q, i) \/ IdleTimeout(q, i)
       PROVE  cascades' = cascades
  BY <1>11 DEF TaskStarts, TaskStillborn, Built, EnterTurn, TurnReturns, BudgetSettles,
     TurnRaises, TurnEscapes, Receive, Await, BuildFails, Acquire, IdleTimeout
<1>12. ASSUME NEW q \in Run, TurnStep(q) PROVE cascades' = cascades \/ DropCalls(q)
  BY <1>12 DEF TurnStep, TurnOpens, TurnStops, TurnInterrupted
<1>13. ASSUME NEW q \in Run,
              \/ SpawnReturns(q) \/ ReviveReturns(q) \/ WaitEnds(q) \/ Request(q)
              \/ \E final \in {"done", "failed"} : Yield(q, final)
       PROVE  cascades' = cascades
  BY <1>13 DEF SpawnReturns, ReviveReturns, WaitEnds, Request, Yield
<1>14. ASSUME MainInterrupted \/ ShutdownBegins \/ UNCHANGED vars
       PROVE  cascades' = cascades \/ DropCalls(Main)
  BY <1>14 DEF MainInterrupted, ShutdownBegins, vars
<1> QED
  BY <1>1, <1>3, <1>4, <1>5, <1>6, <1>7, <1>8, <1>9, <1>10, <1>11, <1>12, <1>13, <1>14
     DEF Next, TaskStep

\* A run comes under another one by spawn only.
LEMMA ParentStep ==
  ASSUME TypeOK, [Next]_vars, NEW r \in Run, NEW x \in Run, parent'[x] = r
  PROVE  parent[x] = r \/ Spawn(r, x)
<1>0. UNCHANGED placeVars => parent' = parent OBVIOUS
<1>1. ASSUME NEW c \in Caller, Calls(c) PROVE parent[x] = r \/ Spawn(r, x)
 <2>1. ASSUME NEW q \in Run, Spawn(c, q) PROVE parent[x] = r \/ Spawn(r, x)
  <3>1. parent' = [parent EXCEPT ![q] = c] BY <2>1 DEF Spawn
  <3>2. parent'[x] = IF x = q THEN c ELSE parent[x] BY <3>1 DEF TypeOK
  <3> QED BY <2>1, <3>2
 <2>2. ASSUME NEW q \in Run,
              \/ Cancel(c, q) \/ \E m \in Msg, interrupt \in BOOLEAN : Send(c, q, m, interrupt)
              \/ \E m \in Msg \cup {None} : Revive(c, q, m)
       PROVE  UNCHANGED placeVars
   BY <2>2 DEF Cancel, Send, Revive
 <2> QED BY <1>0, <1>1, <2>1, <2>2 DEF Calls
<1>2. ASSUME NEW q \in Run, Detach(q) PROVE parent' = parent BY <1>2 DEF Detach
<1>3. ASSUME NEW q \in Run,
             \/ SpawnReturns(q) \/ ReviveReturns(q) \/ WaitEnds(q) \/ ShutdownNext(q)
             \/ TurnStep(q) \/ Request(q) \/ \E final \in {"done", "failed"} : Yield(q, final)
      PROVE  UNCHANGED placeVars
  BY <1>3 DEF SpawnReturns, ReviveReturns, WaitEnds, ShutdownNext, TurnStep, TurnOpens, TurnStops,
     TurnInterrupted, Request, Yield
<1>4. ASSUME NEW q \in Run, NEW i \in Start, TaskStep(q, i) PROVE UNCHANGED placeVars
  BY <1>4 DEF TaskStep, TaskStarts, TaskStillborn, Built, EnterTurn, TurnReturns,
     BudgetExceeded, BudgetSettles, TurnRaises, TurnEscapes, Receive, Await, TaskCancelled,
     TaskEnds
<1>5. ASSUME NEW q \in Run, NEW i \in Start,
             BuildFails(q, i) \/ Acquire(q, i) \/ IdleTimeout(q, i) \/ TimerFires(q, i)
      PROVE  UNCHANGED placeVars
  BY <1>5 DEF BuildFails, Acquire, IdleTimeout, TimerFires
<1>6. ASSUME MainInterrupted \/ ShutdownBegins \/ UNCHANGED vars PROVE UNCHANGED placeVars
  BY <1>6 DEF MainInterrupted, ShutdownBegins, vars
<1>7. ASSUME NEW k \in cascades, ResumeAbort(k) \/ DetachStarts(k) PROVE UNCHANGED placeVars
  BY <1>7 DEF ResumeAbort, DetachStarts
<1> QED BY <1>0, <1>1, <1>2, <1>3, <1>4, <1>5, <1>6, <1>7 DEF Next

\* A run begins to wait for the abort of its descendants when it finds itself over its budget, and
\* leaves that wait by its own steps.
LEMMA DescendStep ==
  ASSUME TypeOK, [Next]_vars, NEW r \in Run, NEW i \in Start, pc'[r][i] = "descend"
  PROVE  pc[r][i] = "descend" \/ BudgetExceeded(r, i)
<1>0. UNCHANGED loopVars \/ pc' = pc => pc[r][i] = "descend" OBVIOUS
<1>1. ASSUME NEW q \in Run, NEW j \in Start, NEW p, p # "descend", pc' = [pc EXCEPT ![q][j] = p]
      PROVE  pc[r][i] = "descend"
  BY <1>1 DEF TypeOK
<1>2. ASSUME NEW c \in Caller, Calls(c) PROVE pc' = pc
  BY <1>2 DEF Calls, Spawn, Cancel, Send, Revive
<1>3. ASSUME NEW q \in Run, SpawnReturns(q) PROVE pc[r][i] = "descend"
  BY <1>1, <1>3, LimitsAssumption DEF SpawnReturns, Goto, Start
<1>4. ASSUME NEW q \in Run, ReviveReturns(q) PROVE pc[r][i] = "descend"
 <2>1. pc' = pc \/ pc' = [pc EXCEPT ![q][task[q] + 1] = "created"]
   BY <1>4 DEF ReviveReturns, Goto
 <2>2. pc'[r][i] = pc[r][i] \/ pc'[r][i] = "created"
  <3>1. pc \in [Run -> [Start -> Place]] BY DEF TypeOK
  <3>2. CASE pc' = pc BY <3>2
  <3>3. CASE pc' = [pc EXCEPT ![q][task[q] + 1] = "created"]
   <4>1. pc'[r] = pc[r] \/ pc'[r] = [pc[r] EXCEPT ![task[q] + 1] = "created"] BY <3>1, <3>3
   <4> QED BY <3>1, <4>1
  <3> QED BY <2>1, <3>2, <3>3
 <2> QED BY <2>2
<1>5. ASSUME NEW q \in Run,
             \/ WaitEnds(q) \/ Detach(q) \/ ShutdownNext(q) \/ TurnStep(q) \/ Request(q)
             \/ \E final \in {"done", "failed"} : Yield(q, final)
      PROVE  UNCHANGED loopVars \/ pc' = pc
  BY <1>5 DEF WaitEnds, Detach, ShutdownNext, TurnStep, TurnOpens, TurnStops,
     TurnInterrupted, Request, Yield
<1>6. ASSUME NEW q \in Run, NEW j \in Start, NEW m, LoopTop(q, j, m) PROVE pc[r][i] = "descend"
 <2>1. \E p \in {"settling", "queueing", "idling"} : pc' = [pc EXCEPT ![q][j] = p]
   BY <1>6 DEF LoopTop, Goto
 <2> QED BY <1>1, <2>1
<1>7. ASSUME NEW q \in Run, NEW j \in Start, Built(q, j) \/ TurnReturns(q, j) \/ Receive(q, j)
      PROVE  pc[r][i] = "descend"
  BY <1>6, <1>7 DEF Built, TurnReturns, Receive
<1>8. ASSUME NEW q \in Run, NEW j \in Start, BudgetExceeded(q, j)
      PROVE  pc[r][i] = "descend" \/ BudgetExceeded(r, i)
 <2>1. pc' = [pc EXCEPT ![q][j] = "descend"] BY <1>8 DEF BudgetExceeded, Goto
 <2>2. pc'[r][i] = pc[r][i] \/ (r = q /\ i = j) BY <2>1 DEF TypeOK
 <2> QED BY <1>8, <2>2
<1>9. ASSUME NEW q \in Run, NEW j \in Start,
             \/ TaskStarts(q, j) \/ TaskStillborn(q, j) \/ EnterTurn(q, j)
             \/ BudgetSettles(q, j) \/ TurnRaises(q, j) \/ TurnEscapes(q, j) \/ Await(q, j)
             \/ TaskCancelled(q, j) \/ TaskEnds(q, j)
             \/ BuildFails(q, j) \/ Acquire(q, j) \/ IdleTimeout(q, j)
      PROVE  pc[r][i] = "descend"
 <2>1. \E p \in {"building", "ended", "turn", "settling", "waiting", "entering", "parking"} :
          pc' = [pc EXCEPT ![q][j] = p]
   BY <1>9 DEF TaskStarts, TaskStillborn, EnterTurn, BudgetSettles, TurnRaises, TurnEscapes,
      Await, TaskCancelled, TaskEnds, BuildFails, Acquire, IdleTimeout, Goto
 <2> QED BY <1>1, <2>1
<1>10. ASSUME NEW q \in Run, NEW j \in Start, TimerFires(q, j) PROVE UNCHANGED loopVars
  BY <1>10 DEF TimerFires
<1>11. ASSUME MainInterrupted \/ ShutdownBegins \/ UNCHANGED vars PROVE UNCHANGED loopVars
  BY <1>11 DEF MainInterrupted, ShutdownBegins, vars
<1>12. ASSUME NEW k \in cascades, ResumeAbort(k) \/ DetachStarts(k) PROVE UNCHANGED loopVars
  BY <1>12 DEF ResumeAbort, DetachStarts
<1> QED BY <1>0, <1>2, <1>3, <1>4, <1>5, <1>7, <1>8, <1>9, <1>10, <1>11, <1>12 DEF Next, TaskStep

\* A run that ends over its budget, with no abort requested of it, has waited for that abort.
LEMMA OverBudget ==
  ASSUME TypeOK, Inductive, [Next]_vars, NEW r \in Run, ~Terminal(r), status'[r] = "aborted",
         abortReason'[r] = "budget", abortReq'[r] = None
  PROVE  \E i \in Start : BudgetSettles(r, i)
<1>0. /\ abortReq[r] = None /\ cascades \in SUBSET Cascade
      /\ UNCHANGED settleVars \/ status' = status => FALSE
  BY AbortReqStays DEF TypeOK, Terminal, Final
<1>1. ASSUME NEW k \in Cascade, NEW ks, Abort(k, ks) PROVE FALSE
 <2>1. status'[r] = status[r] \/ abortReq'[r] # None BY <1>1, AbortEffect
 <2> QED BY <2>1 DEF Terminal, Final
<1>2. ASSUME NEW c \in Caller, Calls(c) PROVE FALSE
 <2>1. ASSUME NEW q \in Run, Cancel(c, q) PROVE FALSE
  <3>1. Tree(q, "call", c, "cancel") \in Cascade BY TreeType DEF Reason
  <3> QED BY <1>1, <2>1, <3>1 DEF Cancel
 <2>2. ASSUME NEW q \in Run, Spawn(c, q) \/ \E m \in Msg \cup {None} : Revive(c, q, m)
       PROVE  FALSE
  <3>1. \E s \in {"queued", "idle"} : status' = [status EXCEPT ![q] = s]
    BY <2>2 DEF Spawn, Revive
  <3>2. status'[r] \in {"queued", "idle"} \/ status'[r] = status[r] BY <3>1 DEF TypeOK
  <3> QED BY <3>2 DEF Terminal, Final
 <2>3. ASSUME NEW q \in Run, NEW m \in Msg, NEW b \in BOOLEAN, Send(c, q, m, b) PROVE FALSE
   BY <1>0, <2>3 DEF Send
 <2> QED BY <1>2, <2>1, <2>2, <2>3 DEF Calls
<1>3. ASSUME NEW q \in Run,
             \/ SpawnReturns(q) \/ ReviveReturns(q) \/ WaitEnds(q) \/ Detach(q) \/ TurnStep(q)
             \/ Request(q) \/ \E final \in {"done", "failed"} : Yield(q, final)
      PROVE  FALSE
 <2>1. UNCHANGED settleVars
   BY <1>3 DEF SpawnReturns, ReviveReturns, WaitEnds, Detach, TurnStep, TurnOpens, TurnStops,
      TurnInterrupted, Request, Yield
 <2> QED BY <1>0, <2>1
<1>4. ASSUME NEW q \in Run, ShutdownNext(q) PROVE FALSE
 <2>1. Tree(q, "shutdown", Nobody, "shutdown") \in Cascade BY TreeType DEF Reason
 <2> QED BY <1>0, <1>1, <1>4, <2>1 DEF ShutdownNext
<1>5. ASSUME NEW k \in cascades, ResumeAbort(k) \/ DetachStarts(k) PROVE FALSE
 <2>1. k \in Cascade /\ Tree(k.root, "detach", Nobody, "cancel") \in Cascade
   BY <1>0, TreeType DEF Cascade, Reason
 <2> QED BY <1>1, <1>5, <2>1 DEF ResumeAbort, DetachStarts
<1>6. ASSUME MainInterrupted \/ ShutdownBegins \/ UNCHANGED vars PROVE FALSE
  BY <1>0, <1>6 DEF MainInterrupted, ShutdownBegins, vars
<1>7. ASSUME NEW q \in Run, NEW final \in Final, NEW reason, Settle(q, final, reason)
      PROVE  q = r /\ final = "aborted" /\ reason = "budget"
  BY <1>0, <1>7 DEF Settle, TypeOK, Terminal, Final
<1>8. ASSUME NEW q \in Run, NEW i \in Start, NEW m, LoopTop(q, i, m) PROVE FALSE
 <2>1. \/ \E final \in Final : \E reason : Settle(q, final, reason) /\ reason = abortReq[q]
                                       /\ abortReq[q] # None
       \/ \E final \in {"done", "failed"} : Settle(q, final, None)
       \/ UNCHANGED settleVars
       \/ status' = [status EXCEPT ![q] = "idle"]
   BY <1>8 DEF LoopTop, TypeOK, Final
 <2>2. status' = [status EXCEPT ![q] = "idle"] => FALSE BY DEF TypeOK, Terminal, Final
 <2> QED BY <1>0, <1>7, <2>1, <2>2 DEF None, Final
<1>9. ASSUME NEW q \in Run, NEW i \in Start,
             Built(q, i) \/ TurnReturns(q, i) \/ Receive(q, i)
      PROVE  FALSE
  BY <1>8, <1>9 DEF Built, TurnReturns, Receive
<1>10. ASSUME NEW q \in Run, NEW i \in Start,
              \/ TaskStarts(q, i) \/ TaskStillborn(q, i) \/ Await(q, i) \/ TaskEnds(q, i)
       PROVE  FALSE
 <2>1. UNCHANGED settleVars BY <1>10 DEF TaskStarts, TaskStillborn, Await, TaskEnds
 <2> QED BY <1>0, <2>1
<1>11. ASSUME NEW q \in Run, NEW i \in Start, BuildFails(q, i) \/ TurnRaises(q, i) PROVE FALSE
  BY <1>7, <1>11 DEF BuildFails, TurnRaises, Final, None
<1>12. ASSUME NEW q \in Run, NEW i \in Start, TurnEscapes(q, i) \/ TaskCancelled(q, i) PROVE FALSE
 <2>1. Settle(q, "aborted", Why(q, "shutdown")) BY <1>12 DEF TurnEscapes, TaskCancelled
 <2> QED BY <1>0, <1>7, <2>1 DEF Why, Final
<1>13. ASSUME NEW q \in Run, NEW i \in Start, EnterTurn(q, i) PROVE FALSE
 <2>1. UNCHANGED settleVars \/ (abortReq[q] # None /\ Settle(q, "aborted", abortReq[q]))
   BY <1>13 DEF EnterTurn
 <2> QED BY <1>0, <1>7, <2>1 DEF Final
<1>14. ASSUME NEW q \in Run, NEW i \in Start, Acquire(q, i) \/ IdleTimeout(q, i) PROVE FALSE
 <2>1. \E s \in {"running", "parked"} : status' = [status EXCEPT ![q] = s]
   BY <1>14 DEF Acquire, IdleTimeout
 <2>2. status'[r] \in {"running", "parked"} \/ status'[r] = status[r] BY <2>1 DEF TypeOK
 <2> QED BY <2>2 DEF Terminal, Final
<1>15. ASSUME NEW q \in Run, NEW i \in Start, BudgetExceeded(q, i) \/ TimerFires(q, i) PROVE FALSE
 <2> DEFINE K == [root |-> q, kind |-> "budget", by |-> Nobody, why |-> "budget",
                  left |-> Descendants(q)]
 <2>1. K \in Cascade /\ Tree(q, "timer", i, "timeout") \in Cascade
   BY TreeType DEF Cascade, Descendants, Reason
 <2>2. Abort(K, cascades) \/ Abort(Tree(q, "timer", i, "timeout"), cascades)
   BY <1>15 DEF BudgetExceeded, TimerFires
 <2> HIDE DEF K
 <2> QED BY <1>1, <2>1, <2>2
<1>16. ASSUME NEW q \in Run, NEW i \in Start, BudgetSettles(q, i) PROVE q = r
  BY <1>7, <1>16 DEF BudgetSettles, Final
<1> QED
  BY <1>2, <1>3, <1>4, <1>5, <1>6, <1>9, <1>10, <1>11, <1>12, <1>13, <1>14, <1>15, <1>16
     DEF Next, TaskStep

BudgetInv == BudgetDescends /\ \A r \in Run : BudgetReaches(r)

\* The children of a run over its budget stay aborted or about to be, and it gets no new ones.
LEMMA BudgetStep ==
  ASSUME TypeOK, Inductive, BudgetInv, [Next]_vars
  PROVE  BudgetInv'
<1>1. ASSUME NEW x \in Run PROVE Doomed(x) => Doomed(x)' BY DoomedStays
<1>2. ASSUME NEW r \in Run, NEW x \in Run, Spawn(r, x)
      PROVE  \A i \in Start : pc[r][i] # "descend" /\ pc'[r][i] = pc[r][i]
 <2>1. pc' = pc /\ turn[r] = "streaming" BY <1>2, RunsAssumption DEF Spawn, CanCall
 <2>2. PICK j \in Start : pc[r][j] = "turn"
   BY <2>1 DEF Inductive, Sound, StartPending, TurnLive, None
 <2>3. \A i \in Start : pc[r][i] = "descend" => i = j
   BY <2>2 DEF Inductive, Sound, TaskOwned, InLoop, Place, None
 <2> QED BY <2>1, <2>2, <2>3
<1>3. ASSUME NEW r \in Run, NEW x \in Run, Spawn(r, x) PROVE ~Terminal(r) /\ ~Terminal(r)'
 <2>1. turn[r] = "streaming" /\ status' = [status EXCEPT ![x] = "queued"]
   BY <1>3, RunsAssumption DEF Spawn, CanCall
 <2>2. PICK j \in Start : pc[r][j] = "turn"
   BY <2>1 DEF Inductive, Sound, StartPending, TurnLive, None
 <2>3. ~Terminal(r) BY <2>2 DEF Inductive, Sound, TaskOwned, Served, InLoop, Place, None
 <2> QED BY <2>1, <2>3 DEF TypeOK, Terminal, Final
<1>4. ASSUME NEW r \in Run PROVE BudgetReaches(r)'
 <2> SUFFICES ASSUME NEW i \in Start, pc'[r][i] = "descend", NEW x \in Run, parent'[x] = r,
                     ~Doomed(x)'
              PROVE  Still(r, x)'
   BY DEF BudgetReaches, Children, Still
 <2>1. parent[x] = r BY <1>2, ParentStep
 <2>2. CASE pc[r][i] = "descend"
  <3>1. Still(r, x) BY <1>1, <2>1, <2>2 DEF BudgetInv, BudgetReaches, Children, Still
  <3>2. ASSUME NEW j \in Start, pc[r][j] = "descend", TaskCancelled(r, j) PROVE FALSE
   <4>1. i = j BY <2>2, <3>2 DEF Inductive, Sound, TaskOwned, InLoop, Place, None
   <4>2. pc'[r][i] = "settling" BY <3>2, <4>1 DEF TaskCancelled, Goto, TypeOK
   <4> QED BY <4>2
  <3> QED BY <3>1, <3>2, StillStep
 <2>3. CASE BudgetExceeded(r, i)
  <3> DEFINE K == [root |-> r, kind |-> "budget", by |-> Nobody, why |-> "budget",
                   left |-> Descendants(r)]
  <3>1. K \in Cascade /\ Abort(K, cascades)
    BY <2>3 DEF BudgetExceeded, Cascade, Descendants, Reason
  <3>2. x \in Descendants(r) BY <2>1 DEF Descendants, Children
  <3>3. K.kind = "budget" /\ K.root = r /\ x \in K.left BY <3>2
  <3> HIDE DEF K
  <3>4. PICK B \in SUBSET K.left :
          /\ \A y \in B : Doomed(y)'
          /\ IF B = K.left THEN cascades' = cascades
             ELSE cascades' = cascades \cup {[K EXCEPT !.left = @ \ B]}
    BY <3>1, AbortReaches
  <3>5. x \notin B BY <3>4
  <3>6. [K EXCEPT !.left = @ \ B] \in cascades' BY <3>3, <3>4, <3>5
  <3>7. /\ [K EXCEPT !.left = @ \ B].kind = "budget" /\ [K EXCEPT !.left = @ \ B].root = r
        /\ x \in [K EXCEPT !.left = @ \ B].left
    BY <3>1, <3>3, <3>5 DEF Cascade
  <3> QED BY <3>6, <3>7 DEF Still
 <2> QED BY <2>2, <2>3, DescendStep
<1>5. ASSUME NEW r \in Run, NEW x \in Run, parent'[x] = r, status'[r] = "aborted",
             abortReason'[r] = "budget", abortReq'[r] = None
      PROVE  Doomed(x)'
 <2>0. Terminal(r)' BY <1>5 DEF Terminal, Final
 <2>1. parent[x] = r BY <1>3, <1>5, <2>0, ParentStep
 <2>2. CASE Terminal(r)
  <3>1. /\ status'[r] = status[r] /\ abortReason'[r] = abortReason[r]
        /\ abortReq'[r] = abortReq[r]
    BY <2>2, EndingsStep DEF Endings, Unsettled, GoesOn, EndsNow
  <3>2. Doomed(x) BY <1>5, <2>1, <3>1 DEF BudgetInv, BudgetDescends, Doomed
  <3> QED BY <1>1, <3>2
 <2>3. CASE ~Terminal(r)
  <3>1. PICK i \in Start : BudgetSettles(r, i) BY <1>5, <2>3, OverBudget
  <3>2. pc[r][i] = "descend" /\ ~Still(r, x) BY <3>1 DEF BudgetSettles, Still
  <3>3. Doomed(x) BY <2>1, <3>2 DEF BudgetInv, BudgetReaches, Children, Still
  <3> QED BY <1>1, <3>3
 <2> QED BY <2>2, <2>3
<1> QED BY <1>4, <1>5 DEF BudgetInv, BudgetDescends, Doomed

\* BudgetDescends: a run that ends over its own budget leaves no child that nobody aborts,
\* whatever its children do while the abort goes through them (agents.py 564-569, 730-743).
THEOREM BudgetReachesAll == Spec => []BudgetDescends
<1>1. Init => BudgetInv
 <2> SUFFICES ASSUME Init PROVE BudgetInv OBVIOUS
 <2>1. ASSUME NEW r \in Run PROVE BudgetReaches(r) BY DEF Init, BudgetReaches, None
 <2>2. BudgetDescends BY RunsAssumption DEF Init, BudgetDescends
 <2> QED BY <2>1, <2>2 DEF BudgetInv
<1>2. BudgetInv => BudgetDescends BY DEF BudgetInv
<1>3. TypeOK /\ Inductive /\ BudgetInv /\ [Next]_vars => BudgetInv' BY BudgetStep
<1> QED BY <1>1, <1>2, <1>3, Invariance, PTL DEF Spec
==============================================================================
