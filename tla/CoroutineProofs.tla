-------------------------- MODULE CoroutineProofs --------------------------
(***************************************************************************)
(* The safety of the scheduler.  Of the queue it uses only what PQueue is   *)
(* proved to do: the refinement lemmas of PQueueProofs, for the calls that  *)
(* Coroutine makes.                                                         *)
(***************************************************************************)
EXTENDS MCCoroutine, PQueueProofs

-----------------------------------------------------------------------------
(* The timers                                                              *)

(* The queue inside Coroutine is the queue of PQueue.                      *)
LEMMA SameQueue ==
    /\ C!PQ!Queued = Queued
    /\ C!PQ!Init <=> Init
    /\ C!PQ!Loop <=> Loop
    /\ C!PQ!Pop <=> Pop
    /\ \A n, p : C!PQ!Insert(n, p) <=> Insert(n, p)
<1>1. C!PQ!Queued = Queued
  BY DEF C!PQ!Queued, Queued, C!PQ!Slot, Slot
<1>2. C!PQ!Init <=> Init
  BY DEF C!PQ!Init, Init, C!PQ!step, step
<1>3. C!PQ!Rises <=> Rises
  BY DEF C!PQ!Rises, Rises, C!PQ!parent, parent, C!PQ!cmppri, cmppri
<1>4. C!PQ!maxchild(hole) = maxchild(hole)
  BY DEF C!PQ!maxchild, maxchild, C!PQ!left, left, C!PQ!right, right,
         C!PQ!cmppri, cmppri
<1>5. C!PQ!Sinks <=> Sinks
  BY <1>4 DEF C!PQ!Sinks, Sinks, C!PQ!cmppri, cmppri
<1>6. \A j : C!PQ!ShiftInto(j) <=> ShiftInto(j)
  BY DEF C!PQ!ShiftInto, ShiftInto
<1>7. C!PQ!parent(hole) = parent(hole)
  BY DEF C!PQ!parent, parent
<1>8. C!PQ!Loop <=> Loop
  BY <1>3, <1>4, <1>5, <1>6, <1>7
  DEF C!PQ!Loop, Loop, C!PQ!BubbleUp, BubbleUp, C!PQ!PercolateDown, PercolateDown,
      C!PQ!Settle, Settle
<1>9. C!PQ!Pop <=> Pop
  BY DEF C!PQ!Pop, Pop, C!PQ!Enter, Enter
<1>10. \A n, a : C!PQ!PutLast(n, a) <=> PutLast(n, a)
  BY DEF C!PQ!PutLast, PutLast, C!PQ!Enter, Enter
<1>11. \A s : C!PQ!Grown(s) = Grown(s)
  BY DEF C!PQ!Grown, Grown
<1>12. \A n, p : C!PQ!Insert(n, p) <=> Insert(n, p)
  BY <1>1, <1>10, <1>11 DEF C!PQ!Insert, Insert, C!PQ!step, step
<1> QED
  BY <1>1, <1>2, <1>8, <1>9, <1>12

(* What a turn of the loops, a pop of a queue that is not empty and an     *)
(* insertion do to the set of tasks that wait.                             *)
LEMMA TurnFacts ==
    ASSUME HeapInv, C!PQ!Loop
    PROVE  HeapInv' /\ Queued' = Queued /\ UNCHANGED <<pri, ret>>
BY SameQueue, LoopKeeps, BubbleUpHeap, PercolateDownHeap, SettleHeap DEF Loop

LEMMA PopFacts ==
    ASSUME HeapInv, C!Due, C!PQ!Pop
    PROVE  /\ HeapInv' /\ UNCHANGED pri
           /\ ret' \in Queued /\ Queued' = Queued \ {ret'}
           /\ pri[ret'] < clock
           /\ \A m \in Queued : pri[ret'] <= pri[m]
<1>1. Pop /\ HeapInv'
  BY SameQueue, PopHeap
<1>2. Abs!Pop
  BY <1>1, PopRefines
<1>3. op = "idle" /\ size # 1 /\ ret' = d[1] /\ pri[d[1]] < clock
  <2>1. size \in Nat /\ pri[d[1]] < clock /\ size > 1
    BY DEF C!Due, HeapInv, TypeOK
  <2> QED
    BY <1>1, <2>1 DEF Pop
<1>4. ret' \in Queued /\ \A m \in Queued : pri[ret'] <= pri[m]
  BY <1>3, HeadIsMinimal
<1> QED
  BY <1>1, <1>2, <1>3, <1>4 DEF Abs!Pop

LEMMA InsertFacts ==
    ASSUME HeapInv, NEW n \in Nodes, NEW p \in Priorities, C!PQ!Insert(n, p)
    PROVE  /\ HeapInv' /\ n \notin Queued
           /\ \/ Queued' = Queued \cup {n} /\ ret' # "error"
              \/ Queued' = Queued /\ ret' = "error"
<1>1. Insert(n, p)
  BY SameQueue
<1>2. HeapInv' /\ Abs!Insert(n, p)
  BY <1>1, InsertHeap, InsertRefines
<1> QED
  BY <1>2 DEF Abs!Insert

-----------------------------------------------------------------------------
(* The processor                                                           *)

(* What coroutine_new leaves in a context, what is in the processor when a *)
(* coroutine starts from that, and what swap_context saves of a context.   *)
NewContext(x) == [s \in 0..7 |-> CASE s = 4 -> <<x, "rip">>
                                  [] s = 5 -> <<x, "rsp">>
                                  [] OTHER -> C!Unset]
Fresh(x) == [r \in C!Regs |-> IF r \in {"rip", "rsp"} THEN <<x, r>> ELSE C!Unset]
SavedOf(x) == [s \in 0..7 |-> <<x, C!Saved[s + 1]>>]

Values == (C!Contexts \X C!Regs) \cup {C!Unset}

(* Whoever runs has its own registers; who does not run has them saved, in *)
(* its own context; and sched->current is the coroutine that runs.         *)
RegsInv ==
    /\ C!Running \in C!Contexts
    /\ \/ cpu = C!Own(C!Running)
       \/ C!Running # "main" /\ pc[C!Running] = "body" /\ cpu = Fresh(C!Running)
    /\ context \in [C!Contexts -> [0..7 -> Values]]
    /\ pc \in [C!Contexts -> {"start", "sleep", "test", "popped", "body", "yield"}]
    /\ pc["main"] \in {"start", "sleep", "test", "popped"}
    /\ C!Running # "main" =>
          /\ context["main"] = SavedOf("main") /\ current = C!Running
          /\ pc["main"] \in {"start", "test"}
    /\ \A c \in C!Coroutines : pc[c] \in {"body", "yield"}
    /\ \A c \in C!Coroutines :
          C!Running # c => pc[c] = "body" /\ context[c] \in {SavedOf(c), NewContext(c)}

LEMMA ContextTypes ==
    ASSUME NEW x \in C!Contexts
    PROVE  /\ SavedOf(x) \in [0..7 -> Values]
           /\ NewContext(x) \in [0..7 -> Values]
<1>1. \A s \in 0..7 : C!Saved[s + 1] \in C!Regs
  BY DEF C!Saved, C!Regs
<1>2. SavedOf(x) \in [0..7 -> Values]
  BY <1>1 DEF SavedOf, Values
<1>3. NewContext(x) \in [0..7 -> Values]
  BY DEF NewContext, Values, C!Regs
<1> QED
  BY <1>2, <1>3

(* Saving then loading gives every register what it had.                   *)
LEMMA Loads ==
    ASSUME NEW x
    PROVE  /\ [r \in C!Regs |-> SavedOf(x)[C!LoadedFrom[r]]] = C!Own(x)
           /\ [r \in C!Regs |-> NewContext(x)[C!LoadedFrom[r]]] = Fresh(x)
<1>1. ASSUME NEW r \in C!Regs
      PROVE  /\ C!LoadedFrom[r] \in 0..7
             /\ C!Saved[C!LoadedFrom[r] + 1] = r
             /\ C!LoadedFrom[r] = 4 <=> r = "rip"
             /\ C!LoadedFrom[r] = 5 <=> r = "rsp"
  BY DEF C!Regs, C!LoadedFrom, C!Saved
<1>2. \A r \in C!Regs : SavedOf(x)[C!LoadedFrom[r]] = <<x, r>>
  BY <1>1 DEF SavedOf
<1>3. \A r \in C!Regs : NewContext(x)[C!LoadedFrom[r]] =
                            IF r \in {"rip", "rsp"} THEN <<x, r>> ELSE C!Unset
  BY <1>1 DEF NewContext
<1> QED
  BY <1>2, <1>3 DEF C!Own, Fresh

LEMMA RunsAs ==
    ASSUME NEW x
    PROVE  /\ cpu = C!Own(x) => C!Running = x
           /\ cpu = Fresh(x) => C!Running = x
BY DEF C!Own, Fresh, C!Running, C!Regs

LEMMA Swaps ==
    ASSUME NEW from \in C!Contexts, NEW to \in C!Contexts, cpu = C!Own(from),
           context \in [C!Contexts -> [0..7 -> Values]],
           context[to] \in {SavedOf(to), NewContext(to)},
           C!swap_context(from, to)
    PROVE  /\ context' \in [C!Contexts -> [0..7 -> Values]]
           /\ context'[from] = SavedOf(from)
           /\ \A x \in C!Contexts \ {from} : context'[x] = context[x]
           /\ C!Running' = to
           /\ \/ context[to] = SavedOf(to) /\ cpu' = C!Own(to)
              \/ context[to] = NewContext(to) /\ cpu' = Fresh(to)
<1>1. \A s \in 0..7 : cpu[C!Saved[s + 1]] = <<from, C!Saved[s + 1]>>
  BY DEF C!Own, C!Saved, C!Regs
<1>2. context' = [context EXCEPT ![from] = SavedOf(from)]
  BY <1>1 DEF C!swap_context, SavedOf
<1>3. \/ context[to] = SavedOf(to) /\ cpu' = C!Own(to)
      \/ context[to] = NewContext(to) /\ cpu' = Fresh(to)
  BY Loads DEF C!swap_context
<1>4. C!Running' = to
  BY <1>3 DEF C!Own, Fresh, C!Running, C!Regs
<1> QED
  BY <1>2, <1>3, <1>4, ContextTypes

LEMMA ContextFacts ==
    /\ "main" \in C!Contexts /\ C!Coroutines \subseteq C!Contexts
    /\ "main" \notin C!Coroutines
    /\ C!Contexts = C!Coroutines \cup {"main"}
    /\ \A c \in C!Coroutines : c # "main"
BY ProgramAssumption DEF C!Contexts

LEMMA RegsInit == C!Init => RegsInv
<1> SUFFICES ASSUME C!Init PROVE RegsInv
  OBVIOUS
<1>1. cpu = C!Own("main") /\ C!Running = "main"
  BY RunsAs DEF C!Init
<1>2. \A x \in C!Contexts : context[x] \in [0..7 -> Values]
  BY DEF C!Init, Values, C!Regs
<1>3. \A c \in C!Coroutines : context[c] = NewContext(c)
  BY ContextFacts DEF C!Init, NewContext
<1> QED
  BY <1>1, <1>2, <1>3, ContextFacts DEF C!Init, RegsInv

(* main gives the processor to a coroutine ...                             *)
LEMMA RegsResume ==
    ASSUME RegsInv, C!Running = "main", NEW c \in C!Coroutines,
           C!coroutine_resume(c),
           pc' \in {pc, [pc EXCEPT !["main"] = "test"]}, pc'["main"] \in {"start", "test"}
    PROVE  RegsInv' /\ C!Running' = c /\ pc'[c] = "body"
<1>1. cpu = C!Own("main") /\ current' = c
  BY DEF RegsInv, C!coroutine_resume
<1>2. /\ context' \in [C!Contexts -> [0..7 -> Values]]
      /\ context'["main"] = SavedOf("main")
      /\ \A x \in C!Contexts \ {"main"} : context'[x] = context[x]
      /\ C!Running' = c
      /\ cpu' = C!Own(c) \/ cpu' = Fresh(c)
  <2>1. context[c] \in {SavedOf(c), NewContext(c)} /\ c \in C!Contexts
    BY ContextFacts DEF RegsInv
  <2> QED
    BY <1>1, <2>1, ContextFacts, Swaps DEF RegsInv, C!coroutine_resume
<1>3. /\ pc' \in [C!Contexts -> {"start", "sleep", "test", "popped", "body", "yield"}]
      /\ \A x \in C!Coroutines : pc'[x] = pc[x]
  BY ContextFacts DEF RegsInv
<1>4. pc[c] = "body"
  BY ContextFacts DEF RegsInv
<1> QED
  BY <1>1, <1>2, <1>3, <1>4, ContextFacts DEF RegsInv

(* ... and gets it back.                                                   *)
LEMMA RegsYield ==
    ASSUME RegsInv, NEW c \in C!Coroutines, C!Yield(c)
    PROVE  RegsInv' /\ C!Running' = "main" /\ cpu' = C!Own("main")
<1>1. /\ C!Running = c /\ c # "main" /\ c \in C!Contexts /\ pc[c] = "yield"
      /\ pc' = [pc EXCEPT ![c] = "body"] /\ current' = current
      /\ cpu = C!Own(c) /\ current = c
  BY ContextFacts DEF RegsInv, C!Yield
<1>2. context["main"] = SavedOf("main") /\ C!swap_context(c, "main")
  BY <1>1 DEF RegsInv, C!Yield, C!coroutine_yield
<1>3. /\ context' \in [C!Contexts -> [0..7 -> Values]]
      /\ context'[c] = SavedOf(c)
      /\ \A x \in C!Contexts \ {c} : context'[x] = context[x]
      /\ C!Running' = "main"
      /\ cpu' = C!Own("main") \/ cpu' = Fresh("main")
  BY <1>1, <1>2, ContextFacts, Swaps DEF RegsInv
<1>4. cpu' = C!Own("main")
  <2>1. cpu' = [r \in C!Regs |-> SavedOf("main")[C!LoadedFrom[r]]]
    BY <1>2 DEF C!swap_context
  <2> QED
    BY <2>1, Loads
<1>5. /\ pc' \in [C!Contexts -> {"start", "sleep", "test", "popped", "body", "yield"}]
      /\ pc'[c] = "body" /\ \A x \in C!Contexts \ {c} : pc'[x] = pc[x]
  BY <1>1 DEF RegsInv
<1> QED
  BY <1>1, <1>3, <1>4, <1>5, ContextFacts DEF RegsInv

(* Steps of whoever runs leave the saved contexts alone.                   *)
LEMMA RegsDelay ==
    ASSUME RegsInv, NEW c \in C!Coroutines, C!CallDelay(c)
    PROVE  RegsInv' /\ C!Running' = c
<1>1. /\ C!Running = c /\ c # "main" /\ c \in C!Contexts
      /\ cpu' = C!Own(c) /\ pc' = [pc EXCEPT ![c] = "yield"]
      /\ UNCHANGED <<context, current>>
  BY ContextFacts DEF C!CallDelay
<1>2. C!Running' = c
  BY <1>1 DEF C!Own, C!Running, C!Regs
<1>3. /\ pc' \in [C!Contexts -> {"start", "sleep", "test", "popped", "body", "yield"}]
      /\ pc'[c] = "yield" /\ \A x \in C!Contexts \ {c} : pc'[x] = pc[x]
  BY <1>1 DEF RegsInv
<1> QED
  BY <1>1, <1>2, <1>3, ContextFacts DEF RegsInv

LEMMA RegsMain ==
    ASSUME RegsInv, C!Running = "main", UNCHANGED <<cpu, context, current>>,
           NEW point \in {"start", "sleep", "test", "popped"},
           pc' = [pc EXCEPT !["main"] = point]
    PROVE  RegsInv' /\ C!Running' = "main"
<1>1. C!Running' = "main" /\ C!Running' = C!Running
  BY DEF C!Running
<1>2. /\ pc' \in [C!Contexts -> {"start", "sleep", "test", "popped", "body", "yield"}]
      /\ pc'["main"] = point /\ \A x \in C!Coroutines : pc'[x] = pc[x]
  BY ContextFacts DEF RegsInv
<1> QED
  BY <1>1, <1>2 DEF RegsInv

LEMMA RegsSame ==
    ASSUME RegsInv, UNCHANGED <<cpu, context, current, pc>>
    PROVE  RegsInv' /\ C!Running' = C!Running
BY DEF RegsInv, C!Running

-----------------------------------------------------------------------------
(* The tasks and the places of the coroutines                              *)

(* What is in the queue is malloc'ed, and so is the task that was popped   *)
(* and is about to be freed; every such task is some coroutine's.          *)
TaskInv ==
    /\ HeapInv
    /\ allocated \subseteq Nodes /\ Queued \subseteq allocated
    /\ coroutine \in [Nodes -> C!Coroutines \cup {Garbage}]
    /\ \A t \in allocated : coroutine[t] \in C!Coroutines
    /\ pc["main"] = "popped" => ret \in allocated \ Queued
    /\ resumed \in 0..Len(Program)
    /\ clock \in 0..MaxClock

Unstarted(c) == \A k \in 1..resumed : Program[k] # c
InBody(c) == C!Running = c /\ pc[c] = "body"
InQueue(c) == \E t \in Queued : coroutine[t] = c
IsPopped(c) == pc["main"] = "popped" /\ coroutine[ret] = c

OneOf(c) ==
    /\ Unstarted(c) \/ InBody(c) \/ InQueue(c) \/ IsPopped(c) \/ c \in lost
    /\ Unstarted(c) => ~InBody(c) /\ ~InQueue(c) /\ ~IsPopped(c) /\ c \notin lost
    /\ InBody(c) => ~InQueue(c) /\ ~IsPopped(c) /\ c \notin lost
    /\ InQueue(c) => ~IsPopped(c) /\ c \notin lost
    /\ IsPopped(c) => c \notin lost

PlaceInv ==
    /\ \A t, u \in Queued : coroutine[t] = coroutine[u] => t = u
    /\ \A c \in C!Coroutines : OneOf(c)

CoInv == RegsInv /\ TaskInv /\ PlaceInv

LEMMA CoInit == C!Init => CoInv
<1> SUFFICES ASSUME C!Init PROVE CoInv
  OBVIOUS
<1>1. Init /\ HeapInv
  BY SameQueue, InitHeap DEF C!Init
<1>2. Queued = {}
  BY <1>1 DEF Init, Queued
<1>3. C!Running = "main" /\ pc["main"] = "start"
  BY RunsAs, ContextFacts DEF C!Init
<1>4. TaskInv
  BY <1>1, <1>2, <1>3, TimesAssumption, ProgramAssumption DEF TaskInv, C!Init
<1>5. resumed = 0 /\ lost = {}
  BY DEF C!Init
<1>6. PlaceInv
  BY <1>2, <1>3, <1>5, ContextFacts
  DEF PlaceInv, OneOf, Unstarted, InBody, InQueue, IsPopped
<1> QED
  BY <1>4, <1>6, RegsInit DEF CoInv

LEMMA QueueSame ==
    ASSUME HeapInv, UNCHANGED C!queueVars
    PROVE  HeapInv' /\ Queued' = Queued /\ ret' = ret
<1>1. UNCHANGED <<d, size, avail, pri, pos, op, hole, moving_node, ret>>
  BY DEF C!queueVars
<1> QED
  BY <1>1 DEF HeapInv, TypeOK, NodesInv, HoleInv, PosInv, MoveInv, OrderInv,
              BridgeInv, Live, Queued, Slot

LEMMA CoStart ==
    ASSUME CoInv, C!Start
    PROVE  CoInv'
<1> USE DEF CoInv
<1> DEFINE co == Program[resumed + 1]
<1>1. /\ C!Running = "main" /\ pc["main"] = "start" /\ resumed' = resumed + 1
      /\ resumed \in Nat /\ resumed + 1 \in 1..Len(Program) /\ Len(Program) \in Nat
      /\ UNCHANGED <<C!queueVars, pc, coroutine, allocated, lost, C!clockVars>>
  BY ProgramAssumption DEF C!Start, TaskInv
<1>2. co \in C!Coroutines /\ C!coroutine_resume(co)
  BY <1>1, ProgramAssumption DEF C!Start
<1> HIDE DEF co
<1>3. RegsInv' /\ C!Running' = co /\ pc'[co] = "body"
  BY <1>1, <1>2, RegsResume
<1>4. ret' = ret /\ clock' = clock
  BY <1>1 DEF C!queueVars, C!clockVars
<1>5. HeapInv' /\ Queued' = Queued
  BY <1>1, QueueSame DEF TaskInv
<1>6. TaskInv'
  BY <1>1, <1>4, <1>5 DEF TaskInv
<1>7. \A k \in 1..resumed : Program[k] # co
  BY <1>1, ProgramAssumption DEF co
<1>8. ASSUME NEW c \in C!Coroutines PROVE OneOf(c)'
  <2>1. Unstarted(c)' <=> Unstarted(c) /\ c # co
    BY <1>1 DEF Unstarted, co
  <2>2. InQueue(c)' <=> InQueue(c)
    BY <1>1, <1>5 DEF InQueue
  <2>3. InBody(c)' <=> c = co
    BY <1>3 DEF InBody
  <2>4. ~InBody(c) /\ ~IsPopped(c) /\ ~IsPopped(c)'
    BY <1>1, ContextFacts DEF InBody, IsPopped
  <2>5. c = co => Unstarted(c)
    BY <1>7 DEF Unstarted
  <2>6. lost' = lost /\ OneOf(c)
    BY <1>1 DEF PlaceInv
  <2> QED
    BY <2>1, <2>2, <2>3, <2>4, <2>5, <2>6 DEF OneOf
<1>9. PlaceInv'
  BY <1>1, <1>5, <1>8 DEF PlaceInv
<1> QED
  BY <1>3, <1>6, <1>9

(* main goes on without the processor changing hands.                      *)
LEMMA CoMain ==
    ASSUME CoInv, C!Running = "main", pc["main"] # "popped",
           UNCHANGED <<C!queueVars, cpu, context, current, resumed, coroutine,
                       allocated, lost, C!clockVars>>,
           NEW point \in {"sleep", "test"}, pc' = [pc EXCEPT !["main"] = point]
    PROVE  CoInv'
<1> USE DEF CoInv
<1>1. RegsInv' /\ C!Running' = "main" /\ pc'["main"] = point /\ clock' = clock
  BY RegsMain, ContextFacts DEF RegsInv, C!clockVars
<1>2. HeapInv' /\ Queued' = Queued
  BY QueueSame DEF TaskInv
<1>3. TaskInv'
  BY <1>1, <1>2 DEF TaskInv
<1>4. ASSUME NEW c \in C!Coroutines PROVE OneOf(c)'
  <2>1. /\ Unstarted(c)' <=> Unstarted(c)
        /\ InQueue(c)' <=> InQueue(c)
        /\ ~InBody(c) /\ ~InBody(c)' /\ ~IsPopped(c) /\ ~IsPopped(c)'
    BY <1>1, <1>2, ContextFacts DEF Unstarted, InQueue, InBody, IsPopped
  <2> QED
    BY <2>1 DEF PlaceInv, OneOf
<1> QED
  BY <1>1, <1>2, <1>3, <1>4 DEF PlaceInv

(* The task that is popped was the only one of its coroutine.              *)
LEMMA CoPop ==
    ASSUME CoInv, C!Running = "main", pc["main"] = "test", C!Due, C!PQ!Pop,
           pc' = [pc EXCEPT !["main"] = "popped"],
           UNCHANGED <<cpu, context, current, resumed, coroutine, allocated, lost,
                       C!clockVars>>
    PROVE  CoInv'
<1> USE DEF CoInv
<1>1. RegsInv' /\ C!Running' = "main" /\ pc'["main"] = "popped" /\ clock' = clock
  BY RegsMain, ContextFacts DEF RegsInv, C!clockVars
<1>2. HeapInv' /\ ret' \in Queued /\ Queued' = Queued \ {ret'}
  BY PopFacts DEF TaskInv
<1>3. TaskInv'
  BY <1>1, <1>2 DEF TaskInv
<1>4. ASSUME NEW c \in C!Coroutines PROVE OneOf(c)'
  <2>1. /\ Unstarted(c)' <=> Unstarted(c)
        /\ ~InBody(c) /\ ~InBody(c)' /\ ~IsPopped(c)
    BY <1>1, ContextFacts DEF Unstarted, InBody, IsPopped
  <2>2. IsPopped(c)' <=> c = coroutine[ret']
    BY <1>1 DEF IsPopped
  <2>3. InQueue(c)' <=> InQueue(c) /\ c # coroutine[ret']
    BY <1>2 DEF InQueue, PlaceInv
  <2>4. c = coroutine[ret'] => InQueue(c)
    BY <1>2 DEF InQueue
  <2> QED
    BY <2>1, <2>2, <2>3, <2>4 DEF PlaceInv, OneOf
<1> QED
  BY <1>1, <1>2, <1>3, <1>4 DEF PlaceInv

LEMMA CoResume ==
    ASSUME CoInv, C!Resume
    PROVE  CoInv'
<1> USE DEF CoInv
<1> DEFINE co == coroutine[ret]
<1>1. /\ C!Running = "main" /\ pc["main"] = "popped"
      /\ allocated' = allocated \ {ret} /\ pc' = [pc EXCEPT !["main"] = "test"]
      /\ UNCHANGED <<C!queueVars, resumed, coroutine, lost, C!clockVars>>
  BY DEF C!Resume
<1>2. ret \in allocated \ Queued /\ co \in C!Coroutines /\ C!coroutine_resume(co)
  BY <1>1 DEF C!Resume, TaskInv
<1> HIDE DEF co
<1>3. pc'["main"] = "test" /\ clock' = clock
  BY <1>1, ContextFacts DEF RegsInv, C!clockVars
<1>4. RegsInv' /\ C!Running' = co /\ pc'[co] = "body"
  BY <1>1, <1>2, <1>3, RegsResume
<1>5. HeapInv' /\ Queued' = Queued
  BY <1>1, QueueSame DEF TaskInv
<1>6. TaskInv'
  BY <1>1, <1>2, <1>3, <1>5 DEF TaskInv
<1>7. ASSUME NEW c \in C!Coroutines PROVE OneOf(c)'
  <2>1. /\ Unstarted(c)' <=> Unstarted(c)
        /\ InQueue(c)' <=> InQueue(c)
        /\ ~InBody(c) /\ ~IsPopped(c)'
    BY <1>1, <1>3, <1>5, ContextFacts DEF Unstarted, InQueue, InBody, IsPopped
  <2>2. InBody(c)' <=> c = co
    BY <1>4 DEF InBody
  <2>3. IsPopped(c) <=> c = co
    BY <1>1 DEF IsPopped, co
  <2> QED
    BY <1>1, <2>1, <2>2, <2>3 DEF PlaceInv, OneOf
<1> QED
  BY <1>1, <1>4, <1>5, <1>6, <1>7 DEF PlaceInv

(* The new task is not in the queue yet, and its coroutine has no other.   *)
LEMMA CoDelay ==
    ASSUME CoInv, NEW co \in C!Coroutines, C!CallDelay(co)
    PROVE  CoInv'
<1> USE DEF CoInv
<1>1. /\ C!Running = co /\ pc[co] = "body" /\ pc' = [pc EXCEPT ![co] = "yield"]
      /\ lost' = IF ret' = "error" THEN lost \cup {co} ELSE lost
      /\ UNCHANGED <<context, current, resumed, C!clockVars>>
  BY DEF C!CallDelay
<1>2. /\ current = co /\ pc["main"] # "popped" /\ pc'["main"] # "popped"
      /\ pc'[co] = "yield" /\ clock' = clock
  BY <1>1, ContextFacts DEF RegsInv, C!clockVars
<1>3. PICK t \in Nodes \ allocated :
          /\ allocated' = allocated \cup {t}
          /\ coroutine' = [coroutine EXCEPT ![t] = co]
          /\ C!PQ!Insert(t, Delay[co] + clock)
  BY <1>2 DEF C!CallDelay
<1>4. Delay[co] + clock \in Priorities
  BY TimesAssumption DEF TaskInv
<1>5. /\ HeapInv'
      /\ \/ Queued' = Queued \cup {t} /\ ret' # "error"
         \/ Queued' = Queued /\ ret' = "error"
  BY <1>3, <1>4, InsertFacts DEF TaskInv
<1>6. RegsInv' /\ C!Running' = co
  BY RegsDelay
<1>7. /\ coroutine'[t] = co /\ t \notin Queued
      /\ \A u \in Queued : coroutine'[u] = coroutine[u]
  BY <1>3 DEF TaskInv
<1>8. TaskInv'
  BY <1>1, <1>2, <1>3, <1>5, <1>7 DEF TaskInv
<1>9. InBody(co)
  BY <1>1 DEF InBody
<1>10. ASSUME NEW c \in C!Coroutines PROVE OneOf(c)'
  <2>1. /\ Unstarted(c)' <=> Unstarted(c)
        /\ ~IsPopped(c) /\ ~IsPopped(c)' /\ ~InBody(c)'
        /\ InBody(c) <=> c = co
    BY <1>1, <1>2, <1>6 DEF Unstarted, InBody, IsPopped
  <2>2. c # co => (InQueue(c)' <=> InQueue(c)) /\ (c \in lost' <=> c \in lost)
    BY <1>1, <1>5, <1>7 DEF InQueue
  <2>3. InQueue(co)' <=> ret' # "error"
    <3>1. ~InQueue(co)
      BY <1>9 DEF PlaceInv, OneOf
    <3> QED
      BY <1>5, <1>7, <3>1 DEF InQueue
  <2>4. co \in lost' <=> ret' = "error"
    BY <1>1, <1>9 DEF PlaceInv, OneOf
  <2> QED
    BY <2>1, <2>2, <2>3, <2>4 DEF PlaceInv, OneOf
<1>11. \A u, v \in Queued' : coroutine'[u] = coroutine'[v] => u = v
  <2>1. \A u \in Queued : coroutine[u] # co
    BY <1>9 DEF PlaceInv, OneOf, InQueue
  <2> QED
    BY <1>5, <1>7, <2>1 DEF PlaceInv
<1> QED
  BY <1>6, <1>8, <1>10, <1>11 DEF PlaceInv

LEMMA CoYield ==
    ASSUME CoInv, NEW co \in C!Coroutines, C!Yield(co)
    PROVE  CoInv'
<1> USE DEF CoInv
<1>1. /\ C!Running = co /\ pc[co] = "yield" /\ pc' = [pc EXCEPT ![co] = "body"]
      /\ UNCHANGED <<C!queueVars, resumed, coroutine, allocated, lost, C!clockVars>>
  BY DEF C!Yield
<1>2. RegsInv' /\ C!Running' = "main"
  BY RegsYield
<1>3. pc'["main"] = pc["main"] /\ pc["main"] # "popped" /\ clock' = clock
  BY <1>1, ContextFacts DEF RegsInv, C!clockVars
<1>4. HeapInv' /\ Queued' = Queued
  BY <1>1, QueueSame DEF TaskInv
<1>5. TaskInv'
  BY <1>1, <1>3, <1>4 DEF TaskInv
<1>6. ASSUME NEW c \in C!Coroutines PROVE OneOf(c)'
  <2>1. /\ Unstarted(c)' <=> Unstarted(c)
        /\ InQueue(c)' <=> InQueue(c)
        /\ ~InBody(c) /\ ~InBody(c)' /\ ~IsPopped(c) /\ ~IsPopped(c)'
    BY <1>1, <1>2, <1>3, <1>4, ContextFacts DEF Unstarted, InQueue, InBody, IsPopped
  <2> QED
    BY <1>1, <2>1 DEF PlaceInv, OneOf
<1> QED
  BY <1>1, <1>2, <1>4, <1>5, <1>6 DEF PlaceInv

(* A turn of the queue's loops, or of the clock.                           *)
LEMMA CoOutside ==
    ASSUME CoInv, UNCHANGED C!schedVars, clock' \in 0..MaxClock,
           HeapInv', Queued' = Queued, ret' = ret
    PROVE  CoInv'
<1>1. UNCHANGED <<cpu, context, current, pc, resumed, coroutine, allocated, lost>>
  BY DEF C!schedVars
<1>2. RegsInv' /\ C!Running' = C!Running
  BY <1>1, RegsSame DEF CoInv
<1>3. TaskInv'
  BY <1>1 DEF CoInv, TaskInv
<1>4. PlaceInv'
  BY <1>1, <1>2
  DEF CoInv, PlaceInv, OneOf, Unstarted, InBody, InQueue, IsPopped
<1> QED
  BY <1>2, <1>3, <1>4 DEF CoInv

LEMMA CoNext == CoInv /\ [C!Next]_(C!vars) => CoInv'
<1> SUFFICES ASSUME CoInv, [C!Next]_(C!vars) PROVE CoInv'
  OBVIOUS
<1>1. clock \in 0..MaxClock /\ MaxClock \in Nat /\ HeapInv
  BY TimesAssumption DEF CoInv, TaskInv
<1>2. CASE C!Start
  BY <1>2, CoStart
<1>3. CASE C!EnterLoop
  BY <1>3, CoMain DEF C!EnterLoop
<1>4. CASE C!Sleep
  BY <1>4, CoMain DEF C!Sleep
<1>5. CASE C!Poll
  <2>1. CASE C!Due /\ C!PQ!Pop /\ pc' = [pc EXCEPT !["main"] = "popped"]
    BY <1>5, <2>1, CoPop DEF C!Poll
  <2>2. CASE ~C!Due /\ pc' = [pc EXCEPT !["main"] = "sleep"] /\ UNCHANGED C!queueVars
    BY <1>5, <2>2, CoMain DEF C!Poll
  <2> QED
    BY <1>5, <2>1, <2>2 DEF C!Poll
<1>6. CASE C!Resume
  BY <1>6, CoResume
<1>7. CASE C!QueueLoop
  <2>1. HeapInv' /\ Queued' = Queued /\ ret' = ret
    BY <1>1, <1>7, TurnFacts DEF C!QueueLoop
  <2>2. UNCHANGED C!schedVars /\ clock' = clock
    BY <1>7 DEF C!QueueLoop, C!clockVars
  <2> QED
    BY <1>1, <2>1, <2>2, CoOutside
<1>8. CASE \E c \in C!Coroutines : C!CallDelay(c) \/ C!Yield(c)
  BY <1>8, CoDelay, CoYield
<1>9. CASE C!Tick
  <2>1. UNCHANGED C!schedVars /\ UNCHANGED C!queueVars /\ clock' \in 0..MaxClock
    BY <1>1, <1>9 DEF C!Tick
  <2> QED
    BY <1>1, <2>1, QueueSame, CoOutside
<1>10. CASE C!SetBack
  <2>1. UNCHANGED C!schedVars /\ UNCHANGED C!queueVars /\ clock' \in 0..MaxClock
    BY <1>1, <1>10 DEF C!SetBack
  <2> QED
    BY <1>1, <2>1, QueueSame, CoOutside
<1>11. CASE UNCHANGED C!vars
  <2>1. UNCHANGED C!schedVars /\ UNCHANGED C!queueVars /\ clock' = clock
    BY <1>11 DEF C!vars, C!clockVars
  <2> QED
    BY <1>1, <2>1, QueueSame, CoOutside
<1> QED
  BY <1>2, <1>3, <1>4, <1>5, <1>6, <1>7, <1>8, <1>9, <1>10, <1>11 DEF C!Next, C!Step

LEMMA CoInvariant == CoroutineSpec => []CoInv
BY CoInit, CoNext, PTL DEF CoroutineSpec, C!FairSpec, C!Spec

-----------------------------------------------------------------------------
(* Whoever gets the processor finds its registers as it left them, however *)
(* many coroutines there are and in whatever order they are resumed.       *)
THEOREM RegistersIntactHolds == CoroutineSpec => []RegistersIntact
<1>1. CoInv => RegistersIntact
  <2> SUFFICES ASSUME RegsInv, cpu = Fresh(C!Running), pc[C!Running] = "body"
               PROVE  RegistersIntact
    BY DEF CoInv, RegsInv, RegistersIntact, C!RegistersIntact
  <2>1. C!Running # Garbage
    BY ProgramAssumption DEF RegsInv
  <2>2. "rsp" \in C!Regs
    BY DEF C!Regs
  <2>3. cpu["rsp"] = <<C!Running, "rsp">> /\ cpu["rsp"] # C!Unset
    BY <2>1, <2>2 DEF Fresh, C!Unset
  <2>4. \A r \in C!Regs : cpu[r] \in {<<C!Running, r>>, C!Unset}
    BY DEF Fresh
  <2> QED
    BY <2>3, <2>4 DEF RegistersIntact, C!RegistersIntact
<1> QED
  BY <1>1, CoInvariant, PTL

(* A task that is in the queue has not been freed.                         *)
THEOREM NoDanglingTaskHolds == CoroutineSpec => []NoDanglingTask
<1>1. CoInv => NoDanglingTask
  BY SameQueue DEF CoInv, TaskInv, NoDanglingTask, C!NoDanglingTask
<1> QED
  BY <1>1, CoInvariant, PTL

(* What main acts on had expired, and nothing that waits expires earlier.  *)
THEOREM ResumedInOrderHolds == CoroutineSpec => ResumedInOrder
<1>1. ASSUME CoInv, C!Next, pc["main"] = "test", pc'["main"] = "popped"
      PROVE  pri[ret'] < clock /\ \A t \in C!PQ!Queued : pri[ret'] <= pri[t]
  <2>1. "main" \in C!Contexts /\ "main" \notin C!Coroutines
        /\ pc = [x \in C!Contexts |-> pc[x]]
    BY <1>1, ContextFacts DEF CoInv, RegsInv
  <2>2. C!Due /\ C!PQ!Pop
    <3>1. C!Poll
      BY <1>1, <2>1
      DEF C!Next, C!Step, C!Start, C!EnterLoop, C!Sleep, C!Resume, C!QueueLoop,
          C!CallDelay, C!Yield, C!Tick, C!SetBack, C!schedVars
    <3> QED
      BY <1>1, <2>1, <3>1 DEF C!Poll
  <2> QED
    BY <1>1, <2>2, PopFacts, SameQueue DEF CoInv, TaskInv
<1>2. CoInv /\ [C!Next]_(C!vars) =>
          [pc["main"] = "test" /\ pc'["main"] = "popped" =>
             /\ pri[ret'] < clock
             /\ \A t \in C!PQ!Queued : pri[ret'] <= pri[t]]_(C!vars)
  BY <1>1
<1> QED
  BY <1>2, CoInvariant, PTL
  DEF CoroutineSpec, C!FairSpec, C!Spec, ResumedInOrder, C!ResumedInOrder

(* Each coroutine is in exactly one place; the only one that is nowhere is *)
(* one whose pqueue_insert failed.                                         *)
THEOREM OnePlaceHolds == CoroutineSpec => []OnePlace
<1>1. ASSUME CoInv, NEW c \in C!Coroutines
      PROVE  C!Cardinality(C!Waiting(c)) = C!Count(InQueue(c))
  <2>1. \A S : C!Cardinality(S) = Cardinality(S)
    BY DEF C!Cardinality, Cardinality
  <2>2. C!Waiting(c) = {t \in Queued : coroutine[t] = c}
    BY SameQueue DEF C!Waiting
  <2>3. CASE InQueue(c)
    <3>1. PICK t \in Queued : coroutine[t] = c
      BY <2>3 DEF InQueue
    <3>2. C!Waiting(c) = {t}
      BY <1>1, <2>2, <3>1 DEF CoInv, PlaceInv
    <3>3. Cardinality({t}) = 1
      BY FS_Singleton
    <3> QED
      BY <2>1, <2>3, <3>2, <3>3 DEF C!Count
  <2>4. CASE ~InQueue(c)
    <3>1. C!Waiting(c) = {}
      BY <2>2, <2>4 DEF InQueue
    <3>2. Cardinality({}) = 0
      BY FS_EmptySet
    <3> QED
      BY <2>1, <2>4, <3>1, <3>2 DEF C!Count
  <2> QED
    BY <2>3, <2>4
<1>2. ASSUME NEW c, OneOf(c)
      PROVE  C!Count(InQueue(c)) + C!Count(Unstarted(c)) + C!Count(InBody(c))
               + C!Count(IsPopped(c)) + C!Count(c \in lost) = 1
  BY <1>2 DEF OneOf, C!Count
<1>3. CoInv => OnePlace
  <2> SUFFICES ASSUME CoInv, NEW c \in C!Coroutines
               PROVE  C!Cardinality(C!Waiting(c)) + C!Count(Unstarted(c))
                        + C!Count(InBody(c)) + C!Count(IsPopped(c))
                        + C!Count(c \in lost) = 1
    BY DEF OnePlace, C!OnePlace, Unstarted, InBody, IsPopped
  <2>1. OneOf(c)
    BY DEF CoInv, PlaceInv
  <2> QED
    BY <1>1, <1>2, <2>1
<1> QED
  BY <1>3, CoInvariant, PTL
=============================================================================
