----------------------------- MODULE AioRefiner -----------------------------
(***************************************************************************)
(* Exact refinement (adapters/list_file_aio_refiner.cpp): one query worker *)
(* thread that reads the pages of its candidates through Linux AIO, or one *)
(* pread at a time when the queue depth is 1, and keeps the best topk.     *)
(*                                                                         *)
(* The thread and the kernel run concurrently.  Operations complete in any *)
(* order, io_submit may accept a prefix of what it is offered, any call    *)
(* may fail, and the thread's AIO context outlives the call.  The record   *)
(* files do not change meanwhile: search() holds the reader lock.          *)
(***************************************************************************)
EXTENDS Integers, FiniteSets, SequencesExt

CONSTANTS
  RecordsPerPage,  \* store_.records_per_page()
  Requests,        \* the candidate sets asked for: sets of <<list, offset>>
  Options,         \* <<queue_depth, max_open_files>> of the thread's refiners
  TopK,            \* topk
  Distance(_)      \* the exact distance of the record at <<list, offset>>

ASSUME AioConstants ==
  /\ RecordsPerPage \in Nat \ {0} /\ TopK \in Nat \ {0}
  /\ \A c \in Requests : /\ c \subseteq Nat \X Nat /\ IsFiniteSet(c)
                         /\ Cardinality(c) >= TopK
                         /\ \A x \in c : Distance(x) \in Int
  /\ \A o \in Options : o \in (Nat \ {0}) \X Nat /\ o[2] >= o[1]

VARIABLES
  pc,           \* where the thread is
  call,         \* locals of refine(): candidates, depth, window, plans, lists
  window,       \* list_begin, list_end, plan_begin, plan_end
  next_plan,    \* next plan of the window to prepare
  files,        \* lists whose file is open
  slots,        \* refine_aio's slots, <<>> before and after: plan and buffer
  submissions,  \* slots prepared and not yet accepted by io_submit
  offered,      \* length of the vector submit_requests was given
  events,       \* completions fetched and not yet processed
  inflight,     \* refine_aio's counter
  heap,         \* exact_top
  result,       \* what the last call that did not throw returned
  context,      \* capacity of the thread's AIO context, 0 when there is none
  kernel,       \* slots whose operation the kernel is executing
  ready         \* the completion queue: slots and whether the read was good

callVars == <<call, window, next_plan, files, heap, result>>
aioVars == <<slots, submissions, offered, events, inflight>>
kernelVars == <<context, kernel, ready>>
vars == <<pc, callVars, aioVars, kernelVars>>

(***************************************************************************)
(* build_read_plans: locations in (list, page) order; a location opens a   *)
(* plan unless its page is the last one of the current plan or follows it. *)
(* An item is the position of a record in the plan's buffer.               *)
(***************************************************************************)
Page(x) == x[2] \div RecordsPerPage
LastPage(plan) == plan.first + plan.pages - 1

\* Mutant: the first page of the plan stands for its last one.
SamePageFirst(plan, x) == x[1] = plan.list /\ Page(x) = plan.first
SamePage(plan, x) == x[1] = plan.list /\ Page(x) = LastPage(plan)
Adjacent(plan, x) == x[1] = plan.list /\ Page(x) = LastPage(plan) + 1

\* Mutant: a merged page does not lengthen the read.
PlanForStill(plans, x) ==
  IF plans # <<>> /\ (SamePage(Last(plans), x) \/ Adjacent(Last(plans), x))
  THEN plans
  ELSE Append(plans, [list |-> x[1], first |-> Page(x), pages |-> 1,
                      items |-> {}])

PlanFor(plans, x) ==
  IF plans # <<>> /\ SamePage(Last(plans), x) THEN plans
  ELSE IF plans # <<>> /\ Adjacent(Last(plans), x)
       THEN [plans EXCEPT ![Len(plans)].pages = @ + 1]
       ELSE Append(plans, [list |-> x[1], first |-> Page(x), pages |-> 1,
                           items |-> {}])

AddLocation(plans, x) ==
  LET grown == PlanFor(plans, x)
      item == (Page(x) - Last(grown).first) * RecordsPerPage
                + (x[2] % RecordsPerPage)
  IN  [grown EXCEPT ![Len(grown)].items = @ \cup {item}]

\* The order of the places. Within a page the code keeps that of the request,
\* which makes no difference: the items of a plan are a set.
Before(x, y) == x[1] < y[1] \/ (x[1] = y[1] /\ x[2] < y[2])

\* std::sort of distinct elements: each stands behind those that precede it.
Sorted(S, Less(_, _)) ==
  [n \in 1 .. Cardinality(S) |->
     CHOOSE x \in S : Cardinality({y \in S : Less(y, x)}) = n - 1]

BuildReadPlans(candidates) ==
  FoldLeft(AddLocation, <<>>, Sorted(candidates, Before))

\* distinct_lists
DistinctLists(plans) ==
  FoldLeft(LAMBDA ls, p : IF ls # <<>> /\ Last(ls) = p.list THEN ls
                          ELSE Append(ls, p.list), <<>>, plans)

(***************************************************************************)
(* exact_top: a heap bounded to TopK, worst on top by (distance, id); the  *)
(* place of a record stands for its ID.                                    *)
(***************************************************************************)
Neighbor(x) == <<Distance(x), x[1], x[2]>>
Better(m, n) ==
  \/ m[1] < n[1]
  \/ m[1] = n[1] /\ (m[2] < n[2] \/ (m[2] = n[2] /\ m[3] < n[3]))

\* Mutant: a full heap compares distances only.
InsertExactNoTies(h, n) ==
  IF Cardinality(h) < TopK THEN h \cup {n}
  ELSE IF \E w \in h : n[1] < w[1]
       THEN {m \in h \cup {n} : \E w \in h \cup {n} : Better(m, w)}
  ELSE h

InsertExact(h, n) ==
  IF Cardinality(h \cup {n}) <= TopK THEN h \cup {n}
  ELSE {m \in h \cup {n} : \E w \in h \cup {n} : Better(m, w)}

\* process_plan, on a buffer that holds the pages of plan `bytes`.
BytesAt(bytes, item) == <<bytes.list, bytes.first * RecordsPerPage + item>>
ProcessPlan(h, plan, bytes) ==
  FoldSet(LAMBDA item, acc : InsertExact(acc, Neighbor(BytesAt(bytes, item))),
          h, plan.items)

NoWindow == [list_begin |-> 0, list_end |-> 0,
             plan_begin |-> 0, plan_end |-> 0]
NoCall == [candidates |-> {}, depth |-> 0, limit |-> 0,
           plans |-> <<>>, lists |-> <<>>]

Init ==
  /\ pc = "idle" /\ call = NoCall /\ window = NoWindow
  /\ next_plan = 0 /\ files = {} /\ slots = <<>>
  /\ submissions = <<>> /\ offered = 0 /\ events = <<>> /\ inflight = 0
  /\ heap = {} /\ result = <<>>
  /\ context = 0 /\ kernel = {} /\ ready = <<>>

(***************************************************************************)
(* refine(): plans, the context, and the windows of at most limit files.   *)
(***************************************************************************)
\* Mutant: any context the thread has is good enough.
AcquiredOnce(depth) == IF depth > 1 /\ context = 0 THEN depth ELSE context

\* ThreadLocalAioContext::acquire: a context too small is replaced.
Acquired(depth) == IF depth > 1 /\ context < depth THEN depth ELSE context

StartCall ==
  /\ pc = "idle"
  /\ \E c \in Requests, o \in Options :
       LET plans == BuildReadPlans(c)
       IN  /\ call' = [candidates |-> c, depth |-> o[1], limit |-> o[2],
                       plans |-> plans, lists |-> DistinctLists(plans)]
           /\ context' = Acquired(o[1])
  /\ pc' = "open"
  /\ window' = NoWindow /\ heap' = {} /\ result' = <<>>
  /\ UNCHANGED <<aioVars, next_plan, files, kernel, ready>>

\* io_setup fails after the old context was reset.
AcquireFails ==
  /\ pc = "idle"
  /\ \E o \in Options : o[1] > 1 /\ context < o[1]
  /\ context' = 0
  /\ UNCHANGED <<pc, callVars, aioVars, kernel, ready>>

\* The thread ends: ~ThreadLocalAioContext.
ThreadEnds ==
  /\ pc = "idle" /\ context # 0
  /\ context' = 0
  /\ UNCHANGED <<pc, callVars, aioVars, kernel, ready>>

LowerOf(m, n) == IF m < n THEN m ELSE n

\* Mutant: list_begin is not moved on to list_end.
NextWindowStuck ==
  LET end == LowerOf(Len(call.lists), window.list_begin + call.limit)
      covered == {k \in DOMAIN call.plans :
                    call.plans[k].list <= call.lists[end]}
  IN  [list_begin |-> window.list_begin, list_end |-> end,
       plan_begin |-> window.plan_end, plan_end |-> Cardinality(covered)]

NextWindow ==
  LET end == LowerOf(Len(call.lists), window.list_end + call.limit)
      covered == {k \in DOMAIN call.plans :
                    call.plans[k].list <= call.lists[end]}
  IN  [list_begin |-> window.list_end, list_end |-> end,
       plan_begin |-> window.plan_end, plan_end |-> Cardinality(covered)]

\* open_files, then the start of refine_blocking or of refine_aio.
OpenFiles ==
  /\ pc = "open" /\ window.list_end < Len(call.lists)
  /\ window' = NextWindow
  /\ files' = {call.lists[k] :
                 k \in (NextWindow.list_begin + 1) .. NextWindow.list_end}
  /\ LET initial == LowerOf(call.depth,
                            NextWindow.plan_end - NextWindow.plan_begin)
     IN  IF call.depth = 1
         THEN /\ pc' = "blocking" /\ next_plan' = NextWindow.plan_begin + 1
              /\ UNCHANGED <<slots, submissions, offered>>
         ELSE /\ pc' = "submit"
              /\ next_plan' = NextWindow.plan_begin + initial + 1
              /\ slots' = [k \in 1 .. call.depth |->
                             [plan |-> IF k <= initial
                                       THEN NextWindow.plan_begin + k ELSE 0,
                              bytes |-> 0]]
              /\ submissions' = [k \in 1 .. initial |-> k]
              /\ offered' = initial
  /\ inflight' = 0
  /\ UNCHANGED <<kernelVars, call, events, heap, result>>

\* open_files closes what it has opened; the outer handler resets the context.
OpenFails ==
  /\ pc = "open" /\ window.list_end < Len(call.lists)
  /\ pc' = "rethrow"
  /\ UNCHANGED <<callVars, aioVars, kernelVars>>

\* The call is over and its locals are gone, but for what it was asked.
EndCall(candidates) ==
  /\ pc' = "idle"
  /\ call' = [NoCall EXCEPT !.candidates = candidates]
  /\ window' = NoWindow /\ next_plan' = 0 /\ heap' = {}

\* finish_topk
ReturnTopK ==
  /\ pc = "open" /\ window.list_end = Len(call.lists)
  /\ result' = Sorted(heap, Better)
  /\ EndCall(call.candidates)
  /\ UNCHANGED <<files, aioVars, kernelVars>>

(***************************************************************************)
(* refine_blocking: one pread per plan.                                    *)
(***************************************************************************)
BlockingRead ==
  /\ pc = "blocking" /\ next_plan <= window.plan_end
  /\ call.plans[next_plan].list \in files
  /\ heap' = ProcessPlan(heap, call.plans[next_plan], call.plans[next_plan])
  /\ next_plan' = next_plan + 1
  /\ UNCHANGED <<pc, aioVars, kernelVars, call, window, files, result>>

BlockingDone ==
  /\ pc = "blocking" /\ next_plan > window.plan_end
  /\ pc' = "close"
  /\ UNCHANGED <<callVars, aioVars, kernelVars>>

\* pread fails or is short, or the distance function returns an invalid value.
BlockingFails ==
  /\ pc = "blocking" /\ next_plan <= window.plan_end
  /\ pc' = "catch"
  /\ UNCHANGED <<callVars, aioVars, kernelVars>>

(***************************************************************************)
(* refine_aio.                                                             *)
(***************************************************************************)
\* Mutant: a short submission is resumed one request too early.
SubmitOverlap ==
  /\ pc = "submit" /\ submissions # <<>>
  /\ \E n \in 1 .. Len(submissions) :
       /\ kernel' = kernel \cup
            {[slot |-> s, plan |-> slots[s].plan] :
               s \in {submissions[k] : k \in 1 .. n}}
       /\ submissions' = SubSeq(submissions, n, Len(submissions))
  /\ UNCHANGED <<pc, callVars, slots, offered, events, inflight, context,
                 ready>>

\* io_submit accepts a non-empty prefix; the kernel reads the iocb, and with it
\* the plan, at this moment.
Submit ==
  /\ pc = "submit" /\ submissions # <<>>
  /\ \E n \in 1 .. Len(submissions) :
       /\ kernel' = kernel \cup
            {[slot |-> s, plan |-> slots[s].plan] :
               s \in {submissions[k] : k \in 1 .. n}}
       /\ submissions' = SubSeq(submissions, n + 1, Len(submissions))
  /\ UNCHANGED <<pc, callVars, slots, offered, events, inflight, context,
                 ready>>

SubmitDone ==
  /\ pc = "submit" /\ submissions = <<>>
  /\ inflight' = inflight + offered
  /\ offered' = 0
  /\ pc' = "wait"
  /\ UNCHANGED <<callVars, kernelVars, slots, submissions, events>>

\* io_getevents: at least one completion, oldest first.
GetEvents ==
  /\ pc = "wait" /\ inflight # 0 /\ ready # <<>>
  /\ \E n \in 1 .. LowerOf(Len(ready), call.depth) :
       /\ events' = SubSeq(ready, 1, n)
       /\ ready' = SubSeq(ready, n + 1, Len(ready))
  /\ pc' = "process"
  /\ UNCHANGED <<callVars, slots, submissions, offered, inflight, context,
                 kernel>>

\* One completion: process its records and refill its slot.
ProcessEvent ==
  /\ pc = "process" /\ events # <<>> /\ Head(events).good
  /\ LET s == Head(events).slot
     IN  /\ heap' = ProcessPlan(heap, call.plans[slots[s].plan],
                                call.plans[slots[s].bytes])
         /\ IF next_plan <= window.plan_end
            THEN /\ slots' = [slots EXCEPT ![s].plan = next_plan]
                 /\ submissions' = Append(submissions, s)
                 /\ next_plan' = next_plan + 1
            ELSE UNCHANGED <<slots, submissions, next_plan>>
  /\ inflight' = inflight - 1
  /\ events' = Tail(events)
  /\ UNCHANGED <<pc, kernelVars, call, window, files, offered, result>>

EventsDone ==
  /\ pc = "process" /\ events = <<>>
  /\ pc' = IF submissions = <<>> THEN "wait" ELSE "submit"
  /\ offered' = Len(submissions)
  /\ UNCHANGED <<callVars, kernelVars, slots, submissions, events, inflight>>

\* The window is done: refine_aio returns and its slots are destroyed.
WaitDone ==
  /\ pc = "wait" /\ inflight = 0
  /\ pc' = "close"
  /\ slots' = <<>>
  /\ UNCHANGED <<callVars, kernelVars, submissions, offered, events, inflight>>

\* An exception leaves refine_aio, whose slots and vectors are destroyed.
LeaveAio ==
  /\ pc' = "catch"
  /\ slots' = <<>> /\ submissions' = <<>> /\ offered' = 0 /\ events' = <<>>
  /\ inflight' = 0
  /\ UNCHANGED <<callVars, kernelVars>>

\* A completion reports an error or a short read.
BadEvent ==
  /\ pc = "process" /\ events # <<>> /\ ~Head(events).good
  /\ LeaveAio

\* io_submit or io_getevents fails, or the distance function does.
AioThrows ==
  /\ \/ pc = "submit" /\ submissions # <<>>
     \/ pc = "wait" /\ inflight # 0
     \/ pc = "process" /\ events # <<>> /\ Head(events).good
  /\ LeaveAio

(***************************************************************************)
(* The end of a window and the exceptional path.                           *)
(***************************************************************************)
CloseFiles ==
  /\ pc = "close"
  /\ files' = {}
  /\ pc' \in {"open", "catch"}
  /\ UNCHANGED <<aioVars, kernelVars, call, window, next_plan, heap, result>>

\* Mutant: operations are waited for, but the context and its queue stay.
ResetContextKept ==
  /\ kernel' = {}
  /\ UNCHANGED <<context, ready>>

\* io_destroy cancels or waits for every operation and drops its completions;
\* a call that reads with pread never acquired the context and leaves it alone.
ResetContext ==
  /\ context' = IF call.depth > 1 THEN 0 ELSE context
  /\ kernel' = IF call.depth > 1 THEN {} ELSE kernel
  /\ ready' = IF call.depth > 1 THEN <<>> ELSE ready

\* Mutant: the descriptors are closed before the context is destroyed.
CatchCloseFirst ==
  /\ pc = "catch"
  /\ files' = {}
  /\ pc' = "catchClose"
  /\ UNCHANGED <<kernelVars, aioVars, call, window, next_plan, heap, result>>

CatchDestroy ==
  /\ pc = "catch"
  /\ ResetContext
  /\ pc' = "catchClose"
  /\ UNCHANGED <<callVars, aioVars>>

CatchClose ==
  /\ pc = "catchClose"
  /\ files' = {}
  /\ pc' = "rethrow"
  /\ UNCHANGED <<aioVars, kernelVars, call, window, next_plan, heap, result>>

Rethrow ==
  /\ pc = "rethrow"
  /\ ResetContext
  /\ EndCall({})
  /\ UNCHANGED <<files, result, aioVars>>

(***************************************************************************)
(* The kernel finishes an operation: the bytes land in the slot's buffer,  *)
(* if it still exists, and a completion is queued.                         *)
(***************************************************************************)
KernelCompletes ==
  \E op \in kernel, good \in BOOLEAN :
    /\ kernel' = kernel \ {op}
    /\ ready' = Append(ready, [slot |-> op.slot, good |-> good])
    /\ slots' = IF op.slot \in DOMAIN slots
                THEN [slots EXCEPT ![op.slot].bytes = op.plan] ELSE slots
    /\ UNCHANGED <<pc, callVars, submissions, offered, events, inflight,
                   context>>

-----------------------------------------------------------------------------
\* What the code does on its own, and what the calls it makes may do to it.
CallStep ==
  \/ OpenFiles \/ ReturnTopK \/ BlockingRead \/ BlockingDone
  \/ Submit \/ SubmitDone \/ GetEvents \/ ProcessEvent \/ BadEvent
  \/ EventsDone \/ WaitDone \/ CloseFiles \/ CatchDestroy \/ CatchClose \/ Rethrow
CallFailure == OpenFails \/ BlockingFails \/ AioThrows

Next == \/ StartCall \/ AcquireFails \/ ThreadEnds
        \/ CallStep \/ CallFailure \/ KernelCompletes

Spec == Init /\ [][Next]_vars

\* The thread keeps running, and the kernel finishes what it has accepted;
\* nothing relies on a call to fail.
FairSpec == Spec /\ WF_vars(CallStep) /\ WF_vars(KernelCompletes)

-----------------------------------------------------------------------------
(***************************************************************************)
(* Properties.                                                             *)
(***************************************************************************)
\* Every variable stays in its domain.
TypeOK ==
  /\ pc \in {"idle", "open", "blocking", "submit", "wait", "process", "close",
             "catch", "catchClose", "rethrow"}
  /\ call.candidates \in Requests \cup {{}}
  /\ \A k \in DOMAIN call.plans :
       /\ call.plans[k].pages \in Nat \ {0}
       /\ call.plans[k].items \subseteq
            0 .. (call.plans[k].pages * RecordsPerPage - 1)
  /\ \A k \in DOMAIN slots : {slots[k].plan, slots[k].bytes} \subseteq
                               0 .. Len(call.plans)
  /\ \A k \in DOMAIN submissions : submissions[k] \in DOMAIN slots
  /\ inflight \in Nat /\ context \in Nat /\ offered \in Nat

\* build_read_plans reads the right bytes: following every item of every plan
\* back to its place gives each candidate exactly once, each page is asked for
\* once, and no two requests of a list touch, so none could have been merged.
PlansExact ==
  pc # "idle" =>
  LET used == UNION {{k} \X call.plans[k].items : k \in DOMAIN call.plans}
  IN  /\ {BytesAt(call.plans[x[1]], x[2]) : x \in used} = call.candidates
      /\ Cardinality(used) = Cardinality(call.candidates)
      /\ \A j, k \in DOMAIN call.plans :
           j < k /\ call.plans[j].list = call.plans[k].list =>
             LastPage(call.plans[j]) + 1 < call.plans[k].first
      /\ \A k \in DOMAIN call.plans :
           {call.plans[k].first + (i \div RecordsPerPage) :
              i \in call.plans[k].items}
             = call.plans[k].first .. LastPage(call.plans[k])

\* A call that returns delivers, in order, the TopK candidates closest by
\* (distance, place): whatever the order of the completions, however io_submit
\* split its batches, and however the lists were cut into windows.
ResultExact ==
  result # <<>> =>
    LET best == {Neighbor(x) : x \in call.candidates}
        kept == {result[k] : k \in DOMAIN result}
    IN  /\ Len(result) = TopK /\ kept \subseteq best
        /\ \A j, k \in DOMAIN result : j < k => Better(result[j], result[k])
        /\ \A m \in best \ kept : Better(result[TopK], m)

\* No descriptor is closed while an operation that references it may run.
FilesOutliveReads == \A op \in kernel : call.plans[op.plan].list \in files

\* "Only the empty completion-queue object survives between calls": also after
\* a call that threw with operations in flight, the next call finds neither an
\* operation, nor a completion, nor an open file of the earlier one.
ContextEmptyBetweenCalls ==
  pc \in {"idle", "open"} => kernel = {} /\ ready = <<>> /\ files = {}

\* The slots the kernel, the completion queue, the fetched events and the
\* unsubmitted requests refer to are all different, a slot is not prepared for
\* another plan before its completion is processed, and inflight counts them.
\* The wait for at least one completion therefore ends.
SlotsExclusive ==
  LET queued == [k \in DOMAIN ready |-> ready[k].slot]
      fetched == [k \in DOMAIN events |-> events[k].slot]
      waiting == queued \o fetched \o submissions
      busy == {op.slot : op \in kernel}
  IN  slots # <<>> =>
        /\ IsInjective(waiting)
        /\ busy \cap ToSet(waiting) = {}
        /\ Cardinality(busy) = Cardinality(kernel)
        /\ \A op \in kernel : slots[op.slot].plan = op.plan
        /\ \A s \in ToSet(queued) : slots[s].plan = slots[s].bytes
        /\ pc = "wait" => inflight = Cardinality(kernel) + Len(ready)

\* The kernel never holds more operations and completions than the capacity
\* the context was set up with, also when a larger one is reused.
WithinCapacity == Cardinality(kernel) + Len(ready) <= context

\* Every call returns or throws: a short submission or an odd batch of
\* completions never leaves the thread waiting for an event that cannot come.
CallReturns == pc # "idle" ~> pc = "idle"

\* The AIO lifetime contract on the exceptional path: what a submitted iocb
\* references, here its buffer, exists until io_destroy has waited for it.
BuffersOutliveReads == \A op \in kernel : op.slot \in DOMAIN slots
=============================================================================
