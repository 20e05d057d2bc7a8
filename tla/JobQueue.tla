------------------------------ MODULE JobQueue ------------------------------
(***************************************************************************)
(* The in-memory job queue (queue/memory-queue.ts) that a bot without      *)
(* separate services describes its media with: one timer, one job at a     *)
(* time, priorities, and retries that come back from a timer of their own. *)
(* The timers are what can go wrong: each tick must arm the next one.      *)
(***************************************************************************)
EXTENDS Integers, Sequences


CONSTANT MaxQueued \* bound: jobs ever enqueued

ASSUME QueueAssumption == MaxQueued \in Nat

VARIABLES
    lastQueued, \* number of jobs enqueued so far; a job is its number
    order,      \* the queue
    priority,   \* [job -> 0 low, 1 normal, 2 high]
    limit,      \* [job -> maxAttempts]
    tried,      \* [job -> attempts]
    waiter,     \* [job -> "none", "waiting", "resolved", "rejected"]
    handling,   \* the job whose handler runs, 0 for none (processing)
    delayed,    \* jobs whose retry timer runs
    armed,      \* the tick timer is set
    serving     \* "new", "running" or "stopped" (running; stop() is final)

queueVars == <<lastQueued, order, priority, limit, tried, waiter, handling, delayed, armed, serving>>

Queued == 1..MaxQueued

QueueInit ==
    /\ lastQueued = 0 /\ order = <<>>
    /\ priority = [j \in Queued |-> 1] /\ limit = [j \in Queued |-> 1]
    /\ tried = [j \in Queued |-> 0] /\ waiter = [j \in Queued |-> "none"]
    /\ handling = 0 /\ delayed = {} /\ armed = FALSE /\ serving = "new"

(* pushByPriority: behind the jobs of the same or a higher priority.       *)
Pushed(j, p) ==
    LET ahead == SelectSeq(order, LAMBDA k : p[k] >= p[j])
    IN  ahead \o <<j>> \o SelectSeq(order, LAMBDA k : p[k] < p[j])

Serving == serving = "running"
Arms == armed' = Serving

(* enqueue and enqueueAndWait, also before the queue is started.           *)
EnqueueJob(p, most, waits) ==
    /\ lastQueued < MaxQueued
    /\ lastQueued' = lastQueued + 1
    /\ priority' = [priority EXCEPT ![lastQueued'] = p]
    /\ limit' = [limit EXCEPT ![lastQueued'] = most]
    /\ waiter' = [waiter EXCEPT ![lastQueued'] = IF waits THEN "waiting" ELSE "none"]
    /\ order' = Pushed(lastQueued', priority')
    /\ IF handling = 0 THEN armed' = (armed \/ Serving) ELSE UNCHANGED armed
    /\ UNCHANGED <<tried, handling, delayed, serving>>

(* tick(): nothing while a handler runs; that handler's end ticks again.   *)
TickQueue ==
    /\ armed
    /\ IF handling # 0 THEN armed' = FALSE /\ UNCHANGED <<order, tried, handling>>
       ELSE IF order = <<>> THEN UNCHANGED <<armed, order, tried, handling>>
       ELSE /\ armed' = FALSE
            /\ order' = Tail(order)
            /\ handling' = Head(order)
            /\ tried' = [tried EXCEPT ![Head(order)] = @ + 1]
    /\ UNCHANGED <<lastQueued, priority, limit, waiter, delayed, serving>>

(* A job of a type nobody registered is rejected without an attempt.       *)
TickUnregistered ==
    /\ armed /\ handling = 0 /\ order # <<>>
    /\ order' = Tail(order)
    /\ waiter' = [waiter EXCEPT ![Head(order)] = IF @ = "waiting" THEN "rejected" ELSE @]
    /\ Arms
    /\ UNCHANGED <<lastQueued, priority, limit, tried, handling, delayed, serving>>

HandlerReturns ==
    /\ handling # 0
    /\ waiter' = [waiter EXCEPT ![handling] = IF @ = "waiting" THEN "resolved" ELSE @]
    /\ handling' = 0
    /\ Arms
    /\ UNCHANGED <<lastQueued, order, priority, limit, tried, delayed, serving>>

(* Seeded fault: a failure leaves the next tick to a retry or a new job.   *)
LeftToOthers == armed' = FALSE
ArmsAfterFailure == Arms

HandlerThrows ==
    /\ handling # 0
    /\ IF tried[handling] >= limit[handling]
       THEN /\ waiter' = [waiter EXCEPT ![handling] = IF @ = "waiting" THEN "rejected" ELSE @]
            /\ UNCHANGED delayed
       ELSE delayed' = delayed \cup {handling} /\ UNCHANGED waiter
    /\ handling' = 0
    /\ ArmsAfterFailure
    /\ UNCHANGED <<lastQueued, order, priority, limit, tried, serving>>

(* Five seconds later; a queue stopped by then forgets the job.            *)
RetryComesBack(j) ==
    /\ j \in delayed
    /\ delayed' = delayed \ {j}
    /\ order' = IF Serving THEN Pushed(j, priority) ELSE order
    /\ armed' = (armed \/ Serving)
    /\ UNCHANGED <<lastQueued, priority, limit, tried, waiter, handling, serving>>

(* index.ts starts the queue once, and stops it when the process ends.     *)
StartQueue ==
    /\ serving = "new"
    /\ serving' = "running" /\ armed' = TRUE
    /\ UNCHANGED <<lastQueued, order, priority, limit, tried, waiter, handling, delayed>>

StopQueue ==
    /\ Serving
    /\ serving' = "stopped" /\ armed' = FALSE
    /\ UNCHANGED <<lastQueued, order, priority, limit, tried, waiter, handling, delayed>>

QueueNext ==
    \/ \E p \in 0..2, most \in 1..2, waits \in BOOLEAN : EnqueueJob(p, most, waits)
    \/ TickQueue \/ TickUnregistered
    \/ HandlerReturns \/ HandlerThrows
    \/ \E j \in Queued : RetryComesBack(j)
    \/ StartQueue \/ StopQueue

-----------------------------------------------------------------------------
(* Whoever waits for a job of a queue that runs is answered, unless the    *)
(* queue is stopped first: after that nobody answers.                      *)
EveryWaiterAnswered ==
    \A j \in Queued :
        Serving /\ waiter[j] = "waiting" ~> waiter[j] # "waiting" \/ serving = "stopped"
=============================================================================
