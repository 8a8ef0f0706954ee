-------------------------- MODULE ControlledRunner --------------------------
(***************************************************************************)
(* ControlledRunner.kt: which of the blocks given to cancelPreviousThenRun *)
(* and joinPreviousOrRun runs. Callers are coroutines on any threads; each *)
(* access to the atomic reference activeTask is a step, and between a read *)
(* of it and the use of what was read everything else may happen.          *)
(*                                                                         *)
(* A task is a Deferred of kotlinx.coroutines, modelled by what the class  *)
(* relies on: it is created lazily as a child of its caller, starts when   *)
(* someone awaits it, and is final before its completion handler runs.     *)
(***************************************************************************)
EXTENDS Naturals, FiniteSets

CONSTANTS Calls,      \* calls; each creates at most one task, named like the call
          Cancelling, \* the calls of cancelPreviousThenRun; the others join
          NoTask

ASSUME RunnerAssumption == Cancelling \subseteq Calls /\ NoTask \notin Calls

VARIABLES
  activeTask,  \* the atomic reference
  pc,          \* where a call is
  seen,        \* the task it got from activeTask
  task,        \* the state of newTask of a call
  handled,     \* tasks whose completion handler has run
  gone,        \* calls whose coroutine was cancelled
  holder       \* history: the task that was put into activeTask last

vars == <<activeTask, pc, seen, task, handled, gone, holder>>

Final == {"done", "cancelled"}
Executing == {"running", "cancelling"}

Init ==
  /\ activeTask = NoTask
  /\ pc = [c \in Calls |-> "idle"]
  /\ seen = [c \in Calls |-> NoTask]
  /\ task = [c \in Calls |-> "none"]
  /\ handled = {} /\ gone = {} /\ holder = NoTask

Goto(c, l) == pc' = [pc EXCEPT ![c] = l]

\* Job.cancel() of a task: a lazy task that was not started is final at once.
Cancelled == [none |-> "none", new |-> "cancelled", running |-> "cancelling",
              cancelling |-> "cancelling", done |-> "done", cancelled |-> "cancelled"]

cancelTask(t) == task' = [task EXCEPT ![t] = Cancelled[@]]

-----------------------------------------------------------------------------
(* The two functions. *)

\* The fast path: activeTask.get()
call(c) ==
  /\ pc[c] = "idle"
  /\ seen' = [seen EXCEPT ![c] = activeTask]
  /\ Goto(c, IF activeTask = NoTask THEN "create"
             ELSE IF c \in Cancelling THEN "cancel" ELSE "awaitOther")
  /\ UNCHANGED <<activeTask, task, handled, gone, holder>>

\* cancelAndJoin() of the task found: cancel ...
cancelSeen(c) ==
  /\ pc[c] = "cancel"
  /\ cancelTask(seen[c]) /\ Goto(c, "join")
  /\ UNCHANGED <<activeTask, seen, handled, gone, holder>>

\* ... and wait for its end; the caller goes on to create its task, or (after yield) round the
\* loop. A caller that was cancelled gets an exception.
joined(c) ==
  /\ pc[c] = "join"
  /\ c \in gone \/ task[seen[c]] \in Final
  /\ Goto(c, IF c \in gone THEN "end" ELSE IF task[c] = "none" THEN "create" ELSE "cas")
  /\ UNCHANGED <<activeTask, seen, task, handled, gone, holder>>

\* async(start = LAZY) and invokeOnCompletion; the child of a cancelled scope is cancelled.
create(c) ==
  /\ pc[c] = "create"
  /\ task' = [task EXCEPT ![c] = IF c \in gone THEN "cancelled" ELSE "new"]
  /\ handled' = IF c \in gone THEN handled \cup {c} ELSE handled
  /\ Goto(c, "cas")
  /\ UNCHANGED <<activeTask, seen, gone, holder>>

\* A mutant: a call that finds another task gives up.
casLosesGivesUp(c) ==
  /\ pc[c] = "cas" /\ activeTask # NoTask
  /\ Goto(c, "end")
  /\ UNCHANGED <<activeTask, seen, task, handled, gone, holder>>

\* activeTask.compareAndSet(null, newTask)
casWins(c) ==
  /\ pc[c] = "cas" /\ activeTask = NoTask
  /\ activeTask' = c /\ holder' = c
  /\ Goto(c, "await")
  /\ UNCHANGED <<seen, task, handled, gone>>

casLoses(c) ==
  /\ pc[c] = "cas" /\ activeTask # NoTask
  /\ Goto(c, "get")
  /\ UNCHANGED <<activeTask, seen, task, handled, gone, holder>>

\* A mutant: activeTask is expected to be set because compareAndSet has failed.
getAgainUnchecked(c) ==
  /\ pc[c] = "get"
  /\ seen' = [seen EXCEPT ![c] = activeTask]
  /\ IF c \in Cancelling THEN Goto(c, "cancel") /\ task' = task
     ELSE Goto(c, "awaitOther") /\ cancelTask(c)
  /\ UNCHANGED <<activeTask, handled, gone, holder>>

\* activeTask.get() in the loop: nothing any more (yield and try again), or a task to cancel,
\* or one to join, for which the own one is given up.
getAgain(c) ==
  /\ pc[c] = "get"
  /\ seen' = [seen EXCEPT ![c] = activeTask]
  /\ \/ /\ activeTask = NoTask
        /\ Goto(c, IF c \in gone THEN "end" ELSE "cas") /\ task' = task
     \/ /\ activeTask # NoTask /\ c \in Cancelling
        /\ Goto(c, "cancel") /\ task' = task
     \/ /\ activeTask # NoTask /\ c \notin Cancelling
        /\ Goto(c, "awaitOther") /\ cancelTask(c)
  /\ UNCHANGED <<activeTask, handled, gone, holder>>

\* await() starts the own task, or the one of another call that has not come to it yet.
start(c) ==
  \E t \in Calls :
    /\ (pc[c] = "await" /\ t = c) \/ (pc[c] = "awaitOther" /\ t = seen[c])
    /\ task[t] = "new"
    /\ task' = [task EXCEPT ![t] = "running"]
    /\ UNCHANGED <<activeTask, pc, seen, handled, gone, holder>>

\* The own task ended; the scope waits for it even if the caller was cancelled.
awaited(c) ==
  /\ pc[c] = "await" /\ task[c] \in Final
  /\ Goto(c, "end")
  /\ UNCHANGED <<activeTask, seen, task, handled, gone, holder>>

\* The task of another call ended.
awaitedOther(c) ==
  /\ pc[c] = "awaitOther"
  /\ c \in gone \/ task[seen[c]] \in Final
  /\ Goto(c, "end")
  /\ UNCHANGED <<activeTask, seen, task, handled, gone, holder>>

-----------------------------------------------------------------------------
(* Tasks and the world outside. *)

\* The block returns or throws.
finish(t) ==
  /\ task[t] \in Executing
  /\ task' = [task EXCEPT ![t] = IF @ = "running" THEN "done" ELSE "cancelled"]
  /\ UNCHANGED <<activeTask, pc, seen, handled, gone, holder>>

\* Mutants of the completion handler: activeTask.set(null); no handler.
onCompletionResets(t) ==
  /\ task[t] \in Final /\ t \notin handled
  /\ handled' = handled \cup {t}
  /\ activeTask' = NoTask
  /\ UNCHANGED <<pc, seen, task, gone, holder>>

onCompletionForgets(t) ==
  /\ task[t] \in Final /\ t \notin handled
  /\ handled' = handled \cup {t}
  /\ UNCHANGED <<activeTask, pc, seen, task, gone, holder>>

\* invokeOnCompletion { activeTask.compareAndSet(newTask, null) }
onCompletion(t) ==
  /\ task[t] \in Final /\ t \notin handled
  /\ handled' = handled \cup {t}
  /\ activeTask' = IF activeTask = t THEN NoTask ELSE activeTask
  /\ UNCHANGED <<pc, seen, task, gone, holder>>

\* The coroutine of a caller is cancelled, and its task with it.
cancelCaller(c) ==
  /\ pc[c] # "end" /\ c \notin gone
  /\ gone' = gone \cup {c}
  /\ cancelTask(c)
  /\ UNCHANGED <<activeTask, pc, seen, handled, holder>>

Step(c) == cancelSeen(c) \/ joined(c) \/ create(c) \/ casWins(c) \/ casLoses(c) \/ getAgain(c)
           \/ start(c) \/ awaited(c) \/ awaitedOther(c)

Next == \E c \in Calls : call(c) \/ Step(c) \/ finish(c) \/ onCompletion(c) \/ cancelCaller(c)

\* Coroutines run, blocks end, completion handlers run. Nobody has to call or to be cancelled.
Fairness == \A c \in Calls : WF_vars(Step(c)) /\ WF_vars(finish(c)) /\ WF_vars(onCompletion(c))

Spec == Init /\ [][Next]_vars

LiveSpec == Spec /\ Fairness

Slot == INSTANCE TaskSlot WITH
          running <- {c \in Calls : task[c] \in Executing},
          fresh <- {c \in Calls : task[c] \in {"none", "new"}}

-----------------------------------------------------------------------------
(* Properties. *)

TypeOK ==
  /\ activeTask \in Calls \cup {NoTask}
  /\ pc \in [Calls -> {"idle", "cancel", "join", "create", "cas", "get", "await", "awaitOther",
                       "end"}]
  /\ seen \in [Calls -> Calls \cup {NoTask}]
  /\ \A c \in Calls : pc[c] \in {"cancel", "join", "awaitOther"} => seen[c] # NoTask
  /\ task \in [Calls -> {"none", "new"} \cup Executing \cup Final]
  /\ handled \subseteq Calls /\ gone \subseteq Calls
  /\ holder \in Calls \cup {NoTask}

\* "only one will run": the runner implements a slot for one block, although any awaiting caller
\* may start the task and a caller acts on a task it read from activeTask some time ago.
OneAtATime == Slot!Spec

Quiet == \A c \in Calls : pc[c] \in {"idle", "end"}

\* The last task put into activeTask is not a victim: a task is cancelled only for the sake of
\* a call that still takes its place (as long as no caller is cancelled itself), so that when
\* all calls have ended the last block has run to its end.
LastWins == Quiet /\ gone = {} /\ holder # NoTask => task[holder] = "done"

\* No caller is left behind: every call ends, as long as no caller is cancelled.
CallsEnd == \A c \in Calls : pc[c] # "idle" ~> (pc[c] = "end" \/ gone # {})
=============================================================================
