---------------------------- MODULE RunnerProofs ----------------------------
(***************************************************************************)
(* For any number of calls: ControlledRunner implements TaskSlot, and the  *)
(* last task put into activeTask runs to its end.                          *)
(***************************************************************************)
EXTENDS ControlledRunner, TLAPS

\* What keeps blocks apart: whoever may start, cancel or await a task that is not final yet
\* holds the task that is in activeTask.
Occupied ==
  /\ \A c \in Calls : task[c] \in Executing => activeTask = c
  /\ \A c \in Calls : seen[c] # NoTask /\ task[seen[c]] \notin Final => activeTask = seen[c]
  /\ \A c \in Calls : pc[c] = "await" /\ task[c] \notin Final => activeTask = c

\* Which calls have a task.
Created ==
  /\ activeTask # NoTask => task[activeTask] # "none"
  /\ \A c \in Calls : pc[c] \in {"idle", "create"} => task[c] = "none"
  /\ \A c \in Calls : pc[c] \in {"cas", "get", "await"} => task[c] # "none"

\* The call whose task was put into activeTask last waits for it or has ended.
HolderWaits ==
  /\ activeTask \in {NoTask, holder}
  /\ holder # NoTask => /\ pc[holder] \in {"await", "end"}
                        /\ pc[holder] = "end" => task[holder] \in Final

OnItsWay(c) == c \in Cancelling /\ pc[c] \in {"cancel", "join", "create", "cas", "get"}

\* Who is cancelled, as long as no caller is.
Victims ==
  /\ \A c \in Calls : pc[c] \in {"cancel", "join"} => c \in Cancelling
  /\ gone = {} =>
       /\ \A c \in Calls : pc[c] \in {"cancel", "join", "cas", "get"} => task[c] \in {"none", "new"}
       /\ holder # NoTask /\ task[holder] \in {"cancelling", "cancelled"}
            => \E c \in Calls : OnItsWay(c)

Inv == TypeOK /\ Occupied /\ Created

WinInv == HolderWaits /\ Victims

States == {"none", "new", "running", "cancelling", "done", "cancelled"}

\* Job.cancel() of a task as the code relies on it.
LEMMA CancelEffect ==
  ASSUME NEW s \in States
  PROVE  /\ Cancelled[s] \in States
         /\ s = "none" <=> Cancelled[s] = "none"
         /\ s \in Final => Cancelled[s] = s
         /\ Cancelled[s] \in Executing <=> s \in Executing
         /\ Cancelled[s] \in {"none", "new"} => Cancelled[s] = s
         /\ s \notin {"none", "new"} => Cancelled[s] \notin {"none", "new"}
         /\ s \notin Final => Cancelled[s] \in {"none", "cancelling", "cancelled"}
         /\ Cancelled[s] = "done" => s = "done"
BY DEF States, Cancelled, Final, Executing

-----------------------------------------------------------------------------
LEMMA InitInv == Init => Inv /\ WinInv
BY RunnerAssumption
   DEF Init, Inv, WinInv, TypeOK, Occupied, Created, HolderWaits, Victims, Final, Executing

USE DEF Final, Executing

\* The steps that change no task and not activeTask.
LEMMA QuietStep ==
  ASSUME Inv, NEW c \in Calls,
         call(c) \/ joined(c) \/ casLoses(c) \/ awaited(c) \/ awaitedOther(c)
  PROVE  Inv' /\ task' = task
<1>1. CASE call(c)
  <2>1. TypeOK' BY <1>1 DEF call, Inv, TypeOK, Goto
  <2>2. Occupied' BY <1>1 DEF call, Inv, TypeOK, Occupied, Goto
  <2>3. Created' BY <1>1 DEF call, Inv, TypeOK, Created, Goto
  <2>4. QED BY <1>1, <2>1, <2>2, <2>3 DEF call, Inv
<1>2. CASE joined(c)
  <2>1. TypeOK' BY <1>2 DEF joined, Inv, TypeOK, Goto
  <2>2. Occupied' BY <1>2 DEF joined, Inv, TypeOK, Occupied, Goto
  <2>3. Created' BY <1>2 DEF joined, Inv, TypeOK, Created, Goto
  <2>4. QED BY <1>2, <2>1, <2>2, <2>3 DEF joined, Inv
<1>3. CASE casLoses(c)
  BY <1>3 DEF casLoses, Inv, TypeOK, Occupied, Created, Goto
<1>4. CASE awaited(c)
  BY <1>4 DEF awaited, Inv, TypeOK, Occupied, Created, Goto
<1>5. CASE awaitedOther(c)
  BY <1>5 DEF awaitedOther, Inv, TypeOK, Occupied, Created, Goto
<1>6. QED BY <1>1, <1>2, <1>3, <1>4, <1>5

\* Cancelling a task, whatever else a step does to a call that does not await its own task.
LEMMA CancelStep ==
  ASSUME Inv, NEW t \in Calls, cancelTask(t), activeTask' = activeTask,
         TypeOK', seen' = seen \/ \E c \in Calls : seen' = [seen EXCEPT ![c] = activeTask],
         \A d \in Calls : pc'[d] = pc[d] \/ (pc[d] \in {"cancel", "get"}
                                             /\ pc'[d] \in {"join", "awaitOther"})
  PROVE  Inv'
<1>1. \A d \in Calls : task[d] \in States BY DEF Inv, TypeOK, States
<1>2. \A d \in Calls : task'[d] = IF d = t THEN Cancelled[task[d]] ELSE task[d]
  BY DEF cancelTask, Inv, TypeOK
<1>3. \A d \in Calls : /\ task[d] \in Final => task'[d] \in Final
                       /\ task'[d] \in Executing => task[d] \in Executing
                       /\ task'[d] = "none" <=> task[d] = "none"
  BY <1>1, <1>2, CancelEffect
<1>4. Occupied' BY <1>3 DEF Occupied, Inv, TypeOK
<1>5. Created' BY <1>3 DEF Created, Inv, TypeOK
<1>6. QED BY <1>4, <1>5 DEF Inv

LEMMA TypeOfCancel ==
  ASSUME TypeOK, NEW t \in Calls, cancelTask(t)
  PROVE  task' \in [Calls -> {"none", "new"} \cup Executing \cup Final]
<1>1. task[t] \in States BY DEF TypeOK, States
<1>2. Cancelled[task[t]] \in States BY <1>1, CancelEffect
<1>3. QED BY <1>2 DEF cancelTask, TypeOK, States

LEMMA NextInv == Inv /\ [Next]_vars => Inv'
<1> SUFFICES ASSUME Inv, [Next]_vars PROVE Inv'
  OBVIOUS
<1>1. CASE UNCHANGED vars
  BY <1>1 DEF vars, Inv, TypeOK, Occupied, Created
<1>2. ASSUME NEW c \in Calls, cancelSeen(c) PROVE Inv'
  <2>1. seen[c] \in Calls BY <1>2 DEF cancelSeen, Inv, TypeOK
  <2>2. TypeOK'
    <3>1. task' \in [Calls -> {"none", "new"} \cup Executing \cup Final]
      BY <1>2, <2>1, TypeOfCancel DEF cancelSeen, Inv
    <3>2. QED BY <1>2, <3>1 DEF cancelSeen, Goto, Inv, TypeOK
  <2>3. \A d \in Calls : pc'[d] = pc[d] \/ (pc[d] \in {"cancel", "get"}
                                            /\ pc'[d] \in {"join", "awaitOther"})
    BY <1>2 DEF cancelSeen, Goto, Inv, TypeOK
  <2>4. QED BY <1>2, <2>1, <2>2, <2>3, CancelStep DEF cancelSeen
<1>3. ASSUME NEW c \in Calls, create(c) PROVE Inv'
  <2>1. task[c] = "none" BY <1>3 DEF create, Inv, Created
  <2>2. TypeOK' BY <1>3 DEF create, Goto, Inv, TypeOK
  <2>3. activeTask # c BY <2>1, RunnerAssumption DEF Inv, Created
  <2>4. Occupied' BY <1>3, <2>1, <2>3 DEF create, Goto, Inv, TypeOK, Occupied
  <2>5. Created' BY <1>3, <2>1, <2>3 DEF create, Goto, Inv, TypeOK, Created
  <2>6. QED BY <2>2, <2>4, <2>5 DEF Inv
<1>4. ASSUME NEW c \in Calls, casWins(c) PROVE Inv'
  <2>1. TypeOK' BY <1>4 DEF casWins, Goto, Inv, TypeOK
  <2>2. Occupied' BY <1>4, RunnerAssumption DEF casWins, Goto, Inv, TypeOK, Occupied
  <2>3. Created' BY <1>4 DEF casWins, Goto, Inv, TypeOK, Created
  <2>4. QED BY <2>1, <2>2, <2>3 DEF Inv
<1>5. ASSUME NEW c \in Calls, getAgain(c) PROVE Inv'
  <2>1. CASE task' = task
    <3>1. TypeOK' BY <1>5, <2>1 DEF getAgain, Goto, cancelTask, Inv, TypeOK
    <3>2. Occupied' BY <1>5, <2>1 DEF getAgain, Goto, Inv, TypeOK, Occupied
    <3>3. Created' BY <1>5, <2>1 DEF getAgain, Goto, Inv, TypeOK, Created
    <3>4. QED BY <3>1, <3>2, <3>3 DEF Inv
  <2>2. CASE activeTask # NoTask /\ Goto(c, "awaitOther") /\ cancelTask(c)
    <3>1. task' \in [Calls -> {"none", "new"} \cup Executing \cup Final]
      BY <2>2, TypeOfCancel DEF Inv
    <3>2. TypeOK' BY <1>5, <2>2, <3>1 DEF getAgain, Goto, Inv, TypeOK
    <3>3. \A d \in Calls : pc'[d] = pc[d] \/ (pc[d] \in {"cancel", "get"}
                                              /\ pc'[d] \in {"join", "awaitOther"})
      BY <1>5, <2>2 DEF getAgain, Goto, Inv, TypeOK
    <3>4. QED BY <1>5, <2>2, <3>2, <3>3, CancelStep DEF getAgain
  <2>3. QED BY <1>5, <2>1, <2>2 DEF getAgain
<1>6. ASSUME NEW c \in Calls, start(c) PROVE Inv'
  <2>1. PICK t \in Calls : /\ (pc[c] = "await" /\ t = c) \/ (pc[c] = "awaitOther" /\ t = seen[c])
                           /\ task[t] = "new" /\ task' = [task EXCEPT ![t] = "running"]
                           /\ UNCHANGED <<activeTask, pc, seen, handled, gone, holder>>
    BY <1>6 DEF start
  <2>2. activeTask = t BY <2>1, RunnerAssumption DEF Inv, Occupied
  <2>3. TypeOK' BY <2>1 DEF Inv, TypeOK
  <2>4. Occupied' BY <2>1, <2>2 DEF Inv, TypeOK, Occupied
  <2>5. Created' BY <2>1 DEF Inv, TypeOK, Created
  <2>6. QED BY <2>3, <2>4, <2>5 DEF Inv
<1>7. ASSUME NEW t \in Calls, finish(t) PROVE Inv'
  BY <1>7 DEF finish, Inv, TypeOK, Occupied, Created
<1>8. ASSUME NEW t \in Calls, onCompletion(t) PROVE Inv'
  <2>1. TypeOK' BY <1>8 DEF onCompletion, Inv, TypeOK
  <2>2. Occupied' BY <1>8 DEF onCompletion, Inv, TypeOK, Occupied
  <2>3. Created' BY <1>8 DEF onCompletion, Inv, TypeOK, Created
  <2>4. QED BY <2>1, <2>2, <2>3 DEF Inv
<1>9. ASSUME NEW c \in Calls, cancelCaller(c) PROVE Inv'
  <2>1. task' \in [Calls -> {"none", "new"} \cup Executing \cup Final]
    BY <1>9, TypeOfCancel DEF cancelCaller, Inv
  <2>2. TypeOK' BY <1>9, <2>1 DEF cancelCaller, Inv, TypeOK
  <2>3. QED BY <1>9, <2>2, CancelStep DEF cancelCaller
<1>10. QED BY <1>1, <1>2, <1>3, <1>4, <1>5, <1>6, <1>7, <1>8, <1>9, QuietStep DEF Next, Step

\* Type correctness for any calls of both functions, with any of their callers cancelled.
THEOREM TypeCorrect == Spec => []TypeOK
<1>1. Init => Inv BY InitInv
<1>2. Inv /\ [Next]_vars => Inv' BY NextInv
<1>3. Inv => TypeOK BY DEF Inv
<1>4. QED BY <1>1, <1>2, <1>3, PTL DEF Spec

-----------------------------------------------------------------------------
(* The refinement: every step starts, ends or gives up one block, or none. *)

Running == {c \in Calls : task[c] \in Executing}
Fresh == {c \in Calls : task[c] \in {"none", "new"}}

\* A step that changes at most the task of t, and does not start it.
LEMMA OtherTasks ==
  ASSUME Inv, NEW t \in Calls, NEW s \in States,
         task' = [task EXCEPT ![t] = s],
         task[t] \in Executing <=> s \in Executing,
         s \in {"none", "new"} => task[t] \in {"none", "new"}
  PROVE  Slot!Next \/ UNCHANGED Slot!vars
<1>1. Running' = Running BY DEF Running, Inv, TypeOK
<1>2. CASE s \in {"none", "new"} \/ task[t] \notin {"none", "new"}
  <2>1. Fresh' = Fresh BY <1>2 DEF Fresh, Inv, TypeOK
  <2>2. QED BY <1>1, <2>1 DEF Slot!vars, Running, Fresh
<1>3. CASE s \notin {"none", "new"} /\ task[t] \in {"none", "new"}
  <2>1. Fresh' = Fresh \ {t} /\ t \in Fresh BY <1>3 DEF Fresh, Inv, TypeOK
  <2>2. QED BY <1>1, <2>1 DEF Slot!Next, Slot!GiveUp, Running, Fresh
<1>4. QED BY <1>2, <1>3

LEMMA CancelRefines ==
  ASSUME Inv, NEW t \in Calls, cancelTask(t)
  PROVE  Slot!Next \/ UNCHANGED Slot!vars
<1>1. task[t] \in States BY DEF Inv, TypeOK, States
<1>2. task' = [task EXCEPT ![t] = Cancelled[task[t]]] BY DEF cancelTask
<1>3. QED BY <1>1, <1>2, CancelEffect, OtherTasks

LEMMA SameTasks ==
  ASSUME task' = task
  PROVE  UNCHANGED Slot!vars
BY DEF Slot!vars

LEMMA NextRefines == Inv /\ [Next]_vars => [Slot!Next]_(Slot!vars)
<1> SUFFICES ASSUME Inv, [Next]_vars PROVE Slot!Next \/ UNCHANGED Slot!vars
  OBVIOUS
<1>1. CASE UNCHANGED vars
  BY <1>1, SameTasks DEF vars
<1>2. ASSUME NEW c \in Calls, cancelSeen(c) PROVE Slot!Next \/ UNCHANGED Slot!vars
  <2>1. seen[c] \in Calls BY <1>2 DEF cancelSeen, Inv, TypeOK
  <2>2. QED BY <1>2, <2>1, CancelRefines DEF cancelSeen
<1>3. ASSUME NEW c \in Calls, create(c) PROVE Slot!Next \/ UNCHANGED Slot!vars
  <2>1. task[c] = "none" BY <1>3 DEF create, Inv, Created
  <2>2. PICK s \in {"new", "cancelled"} : task' = [task EXCEPT ![c] = s] BY <1>3 DEF create
  <2>3. QED BY <2>1, <2>2, OtherTasks DEF States
<1>4. ASSUME NEW c \in Calls, casWins(c) PROVE Slot!Next \/ UNCHANGED Slot!vars
  BY <1>4, SameTasks DEF casWins
<1>5. ASSUME NEW c \in Calls, getAgain(c) PROVE Slot!Next \/ UNCHANGED Slot!vars
  BY <1>5, SameTasks, CancelRefines DEF getAgain
<1>6. ASSUME NEW c \in Calls, start(c) PROVE Slot!Next \/ UNCHANGED Slot!vars
  <2>1. PICK t \in Calls : /\ (pc[c] = "await" /\ t = c) \/ (pc[c] = "awaitOther" /\ t = seen[c])
                           /\ task[t] = "new" /\ task' = [task EXCEPT ![t] = "running"]
    BY <1>6 DEF start
  <2>2. activeTask = t BY <2>1, RunnerAssumption DEF Inv, Occupied
  <2>3. Running = {} BY <2>1, <2>2 DEF Running, Inv, Occupied
  <2>4. Running' = {t} BY <2>1, <2>3 DEF Running, Inv, TypeOK
  <2>5. t \in Fresh /\ Fresh' = Fresh \ {t} BY <2>1 DEF Fresh, Inv, TypeOK
  <2>6. QED BY <2>3, <2>4, <2>5 DEF Slot!Next, Slot!Begin, Running, Fresh
<1>7. ASSUME NEW t \in Calls, finish(t) PROVE Slot!Next \/ UNCHANGED Slot!vars
  <2>1. \A d \in Calls : task[d] \in Executing => d = t
    BY <1>7 DEF finish, Inv, Occupied
  <2>2. Running' = {} BY <1>7, <2>1 DEF finish, Running, Inv, TypeOK
  <2>3. Fresh' = Fresh BY <1>7 DEF finish, Fresh, Inv, TypeOK
  <2>4. QED BY <2>2, <2>3 DEF Slot!Next, Slot!Finish, Running, Fresh
<1>8. ASSUME NEW t \in Calls, onCompletion(t) PROVE Slot!Next \/ UNCHANGED Slot!vars
  BY <1>8, SameTasks DEF onCompletion
<1>9. ASSUME NEW c \in Calls, cancelCaller(c) PROVE Slot!Next \/ UNCHANGED Slot!vars
  BY <1>9, CancelRefines DEF cancelCaller
<1>10. ASSUME NEW c \in Calls,
              call(c) \/ joined(c) \/ casLoses(c) \/ awaited(c) \/ awaitedOther(c)
       PROVE  Slot!Next \/ UNCHANGED Slot!vars
  BY <1>10, QuietStep, SameTasks
<1>11. QED BY <1>1, <1>2, <1>3, <1>4, <1>5, <1>6, <1>7, <1>8, <1>9, <1>10 DEF Next, Step

\* "only one will run": ControlledRunner implements a slot for one block, for any number of
\* calls of both functions on any threads and whichever callers are cancelled.
THEOREM RunnerIsASlot == Spec => OneAtATime
<1>1. Init => Inv BY InitInv
<1>2. Inv /\ [Next]_vars => Inv' BY NextInv
<1>3. Init => Slot!Init
  BY DEF Init, Slot!Init
<1>4. Inv /\ [Next]_vars => [Slot!Next]_(Slot!vars) BY NextRefines
<1>5. QED BY <1>1, <1>2, <1>3, <1>4, PTL DEF Spec, OneAtATime, Slot!Spec

-----------------------------------------------------------------------------
(* The last task runs to its end. *)

LEMMA NextHolder == Inv /\ HolderWaits /\ [Next]_vars => HolderWaits'
<1> SUFFICES ASSUME Inv, HolderWaits, [Next]_vars PROVE HolderWaits'
  OBVIOUS
<1> USE RunnerAssumption DEF HolderWaits, Inv, TypeOK
<1>1. CASE UNCHANGED vars BY <1>1 DEF vars
<1>2. ASSUME NEW t \in Calls, cancelTask(t)
      PROVE  \A d \in Calls : task[d] \in Final => task'[d] \in Final
  <2>1. \A d \in Calls : task'[d] = IF d = t THEN Cancelled[task[d]] ELSE task[d]
    BY <1>2 DEF cancelTask
  <2>2. \A d \in Calls : task[d] \in States BY DEF States
  <2>3. QED BY <2>1, <2>2, CancelEffect
<1>3. ASSUME NEW c \in Calls, call(c) PROVE HolderWaits' BY <1>3 DEF call, Goto
<1>4. ASSUME NEW c \in Calls, cancelSeen(c) PROVE HolderWaits'
  <2>1. seen[c] \in Calls BY <1>4 DEF cancelSeen
  <2>2. QED BY <1>2, <1>4, <2>1 DEF cancelSeen, Goto
<1>5. ASSUME NEW c \in Calls, joined(c) PROVE HolderWaits' BY <1>5 DEF joined, Goto
<1>6. ASSUME NEW c \in Calls, create(c) PROVE HolderWaits' BY <1>6 DEF create, Goto
<1>7. ASSUME NEW c \in Calls, casWins(c) PROVE HolderWaits' BY <1>7 DEF casWins, Goto
<1>8. ASSUME NEW c \in Calls, casLoses(c) PROVE HolderWaits' BY <1>8 DEF casLoses, Goto
<1>9. ASSUME NEW c \in Calls, getAgain(c) PROVE HolderWaits'
  BY <1>2, <1>9 DEF getAgain, Goto
<1>10. ASSUME NEW c \in Calls, start(c) PROVE HolderWaits' BY <1>10 DEF start
<1>11. ASSUME NEW c \in Calls, awaited(c) PROVE HolderWaits' BY <1>11 DEF awaited, Goto
<1>12. ASSUME NEW c \in Calls, awaitedOther(c) PROVE HolderWaits'
  BY <1>12 DEF awaitedOther, Goto
<1>13. ASSUME NEW t \in Calls, finish(t) PROVE HolderWaits' BY <1>13 DEF finish
<1>14. ASSUME NEW t \in Calls, onCompletion(t) PROVE HolderWaits' BY <1>14 DEF onCompletion
<1>15. ASSUME NEW c \in Calls, cancelCaller(c) PROVE HolderWaits'
  BY <1>2, <1>15 DEF cancelCaller
<1>16. QED BY <1>1, <1>3, <1>4, <1>5, <1>6, <1>7, <1>8, <1>9, <1>10, <1>11, <1>12, <1>13,
              <1>14, <1>15 DEF Next, Step

LEMMA NextVictims == Inv /\ WinInv /\ [Next]_vars => Victims'
<1> SUFFICES ASSUME Inv, WinInv, [Next]_vars PROVE Victims'
  OBVIOUS
<1> USE RunnerAssumption DEF WinInv, Victims, OnItsWay, Inv, TypeOK
<1>1. CASE UNCHANGED vars BY <1>1 DEF vars
<1>2. ASSUME NEW c \in Calls, call(c) PROVE Victims' BY <1>2 DEF call, Goto, HolderWaits, Created
<1>3. ASSUME NEW c \in Calls, cancelSeen(c) PROVE Victims'
  <2>1. seen[c] \in Calls BY <1>3 DEF cancelSeen
  <2>2. OnItsWay(c)' BY <1>3 DEF cancelSeen, Goto
  <2>3. \A d \in Calls : task'[d] # task[d] => d = holder
    <3>1. task[seen[c]] \in Final => task' = task
      <4>1. task[seen[c]] \in Final => Cancelled[task[seen[c]]] = task[seen[c]]
        BY <2>1, CancelEffect DEF States
      <4>2. QED BY <1>3, <2>1, <4>1 DEF cancelSeen, cancelTask
    <3>2. task[seen[c]] \notin Final => seen[c] = holder
      BY <2>1 DEF Occupied, HolderWaits
    <3>3. QED BY <1>3, <2>1, <3>1, <3>2 DEF cancelSeen, cancelTask
  <2>4. QED BY <1>3, <2>1, <2>2, <2>3 DEF cancelSeen, Goto, HolderWaits
<1>4. ASSUME NEW c \in Calls, joined(c) PROVE Victims' BY <1>4 DEF joined, Goto
<1>5. ASSUME NEW c \in Calls, create(c) PROVE Victims'
  BY <1>5 DEF create, Goto, HolderWaits, Created
<1>6. ASSUME NEW c \in Calls, casWins(c) PROVE Victims' BY <1>6 DEF casWins, Goto
<1>7. ASSUME NEW c \in Calls, casLoses(c) PROVE Victims' BY <1>7 DEF casLoses, Goto
<1>8. ASSUME NEW c \in Calls, getAgain(c) PROVE Victims'
  <2>1. CASE c \in Cancelling \/ activeTask = NoTask BY <1>8, <2>1 DEF getAgain, Goto
  <2>2. CASE c \notin Cancelling /\ activeTask # NoTask
    <3>1. c # holder BY <1>8 DEF getAgain, HolderWaits
    <3>2. \A d \in Calls : task'[d] # task[d] => d = c
      BY <1>8, <2>2 DEF getAgain, cancelTask
    <3>3. pc'[c] = "awaitOther" /\ \A d \in Calls : d # c => pc'[d] = pc[d]
      BY <1>8, <2>2 DEF getAgain, Goto
    <3>4. gone' = gone /\ holder' = holder BY <1>8 DEF getAgain
    <3>5. QED BY <2>2, <3>1, <3>2, <3>3, <3>4
  <2>3. QED BY <2>1, <2>2
<1>9. ASSUME NEW c \in Calls, start(c) PROVE Victims'
  <2>1. PICK t \in Calls : /\ (pc[c] = "await" /\ t = c) \/ (pc[c] = "awaitOther" /\ t = seen[c])
                           /\ task[t] = "new" /\ task' = [task EXCEPT ![t] = "running"]
                           /\ UNCHANGED <<activeTask, pc, seen, handled, gone, holder>>
    BY <1>9 DEF start
  <2>2. t = holder BY <2>1 DEF Occupied, HolderWaits
  <2>3. QED BY <2>1, <2>2 DEF HolderWaits
<1>10. ASSUME NEW c \in Calls, awaited(c) PROVE Victims' BY <1>10 DEF awaited, Goto
<1>11. ASSUME NEW c \in Calls, awaitedOther(c) PROVE Victims' BY <1>11 DEF awaitedOther, Goto
<1>12. ASSUME NEW t \in Calls, finish(t) PROVE Victims' BY <1>12 DEF finish
<1>13. ASSUME NEW t \in Calls, onCompletion(t) PROVE Victims' BY <1>13 DEF onCompletion
<1>14. ASSUME NEW c \in Calls, cancelCaller(c) PROVE Victims' BY <1>14 DEF cancelCaller
<1>15. QED BY <1>1, <1>2, <1>3, <1>4, <1>5, <1>6, <1>7, <1>8, <1>9, <1>10, <1>11, <1>12,
              <1>13, <1>14 DEF Next, Step

\* A task is cancelled only for a call that takes its place: when all calls have ended and no
\* caller was cancelled, the last block has run to its end, for any number of calls.
THEOREM TheLastWins == Spec => []LastWins
<1>1. Init => Inv /\ WinInv BY InitInv
<1>2. Inv /\ WinInv /\ [Next]_vars => (Inv /\ WinInv)'
  BY NextInv, NextHolder, NextVictims DEF WinInv
<1>3. Inv /\ WinInv => LastWins
  BY RunnerAssumption DEF Inv, TypeOK, WinInv, HolderWaits, Victims, OnItsWay, LastWins, Quiet
<1>4. QED BY <1>1, <1>2, <1>3, PTL DEF Spec
=============================================================================
