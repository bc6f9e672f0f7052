-------------------------- MODULE DialogRecursion --------------------------
(***************************************************************************)
(* The mutual recursion of _evaluate_task and _finish_turn, statement by   *)
(* statement: the reference for the closed form FinishTurn of              *)
(* DialogManager.  _finish_turn pops the task it resumes and evaluates it; *)
(* the evaluation ends it at once, and calls _finish_turn on what is left, *)
(* or returns.  The depth of the recursion is the height of the stack.     *)
(***************************************************************************)
EXTENDS DialogTurns

\* revived is what _evaluate_task returned for the task on top of suspended.
FinishRec(status, suspended, finished, end, intent, revived) ==
    IF suspended = <<>>
    THEN Outcome(end, status, NoTask, <<>>, finished, intent)
    ELSE IF revived.status = "DONE"
    THEN Outcome("COLLECTING", status, suspended[Len(suspended)], revived.stack,
                 finished, intent)
    ELSE Outcome(revived.state, status, revived.active, revived.stack, finished, intent)

EvaluateRec(task, below, revived) ==
    IF Missing(task) # {}
    THEN IF task.asks + 1 > AsksMax
         THEN FinishRec("FALLBACK", below, NoTask, "ABORTED", task.intent, revived)
         ELSE Outcome("COLLECTING", "NEEDS_SLOT", [task EXCEPT !.asks = @ + 1],
                      below, NoTask, task.intent)
    ELSE IF task.intent \in WriteIntents
    THEN Outcome("CONFIRMING", "NEEDS_CONFIRM", task, below, NoTask, task.intent)
    ELSE FinishRec("DONE", below, NoTask, "DONE", task.intent, revived)

\* What _evaluate_task returns for the task at each height, on those below it;
\* nothing is evaluated at height zero.
Nothing == Outcome("IDLE", "DONE", NoTask, <<>>, NoTask, "UNKNOWN")

Evaluated(tasks) ==
    LET returned[n \in 0..Len(tasks)] ==
            IF n = 0 THEN Nothing
            ELSE EvaluateRec(tasks[n], SubSeq(tasks, 1, n - 1), returned[n - 1])
    IN  returned

\* The closed form used by every model returns, field by field, what the
\* recursion of manager.py returns: for every stack the conversation builds,
\* under every task that may be current or suspended on top of it, and for a
\* confirmation as well as for the evaluation of a task.
ResumeIsRecursion ==
    \A intent \in Intents, slots \in SlotFillings, asks \in 0..AsksMax :
        LET task == [NewTask(intent, slots) EXCEPT !.asks = asks]
            taller == Append(stack, task)
            returned == Evaluated(taller)[Len(taller)]
        IN  /\ Evaluate(task, stack) = returned
            /\ FinishTurn("CONFIRMED", taller, task, "DONE", intent)
                  = FinishRec("CONFIRMED", taller, task, "DONE", intent, returned)
            /\ FinishTurn("ABORTED", taller, NoTask, "ABORTED", "DENY")
                  = FinishRec("ABORTED", taller, NoTask, "ABORTED", "DENY", returned)
=============================================================================
