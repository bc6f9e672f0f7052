---------------------------- MODULE ConfirmGate ----------------------------
(***************************************************************************)
(* What the confirmation gate promises, whatever the dialog state machine  *)
(* does inside: an operation is executed only as the answer to the prompt  *)
(* the user is looking at, and exactly with the content of that prompt.    *)
(* (app/chat/state/manager.py, rules 5 and 7 of its header.)               *)
(***************************************************************************)
CONSTANTS Contents,  \* what a prompt can show: an operation with its slots
          Nothing

VARIABLES prompt,    \* the prompt that waits for an answer
          executed   \* what the last turn handed to the executor

vars == <<prompt, executed>>

TypeOK == /\ prompt \in Contents \cup {Nothing}
          /\ executed \in Contents \cup {Nothing}

Init == prompt = Nothing /\ executed = Nothing

\* A turn that executes nothing may change, show or withdraw the prompt.
Talk == /\ executed' = Nothing
        /\ prompt' \in Contents \cup {Nothing}

Execute == /\ prompt # Nothing
           /\ executed' = prompt
           /\ prompt' \in Contents \cup {Nothing}

Next == Talk \/ Execute

Spec == Init /\ [][Next]_vars
=============================================================================
