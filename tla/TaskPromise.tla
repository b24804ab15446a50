----------------------------- MODULE TaskPromise -----------------------------
(***************************************************************************)
(* What a file task promises whoever holds it (files/task.h:71-73), with   *)
(* no thread, queue or lock in sight: it works on its sources one after    *)
(* the other while it runs, it ends once, it says so at most once, and     *)
(* after its destruction nothing more happens.                             *)
(***************************************************************************)
EXTENDS Naturals

CONSTANT NumSources

VARIABLES
  phase,        \* "queued", "running", "Succeeded", "Failed" or "Canceled"
  done,         \* how many sources are completed
  told,         \* the result was announced
  exists        \* the task has not been destroyed

promiseVars == <<phase, done, told, exists>>

Init == phase = "queued" /\ done = 0 /\ told = FALSE /\ exists = TRUE

Begin == exists /\ phase = "queued" /\ phase' = "running" /\ UNCHANGED <<done, told, exists>>

Work ==
  /\ exists /\ phase = "running" /\ done < NumSources
  /\ done' = done + 1
  /\ UNCHANGED <<phase, told, exists>>

End ==
  /\ exists /\ phase = "running"
  /\ phase' \in {"Succeeded", "Failed", "Canceled"}
  /\ phase' = "Succeeded" => done = NumSources
  /\ UNCHANGED <<done, told, exists>>

Tell ==
  /\ exists /\ phase \in {"Succeeded", "Failed", "Canceled"} /\ ~told
  /\ told' = TRUE
  /\ UNCHANGED <<phase, done, exists>>

Destroy == exists /\ exists' = FALSE /\ UNCHANGED <<phase, done, told>>

Next == Begin \/ Work \/ End \/ Tell \/ Destroy

Spec == Init /\ [][Next]_promiseVars
=============================================================================
