------------------------------ MODULE TaskStore ------------------------------
(* The task store of a Python A2A agent (a2a/_task_store.py): a mailbox with *)
(* one message per task, of which the broker keeps the latest for each key.  *)
(* No operation raises: a request that fails is logged.  The store is ready  *)
(* before the first message is dispatched.                                   *)
EXTENDS Integers

CONSTANT Tasks  \* the ids of tasks

VARIABLE store  \* the state of each task in the tasks mailbox, or "none"

States == {"none", "WORKING", "COMPLETED", "CANCELED"}

NoTasks == [t \in {} |-> "none"]

StoreInit == store = [t \in Tasks |-> "none"]

(* What a query for one key and for all messages finds in a store.           *)
Only(s, task) == [t \in {task} \cap {u \in Tasks : s[u] # "none"} |-> s[t]]
Known(s) == [t \in {u \in Tasks : s[u] # "none"} |-> s[t]]

(* get() and list(): a failed query looks like a store without tasks.  The   *)
(* page size is taken to be no smaller than the number of tasks.             *)
StoreGet(lost, task) == IF lost = 0 THEN Only(store, task) ELSE NoTasks
StoreList(lost) == IF lost = 0 THEN Known(store) ELSE NoTasks

StoreSave(lost, task, state) ==
  store' = IF lost = 0 THEN [store EXCEPT ![task] = state] ELSE store

(* delete() queries the task and deletes the messages it finds.              *)
StoreDelete(lost, task) ==
  store' = IF lost = 0 THEN [store EXCEPT ![task] = "none"] ELSE store
=============================================================================
