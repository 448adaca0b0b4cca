---------------------------- MODULE ActionEngine ----------------------------
(***************************************************************************)
(* FRIDAY's own backend (backend/): POST /ask runs AgentOrchestratorCore.  *)
(* execute_task, in which a language model's answer is read as a list of   *)
(* actions that RealActionExecutor carries out on the task store, on the   *)
(* calendar and outside (Notion pages and e-mails, which no property looks *)
(* at and which are left out).  The chat page sends questions and shows    *)
(* the replies; the REST router of routers/tasks.py creates and deletes    *)
(* tasks in the same store.                                                *)
(*                                                                         *)
(* Handlers are coroutines without an await, so one request at a time runs *)
(* on the event loop; "run" is the request that holds it.  Everything the  *)
(* server keeps is in memory and is lost when the process ends.            *)
(***************************************************************************)
EXTENDS Naturals, Sequences, FiniteSets

CONSTANTS
    Asks,        \* questions sent: a chat page sends one at a time, pages are many
    Posts,       \* tasks created with POST /api/tasks, each under a fresh uuid
    Seeds,       \* number of tasks the store starts with
    Kinds,       \* kinds of entries a language model may put in its list
    MaxActions,  \* bound on the entries of a list
    UserOps,     \* subset of {"post", "delete", "crash"}
    MaxCrashes,  \* bound on process exits
    NoAsk

ASSUME EngineAssumption ==
    /\ Seeds \in Nat /\ MaxActions \in Nat /\ MaxCrashes \in Nat
    /\ Kinds \subseteq {"task", "badtask", "event", "badevent", "other", "nameless"}
    /\ Posts \cap Nat = {}
    /\ NoAsk \notin Asks

VARIABLES
    store,     \* _TASK_STORE: the task under every key; n stands for "task-n"
    calendar,  \* _CALENDAR_STORE after its two seed entries
    run,       \* the execute_task that holds the event loop
    chat,      \* what the page knows of every question
    crashes,   \* process exits so far
    removed,   \* history: tasks a user deleted, and those kept or told at a process exit
    deleted    \* history: this process has served a DELETE

vars == <<store, calendar, run, chat, crashes, removed, deleted>>

\* Who made a task: the seed data, a POST, or the i-th entry of a question.
Seed(n)   == <<"seed", n>>
Post(p)   == <<"post", p>>
Act(a, i) == <<a, i>>

Idle == [ask |-> NoAsk, plan |-> <<>>, next |-> 1, said |-> <<>>]

\* What a handler returns: the confirmation of a task, another text, or None.
Text == <<"text", 0>>
None == <<"none", 0>>

Origins == {Seed(n) : n \in 1..Seeds} \cup {Post(p) : p \in Posts}
              \cup {Act(a, i) : a \in Asks, i \in 1..MaxActions}
Answers == Origins \cup {Text, None}

InitialStore == [n \in 1..Seeds |-> Seed(n)]
Plans == UNION {[1..n -> Kinds] : n \in 0..MaxActions}
Count(s)  == Cardinality(DOMAIN s)
Tasks(s)  == {s[k] : k \in DOMAIN s}

\* store[key] = task
Put(s, key, task) == [k \in DOMAIN s \cup {key} |-> IF k = key THEN task ELSE s[k]]

-----------------------------------------------------------------------------
(***************************************************************************)
(* The chat page (app/chat/page.tsx, lib/api.ts askQuestion).              *)
(***************************************************************************)
serverVars == <<store, calendar, run, crashes, removed, deleted>>

handleSendMessage(a) ==
    /\ chat[a].st = "new"
    /\ chat' = [chat EXCEPT ![a].st = "asked"]
    /\ UNCHANGED serverVars

\* .then and .catch: the reply or the error is shown.
Show(a) ==
    /\ chat[a].st \in {"replied", "refused"}
    /\ chat' = [chat EXCEPT ![a].st = IF @ = "replied" THEN "shown" ELSE "error"]
    /\ UNCHANGED serverVars

-----------------------------------------------------------------------------
(***************************************************************************)
(* execute_task and the action executor.                                   *)
(***************************************************************************)
Running == run.ask # NoAsk
Entry   == run.plan[run.next]

\* Mutant: the request is not taken off the event loop.
ReplyKeepsLoop(st, said) ==
    /\ chat' = [chat EXCEPT ![run.ask] = [st |-> st, said |-> said]]
    /\ run' = run

\* The reply leaves the server and the event loop is free.
Reply(st, said) ==
    /\ chat' = [chat EXCEPT ![run.ask] = [st |-> st, said |-> said]]
    /\ run' = Idle

\* agent.execute: every key and model is tried, the last failure is raised and
\* becomes a 400; otherwise the answer is parsed into a list of actions.
Think(a) ==
    /\ ~Running
    /\ chat[a].st = "asked"
    /\ \/ \E plan \in Plans :
            /\ run' = [Idle EXCEPT !.ask = a, !.plan = plan]
            /\ UNCHANGED chat
       \/ /\ chat' = [chat EXCEPT ![a].st = "refused"]
          /\ UNCHANGED run
    /\ UNCHANGED <<store, calendar, crashes, removed, deleted>>

Said(text) == run' = [run EXCEPT !.next = @ + 1, !.said = Append(@, text)]

\* Mutant: the key is the number of tasks.
NewKeyIsLen == Count(store)

\* task_id = f"task-{len(_TASK_STORE) + 1}"
NewKey == Count(store) + 1

UpdateTasks ==
    /\ Entry = "task"
    /\ store' = Put(store, NewKey, Act(run.ask, run.next))
    /\ Said(Act(run.ask, run.next))
    /\ UNCHANGED <<calendar, chat>>

\* The event is stored first.  create_notion_event reads the environment on
\* every call: it returns a text for the page it makes or for the error, or
\* None when Notion is not configured.
UpdateCalendar ==
    /\ Entry = "event"
    /\ calendar' = Append(calendar, Act(run.ask, run.next))
    /\ Said(Text) \/ Said(None)
    /\ UNCHANGED <<store, chat>>

\* send_email, view_calendar, view_tasks, open_file, vision_detect and unknown
\* actions return a text.
Other ==
    /\ Entry = "other"
    /\ Said(Text)
    /\ UNCHANGED <<store, calendar, chat>>

\* An entry that is no object or has no action is skipped.
Skip ==
    /\ Entry = "nameless"
    /\ run' = [run EXCEPT !.next = @ + 1]
    /\ UNCHANGED <<store, calendar, chat>>

\* TaskModel refuses the data: the exception ends the loop and the model's own
\* text is the answer.
BadTask ==
    /\ Entry = "badtask"
    /\ Reply("replied", <<>>)
    /\ UNCHANGED <<store, calendar>>

\* The event is stored before create_notion_event refuses a date that is no
\* text: the exception ends the loop in the same way.
BadEvent ==
    /\ Entry = "badevent"
    /\ calendar' = Append(calendar, Act(run.ask, run.next))
    /\ Reply("replied", <<>>)
    /\ UNCHANGED store

\* execute_action, and "\n\n".join when the list is done: a None among the
\* confirmations raises, and the model's own text is the answer.
ExecuteAction ==
    /\ Running /\ run.next <= Len(run.plan)
    /\ \/ UpdateTasks \/ UpdateCalendar \/ Other \/ Skip
       \/ BadTask \/ BadEvent
    /\ UNCHANGED <<crashes, removed, deleted>>

Join ==
    /\ Running /\ run.next > Len(run.plan)
    /\ Reply("replied", IF \E i \in DOMAIN run.said : run.said[i] = None
                        THEN <<>> ELSE run.said)
    /\ UNCHANGED <<store, calendar, crashes, removed, deleted>>

-----------------------------------------------------------------------------
(***************************************************************************)
(* routers/tasks.py, and the end of the process.                           *)
(***************************************************************************)
create_task(p) ==
    /\ "post" \in UserOps
    /\ ~Running
    /\ p \notin DOMAIN store /\ Post(p) \notin removed
    /\ store' = Put(store, p, Post(p))
    /\ UNCHANGED <<calendar, run, chat, crashes, removed, deleted>>

delete_task(k) ==
    /\ "delete" \in UserOps
    /\ ~Running
    /\ k \in DOMAIN store
    /\ store' = [i \in DOMAIN store \ {k} |-> store[i]]
    /\ removed' = removed \cup {store[k]}
    /\ deleted' = TRUE
    /\ UNCHANGED <<calendar, run, chat, crashes>>

\* The tasks that shown or waiting replies confirm.
ToldTasks == Origins \cap UNION {{chat[a].said[i] : i \in DOMAIN chat[a].said} : a \in Asks}

\* The stores start again with the seed data; open requests see a closed
\* connection.
Crash ==
    /\ "crash" \in UserOps
    /\ crashes < MaxCrashes
    /\ crashes' = crashes + 1
    /\ removed' = removed \cup Tasks(store) \cup ToldTasks
    /\ store' = InitialStore
    /\ calendar' = <<>>
    /\ run' = Idle
    /\ deleted' = FALSE
    /\ chat' = [a \in Asks |-> IF chat[a].st = "asked"
                              THEN [chat[a] EXCEPT !.st = "refused"] ELSE chat[a]]

-----------------------------------------------------------------------------
Init ==
    /\ store = InitialStore
    /\ calendar = <<>>
    /\ run = Idle
    /\ chat = [a \in Asks |-> [st |-> "new", said |-> <<>>]]
    /\ crashes = 0
    /\ removed = {}
    /\ deleted = FALSE

Loop == ExecuteAction \/ Join

Next ==
    \/ \E a \in Asks : handleSendMessage(a) \/ Think(a) \/ Show(a)
    \/ Loop
    \/ \E p \in Posts : create_task(p)
    \/ \E k \in DOMAIN store : delete_task(k)
    \/ Crash

Spec == Init /\ [][Next]_vars

\* The event loop goes on and the browser shows what arrives.
FairSpec ==
    /\ Spec
    /\ WF_vars(Loop)
    /\ \A a \in Asks : WF_vars(Think(a)) /\ WF_vars(Show(a))
-----------------------------------------------------------------------------
TypeOK ==
    /\ DOMAIN store \subseteq Nat \cup Posts
    /\ Tasks(store) \subseteq Origins
    /\ calendar \in Seq(Origins)
    /\ run \in [ask : Asks \cup {NoAsk}, plan : Plans, next : Nat, said : Seq(Answers)]
    /\ run.next \in 1..(Len(run.plan) + 1)
    /\ Len(run.said) < run.next
    /\ chat \in [Asks -> [st : {"new", "asked", "replied", "refused", "shown", "error"},
                           said : Seq(Answers)]]
    /\ crashes \in 0..MaxCrashes
    /\ removed \subseteq Origins
    /\ deleted \in BOOLEAN

\* A task the user has been told is "persisted to your Tasks tab" is there,
\* unless a user deleted it or the process has ended: neither a later action
\* nor a POST overwrites it.  The numbered keys promise this only until the
\* first DELETE, after which the next key may be one that is in use.
ConfirmedKept ==
    ~deleted => \A a \in Asks : \A i \in DOMAIN chat[a].said :
        chat[a].said[i] \in Origins => chat[a].said[i] \in Tasks(store) \cup removed

\* Every question gets a reply or an error on the page.
EveryAskAnswered ==
    \A a \in Asks : chat[a].st = "asked" ~> chat[a].st \in {"shown", "error"}
=============================================================================
