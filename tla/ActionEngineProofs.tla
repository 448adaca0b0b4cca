------------------------- MODULE ActionEngineProofs -------------------------
(***************************************************************************)
(* What holds of ActionEngine for any number of questions, POSTs, entries  *)
(* and restarts.  Until a process serves its first DELETE, no numbered key *)
(* exceeds the number of tasks, so the key of a new task is fresh; one     *)
(* DELETE breaks that, and with it what the users have been told.          *)
(***************************************************************************)
EXTENDS ActionEngine, FiniteSetTheorems, TLAPS

\* The plans are sequences of at most MaxActions entries.
LEMMA PlanSeq ==
    ASSUME NEW plan \in Plans
    PROVE  plan \in Seq(Kinds) /\ Len(plan) \in 0..MaxActions
<1>1. PICK n \in 0..MaxActions : plan \in [1..n -> Kinds]
    BY DEF Plans
<1>2. MaxActions \in Nat
    BY EngineAssumption
<1>3. n \in Nat /\ n <= MaxActions
    BY <1>2
<1>4. plan \in Seq(Kinds) /\ Len(plan) = n
    BY <1>1, <1>3
<1> QED
    BY <1>3, <1>4

\* The empty plan is a plan, so a process may start without one.
LEMMA EmptyPlan == <<>> \in Plans
<1>1. 0 \in 0..MaxActions
    BY EngineAssumption
<1>2. <<>> \in [1..0 -> Kinds]
    OBVIOUS
<1> QED
    BY <1>1, <1>2 DEF Plans

-----------------------------------------------------------------------------
\* The store has finitely many tasks, under keys of the two kinds.
Keyed(s) ==
    /\ IsFiniteSet(DOMAIN s)
    /\ DOMAIN s \subseteq Nat \cup Posts

\* The numbered keys are at most as large as the store.
Numbered(s) == \A n \in DOMAIN s : n \in Nat => n <= Count(s)

\* What a confirmation names exists or was removed.
Kept(said) == \A i \in DOMAIN said : said[i] \in Origins => said[i] \in Tasks(store) \cup removed

\* What holds until the first DELETE: the next key is free, and what was said,
\* or is about to be said, names a task that is there.
Told ==
    /\ Numbered(store)
    /\ Kept(run.said)
    /\ \A a \in Asks : Kept(chat[a].said)

EInv ==
    /\ TypeOK
    /\ Keyed(store)
    /\ ~deleted => Told

\* The seed rows of the store are numbered from 1.
LEMMA InitialKeys ==
    /\ Keyed(InitialStore) /\ Numbered(InitialStore)
    /\ Tasks(InitialStore) \subseteq Origins
<1>1. Seeds \in Nat
    BY EngineAssumption
<1>2. IsFiniteSet(1..Seeds) /\ Cardinality(1..Seeds) = Seeds
    BY <1>1, FS_Interval
<1>3. DOMAIN InitialStore = 1..Seeds
    BY DEF InitialStore
<1> QED
    BY <1>1, <1>2, <1>3 DEF Keyed, Numbered, Count, InitialStore, Tasks, Origins

\* A store with one more task, whether or not the key was in use.
LEMMA PutKeyed ==
    ASSUME NEW s, Keyed(s), NEW task, NEW key \in Nat \cup Posts
    PROVE  /\ Keyed(Put(s, key, task))
           /\ Tasks(Put(s, key, task)) \subseteq Tasks(s) \cup {task}
           /\ key \notin DOMAIN s => Tasks(Put(s, key, task)) = Tasks(s) \cup {task}
<1>1. DOMAIN Put(s, key, task) = DOMAIN s \cup {key}
    BY DEF Put
<1>2. IsFiniteSet(DOMAIN s \cup {key})
    BY FS_AddElement DEF Keyed
<1>3. Keyed(Put(s, key, task))
    BY <1>1, <1>2 DEF Keyed
<1> QED
    BY <1>3 DEF Put, Tasks

\* A fresh key of the right kind keeps the numbering.
LEMMA PutNumbered ==
    ASSUME NEW s, Keyed(s), Numbered(s), NEW task, NEW key \in Nat \cup Posts,
           key \notin DOMAIN s, key \in Nat => key <= Count(s) + 1
    PROVE  Numbered(Put(s, key, task))
<1> DEFINE d == Put(s, key, task)
<1>1. DOMAIN d = DOMAIN s \cup {key}
    BY DEF Put
<1>2. Cardinality(DOMAIN s \cup {key}) = Count(s) + 1
    BY FS_AddElement DEF Keyed, Count
<1>3. Count(s) \in Nat
    BY FS_CardinalityType DEF Keyed, Count
<1> HIDE DEF d
<1>4. ASSUME NEW n \in DOMAIN d, n \in Nat
      PROVE  n <= Count(s) + 1
    <2>1. CASE n = key
        BY <1>4, <2>1
    <2>2. CASE n \in DOMAIN s
        BY <1>3, <1>4, <2>2 DEF Numbered
    <2> QED
        BY <1>1, <1>4, <2>1, <2>2
<1>5. Numbered(d)
    BY <1>1, <1>2, <1>4 DEF Numbered, Count
<1> QED
    BY <1>5 DEF d

\* The key of a new task, fresh while the keys are numbered.
LEMMA NewKeyFresh ==
    ASSUME Keyed(store)
    PROVE  /\ NewKey \in Nat /\ NewKey = Count(store) + 1
           /\ Numbered(store) => NewKey \notin DOMAIN store
<1>1. Count(store) \in Nat
    BY FS_CardinalityType DEF Keyed, Count
<1> QED
    BY <1>1 DEF Numbered, NewKey

\* A plain text is not mistaken for the confirmation of a task.
LEMMA TextNoOrigin == Text \notin Origins /\ None \notin Origins
<1>1. \A a \in Asks, i \in 1..MaxActions : Act(a, i)[2] # 0
    BY EngineAssumption DEF Act
<1>2. \A n \in 1..Seeds : Seed(n)[1] = "seed"
    BY DEF Seed
<1>3. \A p \in Posts : Post(p)[1] = "post"
    BY DEF Post
<1>4. Text[1] = "text" /\ Text[2] = 0 /\ None[1] = "none" /\ None[2] = 0
    BY DEF Text, None
<1> QED
    BY <1>1, <1>2, <1>3, <1>4 DEF Origins

\* What TypeOK says of the request on the event loop and of the page.
RunOK ==
    /\ run \in [ask : Asks \cup {NoAsk}, plan : Plans, next : Nat, said : Seq(Answers)]
    /\ run.next \in 1..(Len(run.plan) + 1)
    /\ Len(run.said) < run.next

ChatType == [Asks -> [st : {"new", "asked", "replied", "refused", "shown", "error"},
                      said : Seq(Answers)]]

\* No request is in progress at the start, after a reply and after a restart.
LEMMA IdleRun == run = Idle => RunOK /\ Kept(run.said)
<1>1. Len(<<>>) = 0 /\ <<>> \in Seq(Answers) /\ DOMAIN <<>> = {}
    OBVIOUS
<1> QED
    BY <1>1, EmptyPlan DEF Idle, RunOK, Kept

\* The entry a request is at, when there is one.
LEMMA CurrentEntry ==
    ASSUME TypeOK, ExecuteAction
    PROVE  /\ run.ask \in Asks
           /\ run.next \in Nat /\ run.next + 1 \in 1..(Len(run.plan) + 1)
           /\ run.plan \in Plans /\ run.said \in Seq(Answers)
           /\ Act(run.ask, run.next) \in Origins
           /\ UNCHANGED <<crashes, removed, deleted>>
<1>1. run.plan \in Plans /\ run.ask \in Asks /\ run.next \in Nat /\ run.said \in Seq(Answers)
    BY DEF TypeOK, ExecuteAction, Running
<1>2. run.next \in 1..(Len(run.plan) + 1) /\ run.next <= Len(run.plan)
    BY DEF TypeOK, ExecuteAction
<1>3. Len(run.plan) \in 0..MaxActions /\ MaxActions \in Nat
    BY <1>1, PlanSeq, EngineAssumption
<1>4. run.next \in 1..MaxActions /\ run.next + 1 \in 1..(Len(run.plan) + 1)
    BY <1>1, <1>2, <1>3
<1>5. UNCHANGED <<crashes, removed, deleted>>
    BY DEF ExecuteAction
<1> QED
    BY <1>1, <1>4, <1>5 DEF Origins

\* What a handler returns is appended to what was said before.
LEMMA SaidStep ==
    ASSUME TypeOK, ExecuteAction, NEW text \in Answers, Said(text)
    PROVE  /\ RunOK'
           /\ Kept(run.said) /\ (text \in Origins => text \in Tasks(store'))
              /\ Tasks(store) \subseteq Tasks(store') => Kept(run.said)'
<1>1. /\ run.said \in Seq(Answers) /\ run.next \in Nat /\ Len(run.said) < run.next
      /\ run.plan \in Plans
      /\ run \in [ask : Asks \cup {NoAsk}, plan : Plans, next : Nat, said : Seq(Answers)]
    BY DEF TypeOK
<1>2. run' = [run EXCEPT !.next = run.next + 1, !.said = Append(run.said, text)]
    BY DEF Said
<1>3. /\ run'.said = Append(run.said, text) /\ run'.next = run.next + 1
      /\ run'.plan = run.plan
      /\ Append(run.said, text) \in Seq(Answers)
      /\ Len(Append(run.said, text)) = Len(run.said) + 1
    BY <1>1, <1>2
<1>4. run' \in [ask : Asks \cup {NoAsk}, plan : Plans, next : Nat, said : Seq(Answers)]
    <2>1. Append(run.said, text) \in Seq(Answers) /\ run.next + 1 \in Nat
        BY <1>1, <1>3
    <2> HIDE <1>3
    <2> QED
        BY <1>1, <1>2, <2>1
<1>5. RunOK'
    BY <1>1, <1>3, <1>4, CurrentEntry DEF RunOK
<1>6. \A i \in DOMAIN run'.said : run'.said[i] = text
                                   \/ (i \in DOMAIN run.said /\ run'.said[i] = run.said[i])
    BY <1>1, <1>3
<1>7. removed' = removed
    BY CurrentEntry
<1> QED
    BY <1>5, <1>6, <1>7 DEF Kept

\* A reply says what the request has said, or nothing.
LEMMA ReplyStep ==
    ASSUME TypeOK, run.ask \in Asks, NEW said \in Seq(Answers),
           Reply("replied", said), UNCHANGED <<store, removed>>
    PROVE  /\ RunOK' /\ chat' \in ChatType
           /\ Told /\ Kept(said) => Told'
<1>1. run' = Idle /\ chat' = [chat EXCEPT ![run.ask] = [st |-> "replied", said |-> said]]
    BY DEF Reply
<1>2. RunOK' /\ Kept(run.said)'
    <2>1. Len(<<>>) = 0 /\ <<>> \in Seq(Answers) /\ DOMAIN <<>> = {}
        OBVIOUS
    <2> QED
        BY <1>1, <2>1, EmptyPlan DEF Idle, RunOK, Kept
<1>3. chat' \in ChatType
    BY <1>1 DEF TypeOK, ChatType
<1>4. \A a \in Asks : chat'[a].said = IF a = run.ask THEN said ELSE chat[a].said
    BY <1>1 DEF TypeOK
<1>5. Told /\ Kept(said) => Told'
    BY <1>2, <1>4 DEF Told, Kept, Tasks, Numbered, Count
<1> QED
    BY <1>2, <1>3, <1>5

-----------------------------------------------------------------------------
\* An action of the executor: the store grows under a fresh key or stays.
LEMMA ExecuteActionStep == EInv /\ ExecuteAction => EInv'
<1> SUFFICES ASSUME EInv, ExecuteAction
             PROVE  EInv'
    OBVIOUS
<1> DEFINE me == Act(run.ask, run.next)
<1>1. TypeOK /\ Keyed(store) /\ (~deleted => Told)
    BY DEF EInv
<1>2. /\ run.ask \in Asks
      /\ run.next \in Nat /\ run.next + 1 \in 1..(Len(run.plan) + 1)
      /\ run.plan \in Plans /\ run.said \in Seq(Answers)
      /\ me \in Origins
      /\ UNCHANGED <<crashes, removed, deleted>>
    BY <1>1, CurrentEntry
<1> HIDE DEF me
\* The parts of the invariant each handler has to restore.
<1>3. ASSUME Keyed(store'), Tasks(store') \subseteq Origins, calendar' \in Seq(Origins),
             RunOK', chat' \in ChatType, Told => Told'
      PROVE  EInv'
    BY <1>1, <1>2, <1>3 DEF EInv, TypeOK, RunOK, ChatType, Keyed
<1>4. calendar \in Seq(Origins) /\ chat \in ChatType /\ Tasks(store) \subseteq Origins
    BY <1>1 DEF TypeOK, ChatType
<1>5. UNCHANGED store => Keyed(store') /\ Tasks(store') \subseteq Origins
                         /\ (Numbered(store) => Numbered(store'))
    BY <1>1, <1>4
<1>6. Text \in Answers /\ None \in Answers /\ me \in Answers
    BY <1>2 DEF Answers
\* The page and what it was told are not concerned when the store grows.
<1>7. ASSUME UNCHANGED chat, Tasks(store) \subseteq Tasks(store'), Told,
             Numbered(store'), Kept(run.said)'
      PROVE  Told'
    BY <1>2, <1>7 DEF Told, Kept
<1>8. CASE UpdateTasks
    <2>1. /\ store' = Put(store, NewKey, me) /\ Said(me)
          /\ UNCHANGED <<calendar, chat>>
        BY <1>8 DEF UpdateTasks, me
    <2>2. /\ NewKey \in Nat /\ NewKey = Count(store) + 1
          /\ Numbered(store) => NewKey \notin DOMAIN store
        BY <1>1, NewKeyFresh
    <2>3. /\ Keyed(store') /\ Tasks(store') \subseteq Tasks(store) \cup {me}
          /\ NewKey \notin DOMAIN store => Tasks(store') = Tasks(store) \cup {me}
        BY <1>1, <2>1, <2>2, PutKeyed
    <2>4. RunOK'
        BY <1>1, <1>6, <2>1, SaidStep
    <2>5. ASSUME Told PROVE Told'
        <3>1. NewKey \notin DOMAIN store /\ Numbered(store)
            BY <2>2, <2>5 DEF Told
        <3>2. Numbered(store')
            <4>1. Count(store) \in Nat
                BY <1>1, FS_CardinalityType DEF Keyed, Count
            <4> QED
                BY <1>1, <2>1, <2>2, <3>1, <4>1, PutNumbered
        <3>3. Tasks(store') = Tasks(store) \cup {me}
            BY <2>3, <3>1
        <3>4. Kept(run.said)'
            BY <1>1, <1>6, <2>1, <2>5, <3>3, SaidStep DEF Told
        <3> QED
            BY <1>7, <2>1, <2>5, <3>2, <3>3, <3>4
    <2> QED
        BY <1>2, <1>3, <1>4, <2>1, <2>3, <2>4, <2>5
<1>9. ASSUME NEW text \in {Text, None}, Said(text), UNCHANGED <<store, chat>>,
             calendar' \in Seq(Origins)
      PROVE  EInv'
    <2>1. text \notin Origins /\ text \in Answers /\ Tasks(store) \subseteq Tasks(store')
        BY <1>6, <1>9, TextNoOrigin
    <2>2. RunOK' /\ (Kept(run.said) => Kept(run.said)')
        BY <1>1, <1>9, <2>1, SaidStep
    <2>3. Told => Told'
        BY <1>5, <1>7, <1>9, <2>1, <2>2 DEF Told
    <2> QED
        BY <1>3, <1>4, <1>5, <1>9, <2>2, <2>3
<1>10. CASE UpdateCalendar
    <2>1. calendar' \in Seq(Origins)
        <3>1. calendar' = Append(calendar, me)
            BY <1>10 DEF UpdateCalendar, me
        <3> QED
            BY <1>2, <1>4, <3>1
    <2>2. UNCHANGED <<store, chat>> /\ (Said(Text) \/ Said(None))
        BY <1>10 DEF UpdateCalendar
    <2> QED
        BY <1>9, <2>1, <2>2
<1>11. CASE Other
    <2>1. UNCHANGED <<store, calendar, chat>> /\ Said(Text)
        BY <1>11 DEF Other
    <2> QED
        BY <1>4, <1>9, <2>1
<1>12. CASE Skip
    <2>1. run' = [run EXCEPT !.next = run.next + 1]
          /\ UNCHANGED <<store, calendar, chat>>
        BY <1>12 DEF Skip
    <2>2. run \in [ask : Asks \cup {NoAsk}, plan : Plans, next : Nat, said : Seq(Answers)]
          /\ Len(run.said) < run.next
        BY <1>1 DEF TypeOK
    <2>3. run' \in [ask : Asks \cup {NoAsk}, plan : Plans, next : Nat, said : Seq(Answers)]
          /\ run'.next = run.next + 1 /\ run'.plan = run.plan /\ run'.said = run.said
        BY <1>2, <2>1, <2>2
    <2>4. RunOK'
        BY <1>2, <2>2, <2>3 DEF RunOK
    <2>5. Kept(run.said) => Kept(run.said)'
        BY <1>2, <2>1, <2>3 DEF Kept
    <2>6. Told => Told'
        BY <1>5, <1>7, <2>1, <2>5 DEF Told
    <2> QED
        BY <1>3, <1>4, <1>5, <2>1, <2>4, <2>6
<1>13. ASSUME Reply("replied", <<>>), UNCHANGED store, calendar' \in Seq(Origins)
       PROVE  EInv'
    <2>1. <<>> \in Seq(Answers) /\ DOMAIN <<>> = {}
        OBVIOUS
    <2>2. Kept(<<>>)
        BY <2>1 DEF Kept
    <2>3. RunOK' /\ chat' \in ChatType /\ (Told => Told')
        BY <1>1, <1>2, <1>13, <2>1, <2>2, ReplyStep
    <2> QED
        BY <1>3, <1>5, <1>13, <2>3
<1>14. CASE BadTask
    BY <1>4, <1>13, <1>14 DEF BadTask
<1>15. CASE BadEvent
    <2>1. /\ Reply("replied", <<>>) /\ UNCHANGED store
          /\ calendar' = Append(calendar, me)
        BY <1>15 DEF BadEvent, me
    <2>2. calendar' \in Seq(Origins)
        BY <1>2, <1>4, <2>1
    <2> QED
        BY <1>13, <2>1, <2>2
<1> QED
    BY <1>8, <1>10, <1>11, <1>12, <1>14, <1>15 DEF ExecuteAction

\* The reply is sent.
LEMMA JoinStep == EInv /\ Join => EInv'
<1> SUFFICES ASSUME EInv, Join
             PROVE  EInv'
    OBVIOUS
<1> DEFINE said == IF \E i \in DOMAIN run.said : run.said[i] = None THEN <<>> ELSE run.said
<1>1. /\ TypeOK /\ Keyed(store) /\ (~deleted => Told)
      /\ run.ask \in Asks /\ run.said \in Seq(Answers)
    BY DEF EInv, TypeOK, Join, Running
<1>2. Reply("replied", said) /\ UNCHANGED <<store, calendar, crashes, removed, deleted>>
    BY DEF Join
<1>3. said \in Seq(Answers) /\ (Kept(run.said) => Kept(said))
    <2>1. <<>> \in Seq(Answers) /\ DOMAIN <<>> = {}
        OBVIOUS
    <2> QED
        BY <1>1, <2>1 DEF Kept
<1> HIDE DEF said
<1>4. RunOK' /\ chat' \in ChatType /\ (Told => Told')
    BY <1>1, <1>2, <1>3, ReplyStep DEF Told
<1>5. TypeOK' /\ Keyed(store')
    BY <1>1, <1>2, <1>4 DEF TypeOK, RunOK, ChatType, Keyed
<1> QED
    BY <1>1, <1>2, <1>4, <1>5 DEF EInv

\* Steps of the page and of the language model.
LEMMA AskStep ==
    ASSUME NEW a \in Asks, EInv, handleSendMessage(a) \/ Think(a) \/ Show(a)
    PROVE  EInv'
<1>1. TypeOK /\ Keyed(store) /\ (~deleted => Told)
    BY DEF EInv
<1>2. UNCHANGED <<store, calendar, crashes, removed, deleted>>
    BY DEF handleSendMessage, Think, Show, serverVars
<1>3. chat' \in ChatType /\ \A b \in Asks : chat'[b].said = chat[b].said
    <2>1. CASE UNCHANGED chat
        BY <1>1, <2>1 DEF TypeOK, ChatType
    <2>2. CASE \E st \in {"asked", "refused", "shown", "error"} : chat' = [chat EXCEPT ![a].st = st]
        <3>1. PICK st \in {"asked", "refused", "shown", "error"} :
                    chat' = [chat EXCEPT ![a].st = st]
            BY <2>2
        <3>2. /\ chat \in ChatType
              /\ chat' = [b \in Asks |-> IF b = a THEN [chat[a] EXCEPT !.st = st] ELSE chat[b]]
            BY <1>1, <3>1 DEF TypeOK, ChatType
        <3>3. \A b \in Asks : /\ chat[b] \in [st : {"new", "asked", "replied", "refused", "shown", "error"},
                                              said : Seq(Answers)]
                              /\ chat'[b] = IF b = a THEN [st |-> st, said |-> chat[a].said] ELSE chat[b]
            BY <3>2 DEF ChatType
        <3> QED
            BY <3>2, <3>3 DEF ChatType
    <2> QED
        BY <2>1, <2>2 DEF handleSendMessage, Think, Show
<1>4. RunOK' /\ (Kept(run.said) => Kept(run.said)')
    <2>1. CASE UNCHANGED run
        BY <1>1, <1>2, <2>1 DEF RunOK, TypeOK, Kept
    <2>2. CASE \E plan \in Plans : run' = [Idle EXCEPT !.ask = a, !.plan = plan]
        <3>1. PICK plan \in Plans : run' = [ask |-> a, plan |-> plan, next |-> 1, said |-> <<>>]
            BY <2>2 DEF Idle
        <3>2. Len(<<>>) = 0 /\ <<>> \in Seq(Answers) /\ DOMAIN <<>> = {}
            OBVIOUS
        <3>3. Len(plan) \in Nat
            BY PlanSeq
        <3> QED
            BY <3>1, <3>2, <3>3 DEF RunOK, Kept
    <2> QED
        BY <2>1, <2>2 DEF handleSendMessage, Think, Show, serverVars
<1>5. Told => Told'
    BY <1>2, <1>3, <1>4 DEF Told, Kept
<1>6. TypeOK' /\ Keyed(store')
    BY <1>1, <1>2, <1>3, <1>4 DEF TypeOK, RunOK, ChatType, Keyed
<1> QED
    BY <1>1, <1>2, <1>5, <1>6 DEF EInv

\* A POST puts a task under its own uuid.
LEMMA PostStep ==
    ASSUME NEW p \in Posts, EInv, create_task(p)
    PROVE  EInv'
<1>1. TypeOK /\ Keyed(store) /\ (~deleted => Told)
    BY DEF EInv
<1>2. /\ p \notin DOMAIN store /\ store' = Put(store, p, Post(p))
      /\ UNCHANGED <<calendar, run, chat, crashes, removed, deleted>>
    BY DEF create_task
<1>3. Keyed(store') /\ Tasks(store') = Tasks(store) \cup {Post(p)}
    BY <1>1, <1>2, PutKeyed
<1>4. p \notin Nat
    BY EngineAssumption
<1>5. Numbered(store) => Numbered(store')
    BY <1>1, <1>2, <1>4, PutNumbered
<1>6. Post(p) \in Origins
    BY DEF Origins
<1>7. TypeOK'
    BY <1>1, <1>2, <1>3, <1>6 DEF TypeOK, Keyed
<1>8. Told => Told'
    BY <1>2, <1>3, <1>5 DEF Told, Kept
<1> QED
    BY <1>1, <1>2, <1>3, <1>7, <1>8 DEF EInv

\* A DELETE leaves the keys as they are; nothing is promised from here on.
LEMMA DeleteStep ==
    ASSUME NEW k \in DOMAIN store, EInv, delete_task(k)
    PROVE  EInv'
<1>1. TypeOK /\ Keyed(store)
    BY DEF EInv
<1>2. /\ store' = [i \in DOMAIN store \ {k} |-> store[i]]
      /\ removed' = removed \cup {store[k]} /\ deleted' = TRUE
      /\ UNCHANGED <<calendar, run, chat, crashes>>
    BY DEF delete_task
<1>3. DOMAIN store' = DOMAIN store \ {k} /\ IsFiniteSet(DOMAIN store \ {k})
    BY <1>1, <1>2, FS_RemoveElement DEF Keyed
<1>4. Keyed(store')
    BY <1>1, <1>3 DEF Keyed
<1>5. Tasks(store') \subseteq Origins /\ removed' \subseteq Origins
    BY <1>1, <1>2 DEF Tasks, TypeOK
<1>6. TypeOK'
    BY <1>1, <1>2, <1>4, <1>5 DEF TypeOK, Keyed
<1> QED
    BY <1>2, <1>4, <1>6 DEF EInv

\* A new process starts with the seed data; all it had told is on record.
LEMMA CrashStep == EInv /\ Crash => EInv'
<1> SUFFICES ASSUME EInv, Crash
             PROVE  EInv'
    OBVIOUS
<1>1. TypeOK
    BY DEF EInv
<1>2. Keyed(store') /\ Numbered(store') /\ Tasks(store') \subseteq Origins
    BY InitialKeys DEF Crash
<1>3. /\ run' = Idle /\ calendar' = <<>> /\ deleted' = FALSE
      /\ removed' = removed \cup Tasks(store) \cup ToldTasks
    BY DEF Crash
<1>4. RunOK' /\ Kept(run.said)'
    <2>1. Len(<<>>) = 0 /\ <<>> \in Seq(Answers) /\ DOMAIN <<>> = {}
        OBVIOUS
    <2> QED
        BY <1>3, <2>1, EmptyPlan DEF Idle, RunOK, Kept
<1>5. chat' \in ChatType /\ \A a \in Asks : chat'[a].said = chat[a].said
    BY <1>1 DEF Crash, TypeOK, ChatType
<1>6. \A a \in Asks : Kept(chat[a].said)'
    BY <1>3, <1>5 DEF Kept, ToldTasks
<1>7. crashes' \in 0..MaxCrashes
    BY <1>1, EngineAssumption DEF Crash, TypeOK
<1>8. removed' \subseteq Origins
    BY <1>1, <1>3 DEF TypeOK, ToldTasks
<1>9. calendar' \in Seq(Origins)
    BY <1>3
<1>10. deleted' \in BOOLEAN
    BY <1>3, ZenonT(30)
<1>11. TypeOK'
    BY <1>2, <1>4, <1>5, <1>7, <1>8, <1>9, <1>10 DEF TypeOK, RunOK, ChatType, Keyed
<1> QED
    BY <1>2, <1>4, <1>6, <1>11 DEF EInv, Told

-----------------------------------------------------------------------------
\* Keys stay in order and what was told stays true until the first DELETE: the
\* inductive invariant holds in every state.
THEOREM EngineInvariance == Spec => []EInv
<1>1. Init => EInv
    <2> SUFFICES ASSUME Init PROVE EInv
        OBVIOUS
    <2>1. Keyed(store) /\ Numbered(store) /\ Tasks(store) \subseteq Origins
        BY InitialKeys DEF Init
    <2>2. DOMAIN <<>> = {} /\ <<>> \in Seq(Answers) /\ <<>> \in Seq(Origins)
        OBVIOUS
    <2>3. RunOK /\ Kept(run.said)
        BY IdleRun DEF Init
    <2>4. chat \in ChatType /\ \A a \in Asks : Kept(chat[a].said)
        BY <2>2 DEF Init, ChatType, Kept
    <2>5. crashes \in 0..MaxCrashes
        BY EngineAssumption DEF Init
    <2>6. deleted \in BOOLEAN
        BY ZenonT(30) DEF Init
    <2>7. TypeOK
        BY <2>1, <2>2, <2>3, <2>4, <2>5, <2>6 DEF Init, TypeOK, RunOK, ChatType, Keyed
    <2> QED
        BY <2>1, <2>3, <2>4, <2>7 DEF EInv, Told
<1>2. EInv /\ [Next]_vars => EInv'
    <2> SUFFICES ASSUME EInv, [Next]_vars PROVE EInv'
        OBVIOUS
    <2>1. CASE UNCHANGED vars
        BY <2>1 DEF vars, EInv, TypeOK, Told, Keyed, Numbered, Kept, Count, Tasks
    <2> QED
        BY <2>1, AskStep, ExecuteActionStep, JoinStep, PostStep, DeleteStep, CrashStep
           DEF Next, Loop
<1> QED
    BY <1>1, <1>2, PTL DEF Spec

\* Every state is well typed: what the backend keeps and says names tasks and
\* events that a request, a POST or the seed data made.
THEOREM EngineTypes == Spec => []TypeOK
<1>1. EInv => TypeOK
    BY DEF EInv
<1> QED
    BY <1>1, EngineInvariance, PTL

\* Until the first DELETE of a process no task a user was told of is
\* overwritten, whatever the questions, POSTs and restarts.
THEOREM ToldTasksStay == Spec => []ConfirmedKept
<1>1. EInv => ConfirmedKept
    BY DEF EInv, Told, Kept, ConfirmedKept
<1> QED
    BY <1>1, EngineInvariance, PTL
=============================================================================
