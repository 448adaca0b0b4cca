-------------------------- MODULE AgentLoopProofs --------------------------
(* What holds of the agent loop for every set of items and of calls of Stop,  *)
(* any number of loops on a checkpoint and any number of failures: types,     *)
(* where an accepted item is, and when a preempt is answered.                 *)
EXTENDS AgentLoop, SequenceTheorems, TLAPS

USE DEF results

-----------------------------------------------------------------------------
(* Sequences without repetition.                                            *)

LEMMA EmptyLine == <<>> \in Lines /\ Elems(<<>>) = {}
  BY DEF Lines, Elems, IsInjective

LEMMA LineElems == \A s \in Lines : s \in Seq(Items) /\ Elems(s) \subseteq Items
  BY DEF Lines, Elems

LEMMA EmptyElems ==
    ASSUME NEW s \in Lines, Elems(s) = {}
    PROVE  s = <<>>
  <1>1. s \in Seq(Items) /\ Len(s) \in Nat
    BY DEF Lines
  <1>2. 1 \in DOMAIN s => s[1] \in Elems(s)
    BY DEF Elems
  <1>3. Len(s) = 0
    BY <1>1, <1>2
  <1> QED
    BY <1>1, <1>3, EmptySeq

LEMMA ConcatLine ==
    ASSUME NEW s \in Lines, NEW t \in Lines
    PROVE  /\ Elems(s \o t) = Elems(s) \cup Elems(t)
           /\ Elems(s) \cap Elems(t) = {} => s \o t \in Lines
  <1>1. s \in Seq(Items) /\ t \in Seq(Items)
    BY DEF Lines
  <1>2. /\ s \o t \in Seq(Items) /\ Len(s \o t) = Len(s) + Len(t)
        /\ Len(s) \in Nat /\ Len(t) \in Nat
        /\ \A k \in 1..Len(s) + Len(t) :
              (s \o t)[k] = IF k <= Len(s) THEN s[k] ELSE t[k - Len(s)]
    BY <1>1
  <1>3. Elems(s \o t) \subseteq Elems(s) \cup Elems(t)
    <2> SUFFICES ASSUME NEW k \in 1..Len(s) + Len(t)
                 PROVE  (s \o t)[k] \in Elems(s) \cup Elems(t)
      BY <1>2 DEF Elems
    <2>1. CASE k <= Len(s)
      BY <2>1, <1>1, <1>2 DEF Elems
    <2>2. CASE ~(k <= Len(s))
      <3>1. k - Len(s) \in 1..Len(t) /\ (s \o t)[k] = t[k - Len(s)]
        BY <2>2, <1>2
      <3> QED
        BY <3>1, <1>1 DEF Elems
    <2> QED
      BY <2>1, <2>2
  <1>4. Elems(s) \subseteq Elems(s \o t)
    <2> SUFFICES ASSUME NEW k \in 1..Len(s)
                 PROVE  s[k] \in Elems(s \o t)
      BY <1>1 DEF Elems
    <2>1. k \in 1..Len(s \o t) /\ (s \o t)[k] = s[k]
      BY <1>2
    <2> QED
      BY <2>1, <1>2 DEF Elems
  <1>5. Elems(t) \subseteq Elems(s \o t)
    <2> SUFFICES ASSUME NEW k \in 1..Len(t)
                 PROVE  t[k] \in Elems(s \o t)
      BY <1>1 DEF Elems
    <2>1. k + Len(s) \in 1..Len(s \o t) /\ (s \o t)[k + Len(s)] = t[k]
      BY <1>2
    <2> QED
      BY <2>1, <1>2 DEF Elems
  <1>6. ASSUME Elems(s) \cap Elems(t) = {}
        PROVE  s \o t \in Lines
    <2> SUFFICES ASSUME NEW a \in 1..Len(s) + Len(t), NEW b \in 1..Len(s) + Len(t),
                        (s \o t)[a] = (s \o t)[b]
                 PROVE  a = b
      <3>1. DOMAIN (s \o t) = 1..Len(s) + Len(t) /\ s \o t \in Seq(Items)
        BY <1>2
      <3>2. IsInjective(s \o t) => s \o t \in Lines
        BY <3>1 DEF Lines
      <3> QED
        BY <3>1, <3>2 DEF IsInjective
    <2>1. /\ \A k \in 1..Len(s) : s[k] \in Elems(s)
          /\ \A k \in 1..Len(t) : t[k] \in Elems(t)
      BY <1>1 DEF Elems
    <2>2. /\ \A j, k \in 1..Len(s) : s[j] = s[k] => j = k
          /\ \A j, k \in 1..Len(t) : t[j] = t[k] => j = k
      BY <1>1 DEF Lines, IsInjective
    <2>3. CASE a <= Len(s) /\ b <= Len(s)
      BY <2>2, <2>3, <1>2
    <2>4. CASE ~(a <= Len(s)) /\ ~(b <= Len(s))
      <3>1. a - Len(s) \in 1..Len(t) /\ b - Len(s) \in 1..Len(t)
            /\ t[a - Len(s)] = t[b - Len(s)]
        BY <2>4, <1>2
      <3> QED
        BY <3>1, <2>2, <1>2
    <2>5. CASE a <= Len(s) /\ ~(b <= Len(s))
      <3>1. b - Len(s) \in 1..Len(t) /\ s[a] = t[b - Len(s)] /\ a \in 1..Len(s)
        BY <2>5, <1>2
      <3> QED
        BY <3>1, <2>1, <1>6
    <2>6. CASE ~(a <= Len(s)) /\ b <= Len(s)
      <3>1. a - Len(s) \in 1..Len(t) /\ s[b] = t[a - Len(s)] /\ b \in 1..Len(s)
        BY <2>6, <1>2
      <3> QED
        BY <3>1, <2>1, <1>6
    <2> QED
      BY <2>3, <2>4, <2>5, <2>6
  <1> QED
    BY <1>3, <1>4, <1>5, <1>6

LEMMA AppendLine ==
    ASSUME NEW s \in Lines, NEW i \in Items, i \notin Elems(s)
    PROVE  Append(s, i) \in Lines /\ Elems(Append(s, i)) = Elems(s) \cup {i}
  <1>1. <<i>> \in Lines /\ Elems(<<i>>) = {i}
    <2>1. <<i>> \in Seq(Items) /\ DOMAIN <<i>> = {1}
      OBVIOUS
    <2> QED
      BY <2>1 DEF Lines, Elems, IsInjective
  <1>2. Append(s, i) = s \o <<i>>
    BY AppendIsConcat DEF Lines
  <1> QED
    BY <1>1, <1>2, ConcatLine

\* A line cut in two.
LEMMA SplitLine ==
    ASSUME NEW s \in Lines, NEW n \in 0..Len(s)
    PROVE  /\ SubSeq(s, 1, n) \in Lines /\ SubSeq(s, n + 1, Len(s)) \in Lines
           /\ Elems(SubSeq(s, 1, n)) \cup Elems(SubSeq(s, n + 1, Len(s))) = Elems(s)
           /\ Elems(SubSeq(s, 1, n)) \cap Elems(SubSeq(s, n + 1, Len(s))) = {}
  <1> DEFINE a == SubSeq(s, 1, n)
             b == SubSeq(s, n + 1, Len(s))
  <1>1. /\ s \in Seq(Items) /\ Len(s) \in Nat /\ n \in Nat /\ n <= Len(s)
        /\ \A j, k \in 1..Len(s) : s[j] = s[k] => j = k
    BY DEF Lines, IsInjective
  <1>2. a \in Seq(Items) /\ Len(a) = n /\ \A k \in 1..n : a[k] = s[k]
    BY <1>1
  <1>3. /\ b \in Seq(Items) /\ Len(b) = Len(s) - n
        /\ \A k \in 1..Len(s) - n : b[k] = s[k + n]
    <2>1. \A k \in n + 1..Len(s) : s[k] \in Items
      BY <1>1
    <2> QED
      BY <1>1, <2>1, SubSeqProperties
  <1> HIDE DEF a, b
  <1>4. Elems(a) = {s[k] : k \in 1..n}
    BY <1>2 DEF Elems
  <1>5. Elems(b) = {s[k] : k \in n + 1..Len(s)}
    <2>1. \A k \in 1..Len(s) - n : b[k] \in {s[j] : j \in n + 1..Len(s)}
      BY <1>1, <1>3
    <2>2. \A k \in n + 1..Len(s) : k - n \in 1..Len(s) - n /\ s[k] = b[k - n]
      BY <1>1, <1>3
    <2>3. DOMAIN b = 1..Len(s) - n
      BY <1>3
    <2> QED
      BY <2>1, <2>2, <2>3 DEF Elems
  <1>6. Elems(s) = {s[k] : k \in 1..Len(s)}
    BY <1>1 DEF Elems
  <1>7. Elems(a) \cup Elems(b) = Elems(s)
    BY <1>1, <1>4, <1>5, <1>6
  <1>8. Elems(a) \cap Elems(b) = {}
    BY <1>1, <1>4, <1>5
  <1>9. a \in Lines
    BY <1>1, <1>2 DEF Lines, IsInjective
  <1>10. b \in Lines
    <2> SUFFICES ASSUME NEW j \in 1..Len(s) - n, NEW k \in 1..Len(s) - n, b[j] = b[k]
                 PROVE  j = k
      BY <1>3 DEF Lines, IsInjective
    <2>1. j + n \in 1..Len(s) /\ k + n \in 1..Len(s) /\ s[j + n] = s[k + n]
      BY <1>1, <1>3
    <2> QED
      BY <2>1, <1>1
  <1> QED
    BY <1>7, <1>8, <1>9, <1>10 DEF a, b

LEMMA HeadLine ==
    ASSUME NEW s \in Lines, s # <<>>
    PROVE  /\ <<Head(s)>> \in Lines /\ Tail(s) \in Lines
           /\ Elems(<<Head(s)>>) \cup Elems(Tail(s)) = Elems(s)
           /\ Elems(<<Head(s)>>) \cap Elems(Tail(s)) = {}
  <1>1. s \in Seq(Items) /\ Len(s) \in Nat /\ Len(s) >= 1
    BY DEF Lines
  <1>2. Tail(s) = SubSeq(s, 2, Len(s))
    BY <1>1, TailIsSubSeq
  <1>3. <<Head(s)>> = SubSeq(s, 1, 1)
    BY <1>1
  <1>4. Tail(s) = SubSeq(s, 1 + 1, Len(s))
    BY <1>2
  <1>5. 1 \in 0..Len(s)
    BY <1>1
  <1>6. /\ SubSeq(s, 1, 1) \in Lines /\ SubSeq(s, 1 + 1, Len(s)) \in Lines
        /\ Elems(SubSeq(s, 1, 1)) \cup Elems(SubSeq(s, 1 + 1, Len(s))) = Elems(s)
        /\ Elems(SubSeq(s, 1, 1)) \cap Elems(SubSeq(s, 1 + 1, Len(s))) = {}
    BY <1>5, SplitLine
  <1> QED
    BY <1>3, <1>4, <1>6
-----------------------------------------------------------------------------
(* The invariant.                                                           *)

LoopStates == [pc : {"new", "load", "top", "receive", "idling", "received",
                     "idled", "drain", "begin", "plan", "prepare", "launch", "turn",
                     "cleanup", "close", "done"},
               items : Lines, n : Nat, resumes : BOOLEAN,
               err : {"none", "error", "cancel"}]
PushStates == [pc : {"idle", "checked", "begun", "sent", "waiting", "accepted", "late"},
               kind : {"plain", "strategy", "preempt", "delayed"}, target : Nat]
Resumes    == [on : BOOLEAN, items : Lines]
Lefts      == [items : Lines, runner : BOOLEAN, captured : BOOLEAN]
Checkpoints == [exists : BOOLEAN, spent : BOOLEAN, runner : BOOLEAN,
                unhandled : Lines, canceled : Lines]

\* An accepted item has one place, another item none.
Accepted(i) == push[i].pc \in {"sent", "waiting", "accepted"}
InOnePlace(i) == \E k \in 1..9 : \A j \in 1..9 : i \in Places[j] <=> j = k
Placed == \A i \in Items : IF Accepted(i) THEN InOnePlace(i)
                           ELSE \A k \in 1..9 : i \notin Places[k]

\* When the sequences are empty.
EmptyHanded == {"new", "load", "top", "receive", "idling", "cleanup", "close", "done"}
InHand ==
    /\ loop.pc \in EmptyHanded => loop.items = <<>>
    /\ resume.items # <<>> => resume.on
    /\ resume.on => loop.pc = "top" \/ (loop.pc = "drain" /\ loop.items = <<>>)
    /\ left.items # <<>> => loop.pc = "cleanup"
    /\ loop.pc = "done" => closed /\ buffer = <<>>
    /\ loop.pc = "prepare" => loop.n <= Len(loop.items)
    /\ Elems(saved.unhandled) \cap Elems(saved.canceled) = {}
    /\ saved.exists \/ Checkpointed = {}

Sequences ==
    /\ buffer \in Lines /\ closed \in BOOLEAN
    /\ loop \in LoopStates /\ resume \in Resumes /\ left \in Lefts
    /\ saved \in Checkpoints
    /\ handled \subseteq Items /\ returned \subseteq Items /\ resumable \subseteq Items
    /\ replayed \subseteq Items /\ stale \in BOOLEAN
    /\ tooLate \subseteq Items /\ forgotten \subseteq Items
Lists == Sequences /\ InHand /\ Placed

\* What the checkpoint holds: accepted items, of which none is in the buffer of
\* a loop that has still to read it or came in too late; once it is spent, only
\* a deletion or a writing that failed leaves it to the next loop.
Outside == {"new", "load", "close", "done"}
Stored ==
    /\ \A i \in Items : i \in Checkpointed => Accepted(i)
    /\ loop.pc \in Outside => Elems(buffer) \cap Checkpointed = {}
    /\ Checkpointed \cap tooLate = {}
    /\ loop.pc \in Outside /\ saved.spent => stale
    /\ replayed # {} => stale

LEMMA PlacesAre ==
    /\ DOMAIN Places = 1..9
    /\ Places[1] = Elems(buffer) /\ Places[2] = Elems(loop.items)
    /\ Places[3] = Elems(resume.items) /\ Places[4] = Elems(left.items)
    /\ Places[5] = Unread
    /\ Places[6] = handled /\ Places[7] = returned \ resumable
    /\ Places[8] = tooLate /\ Places[9] = forgotten
  BY DEF Places

LEMMA PlacesItems == Sequences => \A k \in 1..9 : Places[k] \subseteq Items
  <1> SUFFICES ASSUME Sequences PROVE \A k \in 1..9 : Places[k] \subseteq Items
    OBVIOUS
  <1>1. /\ Elems(buffer) \subseteq Items /\ Elems(loop.items) \subseteq Items
        /\ Elems(resume.items) \subseteq Items /\ Elems(left.items) \subseteq Items
        /\ Checkpointed \subseteq Items
    BY LineElems DEF Sequences, LoopStates, Resumes, Lefts, Checkpoints, Checkpointed
  <1>2. Unread \subseteq Items
    BY <1>1 DEF Unread
  <1> QED
    BY <1>1, <1>2, PlacesAre DEF Sequences

\* Two places have no item in common.
LEMMA Apart ==
    ASSUME Sequences, Placed, NEW j \in 1..9, NEW k \in 1..9, j # k
    PROVE  Places[j] \cap Places[k] = {}
  <1> SUFFICES ASSUME NEW i \in Items, i \in Places[j], i \in Places[k] PROVE FALSE
    BY PlacesItems
  <1> QED
    BY DEF Placed, InOnePlace

\* Items move between the places of K, and none is accepted.
SameAccepted == \A i \in Items : Accepted(i)' <=> Accepted(i)
Still(K)     == \A k \in (1..9) \ K : Places'[k] = Places[k]
Moved(K)     ==
    /\ \A i \in Items : (\E k \in K : i \in Places'[k]) <=> (\E k \in K : i \in Places[k])
    /\ \A j, k \in K : j # k => Places'[j] \cap Places'[k] = {}

LEMMA Moves ==
    ASSUME Placed, NEW K, K \subseteq 1..9, SameAccepted, Still(K), Moved(K)
    PROVE  Placed'
  <1> SUFFICES ASSUME NEW i \in Items
               PROVE  IF Accepted(i)' THEN InOnePlace(i)'
                      ELSE \A k \in 1..9 : i \notin Places'[k]
    BY DEF Placed
  <1>0. Accepted(i)' <=> Accepted(i)
    BY DEF SameAccepted
  <1>1. CASE ~Accepted(i)
    <2>1. \A k \in 1..9 : i \notin Places[k]
      BY <1>1 DEF Placed
    <2>2. \A k \in 1..9 : i \notin Places'[k]
      BY <2>1 DEF Still, Moved
    <2> QED
      BY <1>0, <1>1, <2>2
  <1>2. CASE Accepted(i)
    <2>1. PICK k \in 1..9 : \A j \in 1..9 : i \in Places[j] <=> j = k
      BY <1>2 DEF Placed, InOnePlace
    <2>2. CASE k \in K
      <3>1. PICK h \in K : i \in Places'[h]
        BY <2>1, <2>2 DEF Moved
      <3>2. \A j \in 1..9 : i \in Places'[j] <=> j = h
        BY <2>1, <2>2, <3>1 DEF Still, Moved
      <3> QED
        BY <1>0, <1>2, <3>1, <3>2 DEF InOnePlace
    <2>3. CASE k \notin K
      <3>1. \A j \in 1..9 : i \in Places'[j] <=> j = k
        BY <2>1, <2>3 DEF Still, Moved
      <3> QED
        BY <1>0, <1>2, <3>1 DEF InOnePlace
    <2> QED
      BY <2>2, <2>3
  <1> QED
    BY <1>1, <1>2

\* An item is taken in: into the buffer.
LEMMA TakenIn ==
    ASSUME Placed, NEW i \in Items, ~Accepted(i), Accepted(i)',
           \A j \in Items \ {i} : Accepted(j)' <=> Accepted(j),
           Places'[1] = Places[1] \cup {i}, \A k \in 2..9 : Places'[k] = Places[k]
    PROVE  Placed'
  <1> SUFFICES ASSUME NEW j \in Items
               PROVE  IF Accepted(j)' THEN InOnePlace(j)'
                      ELSE \A k \in 1..9 : j \notin Places'[k]
    BY DEF Placed
  <1>1. CASE j = i
    <2>1. \A k \in 1..9 : j \in Places'[k] <=> k = 1
      BY <1>1 DEF Placed
    <2> QED
      BY <1>1, <2>1 DEF InOnePlace
  <1>2. CASE j # i
    <2>1. \A k \in 1..9 : j \in Places'[k] <=> j \in Places[k]
      BY <1>2
    <2> QED
      BY <1>2, <2>1 DEF Placed, InOnePlace
  <1> QED
    BY <1>1, <1>2

LEMMA SamePlaces ==
    ASSUME Placed, SameAccepted, Still({})
    PROVE  Placed'
  <1>1. Moved({}) /\ {} \subseteq 1..9
    BY DEF Moved
  <1> QED
    BY <1>1, Moves

LEMMA MoveTwo ==
    ASSUME Placed, NEW a \in 1..9, NEW b \in 1..9, a # b, SameAccepted, Still({a, b}),
           Places'[a] \cup Places'[b] = Places[a] \cup Places[b],
           Places'[a] \cap Places'[b] = {}
    PROVE  Placed'
  <1>1. Moved({a, b})
    BY DEF Moved
  <1> QED
    BY <1>1, Moves

LEMMA MoveThree ==
    ASSUME Placed, NEW a \in 1..9, NEW b \in 1..9, NEW c \in 1..9,
           a # b, a # c, b # c, SameAccepted, Still({a, b, c}),
           Places'[a] \cup Places'[b] \cup Places'[c] =
               Places[a] \cup Places[b] \cup Places[c],
           Places'[a] \cap Places'[b] = {}, Places'[a] \cap Places'[c] = {},
           Places'[b] \cap Places'[c] = {}
    PROVE  Placed'
  <1>1. Moved({a, b, c})
    BY DEF Moved
  <1> QED
    BY <1>1, Moves

LEMMA NewPlaces ==
    /\ DOMAIN Places' = 1..9
    /\ Places'[1] = Elems(buffer') /\ Places'[2] = Elems(loop'.items)
    /\ Places'[3] = Elems(resume'.items) /\ Places'[4] = Elems(left'.items)
    /\ Places'[5] = Unread'
    /\ Places'[6] = handled' /\ Places'[7] = returned' \ resumable'
    /\ Places'[8] = tooLate' /\ Places'[9] = forgotten'
  BY DEF Places

LEMMA Stays ==
    ASSUME NEW K,
           1 \in K \/ buffer' = buffer, 2 \in K \/ loop'.items = loop.items,
           3 \in K \/ resume'.items = resume.items, 4 \in K \/ left'.items = left.items,
           5 \in K \/ saved' = saved, 6 \in K \/ handled' = handled,
           7 \in K \/ (returned' = returned /\ resumable' = resumable),
           8 \in K \/ tooLate' = tooLate, 9 \in K \/ forgotten' = forgotten
    PROVE  Still(K)
  <1>1. \A k : k \in 1..9 <=> k \in {1, 2, 3, 4, 5, 6, 7, 8, 9}
    OBVIOUS
  <1>2. 5 \in K \/ Places'[5] = Places[5]
    BY PlacesAre, NewPlaces DEF Unread, Checkpointed
  <1>3. /\ (1 \in K \/ Places'[1] = Places[1]) /\ (2 \in K \/ Places'[2] = Places[2])
        /\ (3 \in K \/ Places'[3] = Places[3]) /\ (4 \in K \/ Places'[4] = Places[4])
        /\ (6 \in K \/ Places'[6] = Places[6]) /\ (7 \in K \/ Places'[7] = Places[7])
        /\ (8 \in K \/ Places'[8] = Places[8]) /\ (9 \in K \/ Places'[9] = Places[9])
    BY PlacesAre, NewPlaces
  <1> QED
    BY <1>1, <1>2, <1>3 DEF Still

\* A step that moves nothing and leaves the loop where it is.
LEMMA QuietLists ==
    ASSUME Lists, closed' \in {closed, TRUE},
           UNCHANGED <<buffer, loop, resume, left, saved, results, forgotten>>,
           SameAccepted
    PROVE  Lists'
  <1>1. Sequences'
    BY DEF Lists, Sequences
  <1>2. InHand'
    BY DEF Lists, InHand, Checkpointed
  <1>3. Still({})
    BY Stays
  <1> QED
    BY <1>1, <1>2, <1>3, SamePlaces DEF Lists

\* A step of the loop that moves nothing.
LEMMA WalkLists ==
    ASSUME Lists, UNCHANGED <<buffer, closed, push, resume, saved, results, forgotten>>,
           left' \in Lefts, left'.items = left.items,
           loop' \in LoopStates, loop'.items = loop.items,
           InHand'
    PROVE  Lists'
  <1>1. Sequences'
    BY DEF Lists, Sequences
  <1>2. Still({})
    BY Stays
  <1>3. SameAccepted
    BY DEF SameAccepted, Accepted
  <1> QED
    BY <1>1, <1>2, <1>3, SamePlaces DEF Lists

\* The loop leaves for its cleanup and puts what it has in hand back first.
LEMMA GiveBackLists ==
    ASSUME Lists, ~resume.on,
           buffer' = loop.items \o buffer, loop' \in LoopStates,
           loop'.pc = "cleanup", loop'.items = <<>>,
           UNCHANGED <<closed, push, resume, left, saved, results, forgotten>>
    PROVE  Lists'
  <1>1. loop.items \in Lines /\ buffer \in Lines
    BY DEF Lists, Sequences, LoopStates
  <1>2. Elems(loop.items) \cap Elems(buffer) = {}
    BY Apart, PlacesAre DEF Lists
  <1>3. /\ Elems(loop.items \o buffer) = Elems(loop.items) \cup Elems(buffer)
        /\ loop.items \o buffer \in Lines
    BY <1>1, <1>2, ConcatLine
  <1>4. Sequences'
    BY <1>3 DEF Lists, Sequences
  <1>5. InHand'
    BY DEF Lists, InHand, Checkpointed
  <1>6. SameAccepted
    BY DEF SameAccepted, Accepted
  <1>7. /\ Still({1, 2})
        /\ Places'[1] = Elems(loop.items) \cup Elems(buffer) /\ Places'[2] = {}
        /\ Places[1] = Elems(buffer) /\ Places[2] = Elems(loop.items)
    <2>1. Still({1, 2})
      BY Stays
    <2> QED
      BY <2>1, <1>3, PlacesAre, NewPlaces, EmptyLine
  <1>8. Placed'
    <2>1. 1 \in 1..9 /\ 2 \in 1..9 /\ 1 # 2
      OBVIOUS
    <2>2. Placed
      BY DEF Lists
    <2>3. Places'[1] \cup Places'[2] = Places[1] \cup Places[2]
      BY <1>7
    <2>4. Places'[1] \cap Places'[2] = {}
      BY <1>7
    <2> QED
      BY <2>1, <2>2, <2>3, <2>4, <1>6, <1>7, MoveTwo
  <1> QED
    BY <1>4, <1>5, <1>8 DEF Lists

\* The loop forgets, or has handled, what it has in hand.
LEMMA DropLists ==
    ASSUME Lists, ~resume.on,
           loop' \in LoopStates, loop'.pc \in {"cleanup", "top"}, loop'.items = <<>>,
           UNCHANGED <<buffer, closed, push, resume, saved, returned, resumable, stale,
                       replayed, tooLate>>,
           left' \in Lefts, left'.items = <<>>, left.items = <<>>,
           \/ forgotten' = forgotten \cup Elems(loop.items) /\ UNCHANGED handled
           \/ handled' = handled \cup Elems(loop.items) /\ UNCHANGED forgotten
    PROVE  Lists'
  <1>1. loop.items \in Lines /\ Elems(loop.items) \subseteq Items
    BY LineElems DEF Lists, Sequences, LoopStates
  <1>2. Sequences'
    BY <1>1 DEF Lists, Sequences
  <1>3. InHand'
    BY DEF Lists, InHand, Checkpointed
  <1>4. SameAccepted
    BY DEF SameAccepted, Accepted
  <1>5. /\ Still({2, 6, 9})
        /\ Places'[2] = {} /\ Places[2] = Elems(loop.items)
        /\ Places[6] = handled /\ Places[9] = forgotten
        /\ Places'[6] = handled' /\ Places'[9] = forgotten'
    <2>1. Still({2, 6, 9})
      BY Stays
    <2> QED
      BY <2>1, PlacesAre, NewPlaces, EmptyLine
  <1>6. /\ Elems(loop.items) \cap handled = {} /\ Elems(loop.items) \cap forgotten = {}
        /\ handled \cap forgotten = {}
    BY <1>5, Apart DEF Lists
  <1>7. Placed'
    <2>1. 2 \in 1..9 /\ 6 \in 1..9 /\ 9 \in 1..9 /\ 2 # 6 /\ 2 # 9 /\ 6 # 9
      OBVIOUS
    <2>2. Placed
      BY DEF Lists
    <2>3. Places'[2] \cup Places'[6] \cup Places'[9] = Places[2] \cup Places[6] \cup Places[9]
      BY <1>5
    <2>4. /\ Places'[2] \cap Places'[6] = {} /\ Places'[2] \cap Places'[9] = {}
          /\ Places'[6] \cap Places'[9] = {}
      BY <1>5, <1>6
    <2> QED
      BY <2>1, <2>2, <2>3, <2>4, <1>4, <1>5, MoveThree
  <1> QED
    BY <1>2, <1>3, <1>7 DEF Lists

LEMMA Tame ==
    Lists => /\ loop.items \in Lines /\ buffer \in Lines /\ resume.items \in Lines
             /\ left.items \in Lines /\ saved.unhandled \in Lines /\ saved.canceled \in Lines
             /\ left \in Lefts /\ Placed /\ Nothing \in Lefts /\ Nothing.items = <<>>
             /\ resume.items # <<>> => resume.on
  BY EmptyLine DEF Lists, Sequences, InHand, LoopStates, Resumes, Lefts, Checkpoints, Nothing

LEMMA StartLists == Lists /\ Start => Lists'
  <1> SUFFICES ASSUME Lists, Start PROVE Lists'
    OBVIOUS
  <1>1. loop' \in LoopStates /\ loop'.pc = "load" /\ loop'.items = loop.items
    BY DEF Start, Go, Lists, Sequences, LoopStates
  <1>2. UNCHANGED <<buffer, closed, push, resume, left, saved, results, forgotten>>
    BY DEF Start, inbox, pushes, active, history
  <1>3. InHand'
    BY <1>1, <1>2 DEF Start, Lists, InHand, EmptyHanded, Checkpointed
  <1> QED
    BY <1>1, <1>2, <1>3, Tame, WalkLists

\* What a loop finds in the checkpoint goes to the turn, or to the buffer; what
\* a spent one brings back was handled, handed back or forgotten.
LEMMA LoadLists == Lists /\ Stored /\ LoadCheckpoint => Lists'
  <1> SUFFICES ASSUME Lists, Stored, LoadCheckpoint PROVE Lists'
    OBVIOUS
  <1>1. loop' \in LoopStates /\ loop'.pc = "top" /\ loop'.items = loop.items
    BY DEF LoadCheckpoint, Go, Lists, Sequences, LoopStates
  <1>2. /\ UNCHANGED <<closed, push, left, resumable, stale, tooLate>>
        /\ loop.pc = "load" /\ SameAccepted
        /\ replayed' = replayed \cup Replayed
        /\ handled' = handled \ Replayed /\ returned' = returned \ Replayed
    BY DEF LoadCheckpoint, pushes, active, SameAccepted, Accepted
  <1>3. loop.items = <<>> /\ left.items = <<>> /\ resume.items = <<>> /\ ~resume.on
    BY <1>2 DEF Lists, InHand, EmptyHanded
  <1>4. /\ saved.exists \in BOOLEAN /\ saved' = [saved EXCEPT !.spent = saved.exists]
        /\ saved \in Checkpoints
    BY DEF LoadCheckpoint, Lists, Sequences, Checkpoints
  <1>5. /\ saved' \in Checkpoints /\ saved'.exists = saved.exists
        /\ saved'.spent = saved.exists
        /\ saved'.unhandled = saved.unhandled /\ saved'.canceled = saved.canceled
    BY <1>4 DEF Checkpoints
  <1>6. /\ Checkpointed = Elems(saved.unhandled) \cup Elems(saved.canceled)
        /\ Checkpointed' = Checkpointed /\ Checkpointed \subseteq Items
        /\ Replayed \subseteq Checkpointed
        /\ Unread = Checkpointed \ Replayed /\ Unread' = {}
        /\ saved.spent \/ Replayed = {}
        /\ ~saved.spent \/ Replayed = Checkpointed
    BY <1>5, Tame, LineElems DEF Checkpointed, Replayed, Unread, Lists, InHand
  <1>7. /\ Places[1] = Elems(buffer) /\ Places[2] = {} /\ Places[3] = {} /\ Places[4] = {}
        /\ Places[5] = Unread /\ Places[6] = handled /\ Places[7] = returned \ resumable
        /\ Places[8] = tooLate /\ Places[9] = forgotten
        /\ Places'[1] = Elems(buffer') /\ Places'[2] = {}
        /\ Places'[3] = Elems(resume'.items) /\ Places'[4] = {} /\ Places'[5] = {}
        /\ Places'[6] = handled \ Replayed /\ Places'[7] = (returned \ Replayed) \ resumable
        /\ Places'[8] = tooLate /\ Places'[9] = forgotten'
    BY <1>1, <1>2, <1>3, <1>6, PlacesAre, NewPlaces, EmptyLine
  <1>8. /\ Elems(saved.unhandled) \cap Elems(saved.canceled) = {}
        /\ Elems(buffer) \cap Checkpointed = {} /\ tooLate \cap Checkpointed = {}
    BY <1>2 DEF Stored, Outside, Lists, InHand
  <1>9. /\ Elems(saved.unhandled) \cap Elems(buffer) = {}
        /\ Elems(saved.canceled) \cap Elems(buffer) = {}
    BY <1>6, <1>8
  <1>10. /\ Elems(buffer) \cap handled = {} /\ Elems(buffer) \cap (returned \ resumable) = {}
         /\ Elems(buffer) \cap forgotten = {} /\ handled \cap forgotten = {}
         /\ handled \cap (returned \ resumable) = {}
         /\ forgotten \cap (returned \ resumable) = {}
         /\ Unread \cap handled = {} /\ Unread \cap (returned \ resumable) = {}
         /\ Unread \cap forgotten = {}
    BY <1>7, Apart DEF Lists
  \* What the checkpoint holds and no loop has read was in one of three places.
  <1>11. \A i \in Replayed : i \in handled \/ i \in returned \ resumable \/ i \in forgotten
    <2> SUFFICES ASSUME NEW i \in Replayed
                 PROVE  i \in handled \/ i \in returned \ resumable \/ i \in forgotten
      OBVIOUS
    <2>1. i \in Items /\ Accepted(i) /\ i \notin Unread
      BY <1>6 DEF Stored
    <2>2. PICK k \in 1..9 : i \in Places[k]
      BY <2>1 DEF Lists, Placed, InOnePlace
    <2>3. k \in {1, 2, 3, 4, 5, 6, 7, 8, 9}
      BY <2>2
    <2> QED
      BY <1>6, <1>7, <1>8, <2>1, <2>2, <2>3
  <1>12. replayed' \subseteq Items /\ handled' \subseteq Items /\ returned' \subseteq Items
    BY <1>2, <1>6 DEF Lists, Sequences
  <1>13. CASE saved.exists /\ saved.runner
    <2> DEFINE l == saved.canceled \o saved.unhandled
    <2>1. l \in Lines /\ Elems(l) = Elems(saved.canceled) \cup Elems(saved.unhandled)
      BY <1>8, Tame, ConcatLine
    <2>2. /\ l \o buffer \in Lines
          /\ Elems(l \o buffer) = Elems(l) \cup Elems(buffer)
      BY <1>9, <2>1, Tame, ConcatLine
    <2>3. resume' = [on |-> TRUE, items |-> l \o buffer] /\ buffer' = <<>>
          /\ forgotten' = forgotten \ Replayed
      BY <1>13 DEF LoadCheckpoint
    <2> HIDE DEF l
    <2>4. Sequences'
      BY <1>1, <1>2, <1>5, <1>12, <2>2, <2>3, EmptyLine DEF Lists, Sequences, Resumes
    <2>5. InHand'
      BY <1>1, <1>2, <1>3, <1>5, <2>3 DEF Lists, InHand, EmptyHanded, Checkpointed
    <2>6. Still({1, 3, 5, 6, 7, 9})
      BY <1>1, <1>2, Stays
    <2>7. /\ Places'[1] = {} /\ Places'[3] = Checkpointed \cup Elems(buffer)
          /\ Places'[9] = forgotten \ Replayed
      BY <1>6, <1>7, <2>1, <2>2, <2>3, EmptyLine
    <2>8. Moved({1, 3, 5, 6, 7, 9})
      <3>1. \A i \in Items : \/ i \in Places'[1] \/ i \in Places'[3] \/ i \in Places'[5]
                             \/ i \in Places'[6] \/ i \in Places'[7] \/ i \in Places'[9]
                         <=> \/ i \in Places[1] \/ i \in Places[3] \/ i \in Places[5]
                             \/ i \in Places[6] \/ i \in Places[7] \/ i \in Places[9]
        BY <1>6, <1>7, <1>11, <2>7
      <3>2. /\ Places'[3] \cap Places'[6] = {} /\ Places'[3] \cap Places'[7] = {}
            /\ Places'[3] \cap Places'[9] = {} /\ Places'[6] \cap Places'[7] = {}
            /\ Places'[6] \cap Places'[9] = {} /\ Places'[7] \cap Places'[9] = {}
            /\ Places'[1] = {} /\ Places'[5] = {}
        BY <1>6, <1>7, <1>10, <2>7
      <3> QED
        BY <3>1, <3>2 DEF Moved
    <2>9. {1, 3, 5, 6, 7, 9} \subseteq 1..9 /\ Placed
      BY DEF Lists
    <2>10. Placed'
      BY <1>2, <2>6, <2>8, <2>9, Moves
    <2> QED
      BY <2>4, <2>5, <2>10 DEF Lists
  <1>14. CASE ~(saved.exists /\ saved.runner)
    <2>1. /\ buffer' = saved.unhandled \o buffer /\ resume' = resume
          /\ forgotten' = (forgotten \ Replayed) \cup Elems(saved.canceled)
      BY <1>14 DEF LoadCheckpoint, PushFront
    <2>2. /\ saved.unhandled \o buffer \in Lines
          /\ Elems(saved.unhandled \o buffer) = Elems(saved.unhandled) \cup Elems(buffer)
      BY <1>9, Tame, ConcatLine
    <2>3. Sequences'
      BY <1>1, <1>2, <1>5, <1>12, <2>1, <2>2, Tame, LineElems DEF Lists, Sequences
    <2>4. InHand'
      BY <1>1, <1>2, <1>3, <1>5, <2>1 DEF Lists, InHand, EmptyHanded, Checkpointed
    <2>5. Still({1, 5, 6, 7, 9})
      BY <1>1, <1>2, <2>1, Stays
    <2>6. /\ Places'[1] = Elems(saved.unhandled) \cup Elems(buffer)
          /\ Places'[9] = (forgotten \ Replayed) \cup Elems(saved.canceled)
      BY <1>7, <2>1, <2>2
    <2>7. Moved({1, 5, 6, 7, 9})
      <3>1. \A i \in Items : \/ i \in Places'[1] \/ i \in Places'[5]
                             \/ i \in Places'[6] \/ i \in Places'[7] \/ i \in Places'[9]
                         <=> \/ i \in Places[1] \/ i \in Places[5]
                             \/ i \in Places[6] \/ i \in Places[7] \/ i \in Places[9]
        BY <1>6, <1>7, <1>11, <2>6
      <3>2. /\ Places'[1] \cap Places'[6] = {} /\ Places'[1] \cap Places'[7] = {}
            /\ Places'[1] \cap Places'[9] = {} /\ Places'[6] \cap Places'[7] = {}
            /\ Places'[6] \cap Places'[9] = {} /\ Places'[7] \cap Places'[9] = {}
            /\ Places'[5] = {}
        BY <1>6, <1>7, <1>8, <1>9, <1>10, <2>6
      <3> QED
        BY <3>1, <3>2 DEF Moved
    <2>8. {1, 5, 6, 7, 9} \subseteq 1..9 /\ Placed
      BY DEF Lists
    <2>9. Placed'
      BY <1>2, <2>5, <2>7, <2>8, Moves
    <2> QED
      BY <2>3, <2>4, <2>9 DEF Lists
  <1> QED
    BY <1>13, <1>14

LEMMA ExitState ==
    ASSUME NEW err \in {"none", "error", "cancel"}, Exit(err)
    PROVE  loop' \in LoopStates /\ loop'.pc = "cleanup" /\ loop'.items = <<>>
  BY EmptyLine DEF Exit, Idle, LoopStates

LEMMA LoadFailsLists == Lists /\ LoadFails => Lists'
  <1> SUFFICES ASSUME Lists, LoadFails PROVE Lists'
    OBVIOUS
  <1>1. loop' \in LoopStates /\ loop'.pc = "cleanup" /\ loop'.items = <<>>
    BY ExitState DEF LoadFails
  <1>2. /\ UNCHANGED <<buffer, closed, push, resume, left, saved, results, forgotten>>
        /\ loop.pc = "load"
    BY DEF LoadFails, inbox, pushes, active, history
  <1>3. loop.items = <<>> /\ ~resume.on
    BY <1>2 DEF Lists, InHand, EmptyHanded
  <1>4. InHand'
    BY <1>1, <1>2, <1>3 DEF Lists, InHand, Checkpointed
  <1> QED
    BY <1>1, <1>2, <1>3, <1>4, Tame, WalkLists

LEMMA TopLists == Lists /\ Top => Lists'
  <1> SUFFICES ASSUME Lists, Top PROVE Lists'
    OBVIOUS
  <1>1. /\ UNCHANGED <<buffer, closed, push, left, saved, results>>
        /\ loop.pc = "top" /\ SameAccepted
    BY DEF Top, pushes, active, SameAccepted, Accepted
  <1>2. loop.items = <<>>
    BY <1>1 DEF Lists, InHand, Checkpointed, EmptyHanded
  <1>3. CASE Committed
    <2>1. /\ forgotten' = forgotten \cup Elems(resume.items)
          /\ resume' = [on |-> FALSE, items |-> <<>>]
      BY <1>3 DEF Top
    <2>2. loop' \in LoopStates /\ loop'.pc = "cleanup" /\ loop'.items = <<>>
      BY <1>3, ExitState DEF Top
    <2>3. Sequences'
      BY <1>1, <2>1, <2>2, Tame, LineElems, EmptyLine DEF Lists, Sequences, Resumes
    <2>4. InHand'
      BY <1>1, <2>1, <2>2 DEF Lists, InHand, Checkpointed
    <2>5. Still({3, 9})
      BY <1>1, <1>2, <2>2, Stays
    <2>6. /\ Places[3] = Elems(resume.items) /\ Places[9] = forgotten
          /\ Places'[3] = {} /\ Places'[9] = forgotten \cup Elems(resume.items)
      BY <2>1, PlacesAre, NewPlaces, EmptyLine
    <2>7. Placed'
      <3>1. 3 \in 1..9 /\ 9 \in 1..9
        OBVIOUS
      <3>2. /\ Places'[3] \cup Places'[9] = Places[3] \cup Places[9]
            /\ Places'[3] \cap Places'[9] = {}
        BY <2>6
      <3> QED
        BY <3>1, <3>2, <1>1, <2>5, Tame, MoveTwo
    <2> QED
      BY <2>3, <2>4, <2>7 DEF Lists
  <1>4. CASE ~Committed
    <2>1. /\ UNCHANGED <<resume, forgotten>>
          /\ loop' = [loop EXCEPT !.pc = IF resume.on THEN "drain"
                                         ELSE IF stop.phase = "idle" THEN "idling" ELSE "receive"]
      BY <1>4 DEF Top, Go
    <2>2. /\ loop' \in LoopStates /\ loop'.items = loop.items
          /\ loop'.pc = IF resume.on THEN "drain"
                        ELSE IF stop.phase = "idle" THEN "idling" ELSE "receive"
      BY <2>1 DEF Lists, Sequences, LoopStates
    <2>4. InHand'
      BY <1>1, <1>2, <2>1, <2>2 DEF Lists, InHand, Checkpointed, EmptyHanded
    <2> QED
      BY <1>1, <2>1, <2>2, <2>4, Tame, WalkLists
  <1> QED
    BY <1>3, <1>4

LEMMA ReceiveLists == Lists /\ Receive => Lists'
  <1> SUFFICES ASSUME Lists, Receive PROVE Lists'
    OBVIOUS
  <1>1. /\ UNCHANGED <<closed, push, resume, left, saved, results, forgotten>>
        /\ loop.pc \in {"receive", "idling"} /\ SameAccepted
    BY DEF Receive, pushes, active, history, SameAccepted, Accepted
  <1>2. loop.items = <<>> /\ ~resume.on
    BY <1>1 DEF Lists, InHand, Checkpointed, EmptyHanded
  <1> DEFINE first == IF buffer = <<>> THEN <<>> ELSE <<Head(buffer)>>
             rest  == IF buffer = <<>> THEN <<>> ELSE Tail(buffer)
  <1>3. /\ first \in Lines /\ rest \in Lines
        /\ Elems(first) \cup Elems(rest) = Elems(buffer)
        /\ Elems(first) \cap Elems(rest) = {}
    BY Tame, HeadLine, EmptyLine
  <1>4. /\ buffer' = rest
        /\ loop' = [loop EXCEPT !.items = first,
                       !.pc = IF @ = "idling" THEN "idled" ELSE "received"]
    BY DEF Receive
  <1> HIDE DEF first, rest
  <1>5. /\ loop' \in LoopStates /\ loop'.items = first
        /\ loop'.pc \in {"idled", "received"}
    BY <1>3, <1>4 DEF Lists, Sequences, LoopStates
  <1>6. Sequences'
    BY <1>1, <1>3, <1>4, <1>5 DEF Lists, Sequences
  <1>7. InHand'
    BY <1>1, <1>2, <1>5 DEF Lists, InHand, Checkpointed, EmptyHanded
  <1>8. Still({1, 2})
    BY <1>1, Stays
  <1>9. /\ Places[1] = Elems(buffer) /\ Places[2] = {}
        /\ Places'[1] = Elems(rest) /\ Places'[2] = Elems(first)
    BY <1>2, <1>4, <1>5, PlacesAre, NewPlaces, EmptyLine
  <1>10. Moved({1, 2}) /\ {1, 2} \subseteq 1..9
    BY <1>3, <1>9 DEF Moved
  <1>11. Placed'
    BY <1>1, <1>8, <1>10, Tame, Moves
  <1> QED
    BY <1>6, <1>7, <1>11 DEF Lists

\* What follows either Receive: the item goes back or stays in hand.
LEMMA ReceivedLists ==
    ASSUME Lists, Received, loop.pc \in {"received", "idled"},
           UNCHANGED <<closed, push, resume, left, saved, results, forgotten>>
    PROVE  Lists'
  <1>1. ~resume.on
    BY DEF Lists, InHand
  <1>2. CASE loop.items = <<>>
    <2>1. /\ loop' \in LoopStates /\ loop'.pc = "cleanup" /\ loop'.items = loop.items
          /\ UNCHANGED buffer
      BY <1>2, ExitState DEF Received, CtxErr
    <2>2. InHand'
      BY <1>1, <1>2, <2>1 DEF Lists, InHand, Checkpointed
    <2> QED
      BY <1>1, <2>1, <2>2, Tame, WalkLists
  <1>3. CASE loop.items # <<>> /\ (ctx # "live" \/ Committed)
    <2>1. /\ buffer' = loop.items \o buffer
          /\ loop' \in LoopStates /\ loop'.pc = "cleanup" /\ loop'.items = <<>>
      BY <1>3, ExitState DEF Received, GiveBackFirst, PushFront
    <2> QED
      BY <1>1, <2>1, GiveBackLists
  <1>4. CASE loop.items # <<>> /\ ~(ctx # "live" \/ Committed)
    <2>1. /\ loop' \in LoopStates /\ loop'.pc = "drain" /\ loop'.items = loop.items
          /\ UNCHANGED buffer
      BY <1>4 DEF Received, Go, Lists, Sequences, LoopStates
    <2>2. InHand'
      BY <1>1, <2>1 DEF Lists, InHand, Checkpointed, EmptyHanded
    <2> QED
      BY <1>1, <2>1, <2>2, Tame, WalkLists
  <1> QED
    BY <1>2, <1>3, <1>4

\* A loop with nothing in hand goes on or out.
LEMMA EmptyWalkLists ==
    ASSUME Lists, ~resume.on, loop.items = <<>>,
           \/ Go("top")
           \/ \E err \in {"none", "error", "cancel"} : Exit(err),
           UNCHANGED <<buffer, closed, push, resume, left, saved, results,
                       forgotten>>,
           left.items = <<>>
    PROVE  Lists'
  <1>1. loop' \in LoopStates /\ loop'.pc \in {"top", "cleanup"} /\ loop'.items = <<>>
    BY ExitState DEF Go, Lists, Sequences, LoopStates
  <1>2. InHand'
    BY <1>1 DEF Lists, InHand, Checkpointed
  <1> QED
    BY <1>1, <1>2, Tame, WalkLists

LEMMA ReceivedItemLists == Lists /\ ReceivedItem => Lists'
  <1> SUFFICES ASSUME Lists, ReceivedItem PROVE Lists'
    OBVIOUS
  <1>1. /\ UNCHANGED <<closed, push, resume, left, saved, results, forgotten>>
        /\ loop.pc = "received"
    BY DEF ReceivedItem, pushes, active, history
  <1>2. ~resume.on /\ left.items = <<>>
    BY <1>1 DEF Lists, InHand
  <1>3. CASE loop.items = <<>> /\ stop.phase = "idle"
    BY <1>1, <1>2, <1>3, EmptyWalkLists DEF ReceivedItem
  <1>4. CASE ~(loop.items = <<>> /\ stop.phase = "idle")
    BY <1>1, <1>4, ReceivedLists DEF ReceivedItem
  <1> QED
    BY <1>3, <1>4

LEMMA ReceivedWhileIdleLists == Lists /\ ReceivedWhileIdle => Lists'
  <1> SUFFICES ASSUME Lists, ReceivedWhileIdle PROVE Lists'
    OBVIOUS
  <1>1. /\ UNCHANGED <<closed, push, resume, left, saved, results>>
        /\ loop.pc = "idled"
    BY DEF ReceivedWhileIdle, pushes, active
  <1>2. ~resume.on /\ left.items = <<>>
    BY <1>1 DEF Lists, InHand
  <1>3. CASE loop.items = <<>> /\ ~closed
    BY <1>1, <1>2, <1>3, EmptyWalkLists DEF ReceivedWhileIdle
  <1>4. CASE ~(loop.items = <<>> /\ ~closed) /\ stopped
    <2>1. /\ loop' \in LoopStates /\ loop'.pc = "cleanup" /\ loop'.items = <<>>
          /\ UNCHANGED buffer /\ forgotten' = forgotten \cup Elems(loop.items)
      BY <1>4, ExitState DEF ReceivedWhileIdle
    <2> QED
      BY <1>1, <1>2, <2>1, Tame, DropLists
  <1>5. CASE ~(loop.items = <<>> /\ ~closed) /\ ~stopped
    BY <1>1, <1>5, ReceivedLists DEF ReceivedWhileIdle
  <1> QED
    BY <1>3, <1>4, <1>5

LEMMA DrainLists == Lists /\ Drain => Lists'
  <1> SUFFICES ASSUME Lists, Drain PROVE Lists'
    OBVIOUS
  <1>1. /\ UNCHANGED <<closed, push, left, saved, results, forgotten>>
        /\ loop.pc = "drain" /\ SameAccepted
    BY DEF Drain, pushes, active, history, SameAccepted, Accepted
  <1> DEFINE base == IF resume.on THEN resume.items ELSE loop.items
  <1>2. /\ loop' = [loop EXCEPT !.pc = "begin", !.items = base \o buffer,
                                !.resumes = resume.on]
        /\ buffer' = <<>> /\ resume' = [on |-> FALSE, items |-> <<>>]
    BY DEF Drain
  <1>3. /\ base \in Lines /\ Elems(base) = Places[2] \cup Places[3]
        /\ Places[1] = Elems(buffer)
    BY <1>1, Tame, PlacesAre, EmptyLine DEF Lists, InHand, Checkpointed
  <1>4. Elems(base) \cap Elems(buffer) = {}
    <2>1. Places[1] \cap Places[2] = {} /\ Places[1] \cap Places[3] = {}
      BY Apart DEF Lists
    <2> QED
      BY <1>3, <2>1
  <1>5. base \o buffer \in Lines /\ Elems(base \o buffer) = Elems(base) \cup Elems(buffer)
    BY <1>3, <1>4, Tame, ConcatLine
  <1> HIDE DEF base
  <1>6. loop' \in LoopStates /\ loop'.pc = "begin" /\ loop'.items = base \o buffer
    BY <1>2, <1>5 DEF Lists, Sequences, LoopStates, Resumes
  <1>7. Sequences'
    BY <1>1, <1>2, <1>6, EmptyLine DEF Lists, Sequences, Resumes
  <1>8. InHand'
    BY <1>1, <1>2, <1>6 DEF Lists, InHand, Checkpointed, EmptyHanded
  <1>9. Still({1, 2, 3})
    BY <1>1, Stays
  <1>10. /\ Places'[1] = {} /\ Places'[3] = {}
         /\ Places'[2] = Places[1] \cup Places[2] \cup Places[3]
    BY <1>2, <1>3, <1>5, <1>6, NewPlaces, EmptyLine
  <1>11. Moved({1, 2, 3}) /\ {1, 2, 3} \subseteq 1..9
    BY <1>10 DEF Moved
  <1>12. Placed'
    BY <1>1, <1>9, <1>11, Tame, Moves
  <1> QED
    BY <1>7, <1>8, <1>12 DEF Lists

LEMMA BeginPlanningLists == Lists /\ BeginPlanningTurn => Lists'
  <1> SUFFICES ASSUME Lists, BeginPlanningTurn PROVE Lists'
    OBVIOUS
  <1>1. /\ UNCHANGED <<buffer, closed, push, resume, left, saved, results,
                       forgotten>>
        /\ loop.pc = "begin"
    BY DEF BeginPlanningTurn, inbox, pushes, active, history
  <1>2. loop' \in LoopStates /\ loop'.pc = "plan" /\ loop'.items = loop.items
    BY DEF BeginPlanningTurn, Go, Lists, Sequences, LoopStates
  <1>3. InHand'
    BY <1>1, <1>2 DEF Lists, InHand, Checkpointed, EmptyHanded
  <1> QED
    BY <1>1, <1>2, <1>3, Tame, WalkLists

LEMMA AbortLists ==
    ASSUME Lists, loop.pc \in {"plan", "prepare"},
           NEW err \in {"none", "error", "cancel"}, Abort(err),
           UNCHANGED <<closed, push, resume, left, saved, results, forgotten>>
    PROVE  Lists'
  <1>1. ~resume.on
    BY DEF Lists, InHand
  <1>2. loop' \in LoopStates /\ loop'.pc = "cleanup" /\ loop'.items = <<>>
    BY ExitState DEF Abort
  <1> QED
    BY <1>1, <1>2, GiveBackLists DEF Abort, PushFront

LEMMA PlanFailsLists == Lists /\ PlanFails => Lists'
  BY AbortLists DEF PlanFails, active, history

LEMMA PlanTurnLists == \A n : Lists /\ PlanTurn(n) => Lists'
  <1> SUFFICES ASSUME NEW n, Lists, PlanTurn(n) PROVE Lists'
    OBVIOUS
  <1>1. /\ UNCHANGED <<closed, push, resume, left, saved, results, forgotten>>
        /\ loop.pc = "plan" /\ ~resume.on
    BY DEF PlanTurn, active, history, Lists, InHand
  <1>2. CASE Committed
    BY <1>1, <1>2, AbortLists DEF PlanTurn
  <1>3. CASE ~Committed
    <2>1. n \in Nat /\ n <= Len(loop.items)
      BY Tame DEF PlanTurn, Lines
    <2>2. loop' = [loop EXCEPT !.pc = "prepare", !.n = n] /\ UNCHANGED buffer
      BY <1>3 DEF PlanTurn
    <2>3. /\ loop' \in LoopStates /\ loop'.pc = "prepare" /\ loop'.items = loop.items
          /\ loop'.n = n
      BY <2>1, <2>2 DEF Lists, Sequences, LoopStates
    <2>4. InHand'
      BY <1>1, <2>1, <2>3 DEF Lists, InHand, Checkpointed, EmptyHanded
    <2> QED
      BY <1>1, <2>2, <2>3, <2>4, Tame, WalkLists
  <1> QED
    BY <1>2, <1>3

\* What the turn does not consume goes to the front of the buffer.
LEMMA PrepareLists == Lists /\ PrepareAgent => Lists'
  <1> SUFFICES ASSUME Lists, PrepareAgent PROVE Lists'
    OBVIOUS
  <1>1. /\ UNCHANGED <<closed, push, resume, left, saved, results, forgotten>>
        /\ loop.pc = "prepare" /\ ~resume.on /\ SameAccepted
    BY DEF PrepareAgent, active, history, Lists, InHand, SameAccepted, Accepted
  <1>2. CASE Committed
    BY <1>1, <1>2, AbortLists DEF PrepareAgent
  <1>3. CASE ~Committed
    <2> DEFINE taken == SubSeq(loop.items, 1, loop.n)
               rest  == SubSeq(loop.items, loop.n + 1, Len(loop.items))
    <2>1. loop.n \in 0..Len(loop.items)
      <3>1. loop.n \in Nat /\ Len(loop.items) \in Nat
        BY Tame DEF Lists, Sequences, LoopStates, Lines
      <3> QED
        BY <1>1, <3>1 DEF Lists, InHand, Checkpointed
    <2>2. /\ taken \in Lines /\ rest \in Lines
          /\ Elems(taken) \cup Elems(rest) = Elems(loop.items)
          /\ Elems(taken) \cap Elems(rest) = {}
      BY <2>1, Tame, SplitLine
    <2>3. /\ buffer' = rest \o buffer
          /\ loop' = [loop EXCEPT !.pc = "launch", !.n = 0, !.items = taken]
      BY <1>3 DEF PrepareAgent, PushFront
    <2> HIDE DEF taken, rest
    <2>4. /\ loop' \in LoopStates /\ loop'.pc = "launch" /\ loop'.items = taken
      BY <2>2, <2>3 DEF Lists, Sequences, LoopStates
    <2>5. Places[1] = Elems(buffer) /\ Places[2] = Elems(loop.items)
      BY PlacesAre
    <2>6. Elems(loop.items) \cap Elems(buffer) = {}
      BY <2>5, Apart DEF Lists
    <2>7. rest \o buffer \in Lines /\ Elems(rest \o buffer) = Elems(rest) \cup Elems(buffer)
      <3>1. Elems(rest) \cap Elems(buffer) = {}
        BY <2>2, <2>6
      <3> QED
        BY <2>2, <3>1, Tame, ConcatLine
    <2>8. Sequences'
      BY <1>1, <2>3, <2>4, <2>7 DEF Lists, Sequences
    <2>9. InHand'
      BY <1>1, <2>4 DEF Lists, InHand, Checkpointed, EmptyHanded
    <2>10. Still({1, 2})
      BY <1>1, Stays
    <2>11. Places'[1] = Elems(rest) \cup Elems(buffer) /\ Places'[2] = Elems(taken)
      BY <2>3, <2>4, <2>7, NewPlaces
    <2>12. Moved({1, 2}) /\ {1, 2} \subseteq 1..9
      BY <2>2, <2>5, <2>6, <2>11 DEF Moved
    <2>13. Placed'
      BY <1>1, <2>10, <2>12, Tame, Moves
    <2> QED
      BY <2>8, <2>9, <2>13 DEF Lists
  <1> QED
    BY <1>2, <1>3

LEMMA BeginActiveLists == Lists /\ BeginActiveTurn => Lists'
  <1> SUFFICES ASSUME Lists, BeginActiveTurn PROVE Lists'
    OBVIOUS
  <1>1. /\ UNCHANGED <<buffer, closed, push, resume, saved, results,
                       forgotten>>
        /\ loop.pc = "launch" /\ left' = Nothing
    BY DEF BeginActiveTurn, inbox, pushes, history
  <1>2. loop' \in LoopStates /\ loop'.pc = "turn" /\ loop'.items = loop.items
    BY DEF BeginActiveTurn, Lists, Sequences, LoopStates
  <1>3. left.items = <<>>
    BY <1>1 DEF Lists, InHand, Checkpointed
  <1>4. InHand'
    BY <1>1, <1>2, Tame DEF Lists, InHand, Checkpointed, EmptyHanded
  <1> QED
    BY <1>1, <1>2, <1>3, <1>4, Tame, WalkLists

LEMMA ResumeFailsLists == Lists /\ ResumeFails => Lists'
  <1> SUFFICES ASSUME Lists, ResumeFails PROVE Lists'
    OBVIOUS
  <1>1. /\ UNCHANGED <<buffer, closed, push, resume, saved, results>>
        /\ loop.pc = "launch" /\ left' = Nothing
        /\ forgotten' = forgotten \cup Elems(loop.items)
    BY DEF ResumeFails, inbox
  <1>2. loop' \in LoopStates /\ loop'.pc = "cleanup" /\ loop'.items = <<>>
    BY ExitState DEF ResumeFails
  <1>3. left.items = <<>> /\ ~resume.on
    BY <1>1 DEF Lists, InHand, Checkpointed
  <1> QED
    BY <1>1, <1>2, <1>3, Tame, DropLists

\* What is no sequence of items, and who asks to preempt.
AgentStates == [st : {"none", "running", "cancelling", "finished",
                      "interrupted", "cancelled"},
                handler : {"none", "reading", "ok", "error"},
                bridge : BOOLEAN, preempted : BOOLEAN, stopped : BOOLEAN]
StopStates  == [phase : {"open", "idle", "committed"}, cancel : BOOLEAN,
                skip : BOOLEAN, asked : BOOLEAN]
Flags ==
    /\ woken \in BOOLEAN /\ stopped \in BOOLEAN /\ armed \in BOOLEAN /\ firing \in BOOLEAN
    /\ call \in [Stops -> {"idle", "wake", "close", "done"}]
    /\ stop \in StopStates /\ ctx \in {"live", "cancelled", "closed"}
    /\ agent \in AgentStates /\ late \subseteq {"preempt", "stop"}
    /\ stolen \in BOOLEAN /\ runs \in 1..MaxRuns /\ faults \in 0..MaxFaults

Pushes == push \in [Items -> PushStates] /\ turn \in Nat
Planning == {"plan", "prepare", "launch"}
Requests ==
    /\ pending \subseteq ack /\ ack \subseteq Items
    /\ phase \in {"idle", "planning", "active"}
    /\ phase = "planning" <=> loop.pc \in Planning
    /\ phase = "active" <=> loop.pc = "turn"
    /\ \A i \in pending : phase # "idle" /\ push[i].target = turn /\ push[i].pc = "accepted"
    /\ \A i \in Items : push[i].pc \in {"sent", "waiting"} => i \in ack

LEMMA TurnPreemptedLists == Lists /\ TurnPreempted => Lists'
  <1> SUFFICES ASSUME Lists, TurnPreempted PROVE Lists'
    OBVIOUS
  <1>1. /\ UNCHANGED <<buffer, closed, push, resume, left, saved, returned, resumable, stale,
                       replayed, tooLate, forgotten>>
        /\ loop.pc = "turn" /\ handled' = handled \cup Elems(loop.items)
        /\ loop' = [Idle EXCEPT !.pc = "top"]
    BY DEF TurnPreempted, inbox
  <1>2. loop' \in LoopStates /\ loop'.pc = "top" /\ loop'.items = <<>>
    BY <1>1, EmptyLine DEF Idle, LoopStates
  <1>3. left.items = <<>> /\ ~resume.on
    BY <1>1 DEF Lists, InHand, Checkpointed
  <1> QED
    BY <1>1, <1>2, <1>3, Tame, DropLists

\* The items of a cancelled turn are kept for the checkpoint, others are handled.
LEMMA TurnDoneLists == Lists /\ Flags /\ TurnDone => Lists'
  <1> SUFFICES ASSUME Lists, Flags, TurnDone PROVE Lists'
    OBVIOUS
  <1>1. /\ UNCHANGED <<buffer, closed, push, resume, saved, returned, resumable, stale,
                       replayed, tooLate, forgotten>>
        /\ loop.pc = "turn" /\ SameAccepted
    BY DEF TurnDone, inbox, SameAccepted, Accepted
  <1>2. left.items = <<>> /\ ~resume.on
    BY <1>1 DEF Lists, InHand, Checkpointed
  <1> agent.bridge \in BOOLEAN
    BY DEF Flags, AgentStates
  <1>3. PICK captured \in {agent.st = "cancelled", agent.st \in {"cancelling", "cancelled"}} :
          LET err == IF agent.handler = "error" THEN "error"
                     ELSE IF captured THEN "cancel" ELSE "none"
              kept == err # "none" /\ captured IN
          /\ left' = [items    |-> IF kept THEN loop.items ELSE <<>>,
                      runner   |-> agent.bridge,
                      captured |-> captured]
          /\ handled' = IF kept THEN handled ELSE handled \cup Elems(loop.items)
          /\ IF err = "none" THEN loop' = [Idle EXCEPT !.pc = "top"] ELSE Exit(err)
    BY DEF TurnDone
  <1> DEFINE err == IF agent.handler = "error" THEN "error"
                    ELSE IF captured THEN "cancel" ELSE "none"
  <1>10. captured \in BOOLEAN
    <2> DEFINE a == agent.st = "cancelled"
               b == agent.st \in {"cancelling", "cancelled"}
    <2>1. a \in BOOLEAN /\ b \in BOOLEAN /\ captured \in {a, b}
      OBVIOUS
    <2> HIDE DEF a, b
    <2> QED
      BY <2>1
  <1>11. err \in {"none", "error", "cancel"}
    OBVIOUS
  <1>12. err = "none" => loop' = [Idle EXCEPT !.pc = "top"]
    BY <1>3
  <1>13. err # "none" => Exit(err)
    BY <1>3
  <1>14. ~(err # "none" /\ captured) =>
            /\ left' = [items |-> <<>>, runner |-> agent.bridge, captured |-> captured]
            /\ handled' = handled \cup Elems(loop.items)
    BY <1>3
  <1>15. err # "none" /\ captured =>
            /\ left' = [items |-> loop.items, runner |-> agent.bridge, captured |-> captured]
            /\ handled' = handled
    BY <1>3
  <1> HIDE DEF err
  <1>4. /\ loop' \in LoopStates /\ loop'.pc \in {"cleanup", "top"} /\ loop'.items = <<>>
        /\ err # "none" => loop'.pc = "cleanup"
    <2>1. CASE err = "none"
      <3>1. loop' = [Idle EXCEPT !.pc = "top"]
        BY <1>12, <2>1
      <3>2. loop' \in LoopStates /\ loop'.pc = "top" /\ loop'.items = <<>>
        BY <3>1, EmptyLine DEF Idle, LoopStates
      <3> QED
        BY <2>1, <3>2
    <2>2. CASE err # "none"
      <3>1. Exit(err)
        BY <1>13, <2>2
      <3>2. loop' \in LoopStates /\ loop'.pc = "cleanup" /\ loop'.items = <<>>
        BY <1>11, <3>1, ExitState
      <3> QED
        BY <3>2
    <2> QED
      BY <2>1, <2>2
  <1>5. CASE ~(err # "none" /\ captured)
    <2>1. /\ left' = [items |-> <<>>, runner |-> agent.bridge, captured |-> captured]
          /\ handled' = handled \cup Elems(loop.items)
      BY <1>14, <1>5
    <2>2. left' \in Lefts /\ left'.items = <<>>
      BY <2>1, <1>10, EmptyLine DEF Lefts
    <2> QED
      BY <1>1, <1>2, <1>4, <2>1, <2>2, DropLists
  <1>6. CASE err # "none" /\ captured
    <2>1. /\ left' = [items |-> loop.items, runner |-> agent.bridge, captured |-> captured]
          /\ handled' = handled
      BY <1>15, <1>6
    <2>2. left' \in Lefts /\ left'.items = loop.items
      BY <2>1, <1>10, Tame DEF Lefts
    <2>3. Sequences'
      BY <1>1, <1>4, <2>1, <2>2 DEF Lists, Sequences
    <2>4. InHand'
      BY <1>1, <1>2, <1>4, <1>6 DEF Lists, InHand, Checkpointed
    <2>5. Still({2, 4})
      BY <1>1, <1>2, <2>1, Stays
    <2>6. /\ Places'[2] = {} /\ Places'[4] = Places[2] /\ Places[4] = {}
      BY <1>2, <1>4, <2>2, PlacesAre, NewPlaces, EmptyLine
    <2>7. Moved({2, 4}) /\ {2, 4} \subseteq 1..9
      BY <2>6 DEF Moved
    <2>8. Placed'
      BY <1>1, <2>5, <2>7, Tame, Moves
    <2> QED
      BY <2>3, <2>4, <2>8 DEF Lists
  <1> QED
    BY <1>5, <1>6

\* What the loop has left is in its result, and in the checkpoint if that could
\* be written; what an old checkpoint still held goes with it.
LEMMA TakeIs ==
    ASSUME Lists, TakeUnhandled
    PROVE  /\ saved' \in Checkpoints /\ resumable' \subseteq Items
           /\ stale' \in BOOLEAN /\ (stale => stale') /\ (saved'.spent => stale')
           /\ saved'.exists \/ Checkpointed' = {}
           /\ Elems(saved'.unhandled) \cap Elems(saved'.canceled) = {}
           /\ \/ /\ Unread' = Result /\ Checkpointed' = Result
                 /\ forgotten' = forgotten \cup Unread
                 /\ resumable' = resumable \cup Result
              \/ /\ Unread' = Unread /\ Checkpointed' = Checkpointed
                 /\ forgotten' = forgotten /\ resumable' = resumable \ Result
              \/ /\ Unread' = {} /\ Checkpointed' \in {{}, Result}
                 /\ forgotten' = forgotten \cup Unread
                 /\ resumable' = resumable \ Result
  <1>1. /\ buffer \in Lines /\ left.items \in Lines /\ left.runner \in BOOLEAN
        /\ saved \in Checkpoints /\ saved.spent \in BOOLEAN
        /\ Result \subseteq Items /\ resumable \subseteq Items /\ stale \in BOOLEAN
        /\ Elems(saved.unhandled) \cap Elems(saved.canceled) = {}
        /\ saved.exists \/ Checkpointed = {}
    BY Tame, LineElems DEF Lists, Sequences, InHand, Lefts, Checkpoints, Result
  <1>2. Elems(buffer) \cap Elems(left.items) = {}
    BY Apart, PlacesAre DEF Lists
  <1> DEFINE next == [exists |-> TRUE, spent |-> FALSE, runner |-> left.runner,
                      unhandled |-> buffer, canceled |-> left.items]
             spent == [next EXCEPT !.spent = TRUE]
  <1>3. /\ next \in Checkpoints /\ next.exists /\ ~next.spent
        /\ next.unhandled = buffer /\ next.canceled = left.items
        /\ spent \in Checkpoints /\ spent.exists /\ spent.spent
        /\ spent.unhandled = buffer /\ spent.canceled = left.items
    BY <1>1 DEF Checkpoints
  <1>4. /\ NoCheckpoint \in Checkpoints /\ ~NoCheckpoint.spent
        /\ Elems(NoCheckpoint.unhandled) = {} /\ Elems(NoCheckpoint.canceled) = {}
    BY EmptyLine DEF NoCheckpoint, Checkpoints
  <1>5. \/ /\ saved' = next /\ resumable' = resumable \cup Result
           /\ forgotten' = forgotten \cup Unread /\ stale' = stale
        \/ /\ saved' = saved /\ resumable' = resumable \ Result
           /\ forgotten' = forgotten /\ stale' = (stale \/ saved'.spent)
        \/ /\ saved' = spent /\ resumable' = resumable \ Result
           /\ forgotten' = forgotten \cup Unread /\ stale' = (stale \/ saved'.spent)
        \/ /\ saved' = NoCheckpoint /\ resumable' = resumable \ Result
           /\ forgotten' = forgotten \cup Unread /\ stale' = stale
    BY DEF TakeUnhandled, SaveCheckpoint, DeleteCheckpoint
  <1> HIDE DEF next, spent
  <1> USE DEF Unread, Checkpointed, Result
  <1>6. CASE /\ saved' = next /\ resumable' = resumable \cup Result
             /\ forgotten' = forgotten \cup Unread /\ stale' = stale
    BY <1>1, <1>2, <1>3, <1>6
  <1>7. CASE /\ saved' = saved /\ resumable' = resumable \ Result
             /\ forgotten' = forgotten /\ stale' = (stale \/ saved'.spent)
    BY <1>1, <1>7
  <1>8. CASE /\ saved' = spent /\ resumable' = resumable \ Result
             /\ forgotten' = forgotten \cup Unread /\ stale' = (stale \/ saved'.spent)
    BY <1>1, <1>2, <1>3, <1>8
  <1>9. CASE /\ saved' = NoCheckpoint /\ resumable' = resumable \ Result
             /\ forgotten' = forgotten \cup Unread /\ stale' = stale
    BY <1>1, <1>4, <1>9
  <1> QED
    BY <1>5, <1>6, <1>7, <1>8, <1>9

LEMMA TakeLists == Lists /\ TakeUnhandled => Lists'
  <1> SUFFICES ASSUME Lists, TakeUnhandled PROVE Lists'
    OBVIOUS
  <1>1. /\ UNCHANGED <<closed, push, resume, handled, replayed, tooLate>>
        /\ loop.pc = "cleanup" /\ SameAccepted
        /\ buffer' = <<>> /\ left' = Nothing /\ returned' = returned \cup Result
    BY DEF TakeUnhandled, pushes, SameAccepted, Accepted
  <1>2. /\ loop' \in LoopStates /\ loop'.pc = "close" /\ loop'.items = loop.items
    BY DEF TakeUnhandled, Go, Lists, Sequences, LoopStates
  <1>3. loop.items = <<>> /\ ~resume.on
    BY <1>1 DEF Lists, InHand, EmptyHanded
  <1>4. /\ saved' \in Checkpoints /\ resumable' \subseteq Items /\ stale' \in BOOLEAN
        /\ saved'.exists \/ Checkpointed' = {}
        /\ Elems(saved'.unhandled) \cap Elems(saved'.canceled) = {}
    BY TakeIs
  <1>5. \/ /\ Unread' = Result /\ forgotten' = forgotten \cup Unread
           /\ resumable' = resumable \cup Result
        \/ /\ Unread' = Unread /\ forgotten' = forgotten
           /\ resumable' = resumable \ Result
        \/ /\ Unread' = {} /\ forgotten' = forgotten \cup Unread
           /\ resumable' = resumable \ Result
    BY TakeIs
  <1>6. /\ Places[1] = Elems(buffer) /\ Places[4] = Elems(left.items)
        /\ Places[5] = Unread /\ Places[7] = returned \ resumable /\ Places[9] = forgotten
        /\ Places'[1] = {} /\ Places'[4] = {} /\ Places'[5] = Unread'
        /\ Places'[7] = (returned \cup Result) \ resumable' /\ Places'[9] = forgotten'
        /\ Result = Places[1] \cup Places[4]
    BY <1>1, Tame, PlacesAre, NewPlaces, EmptyLine DEF Result
  <1>7. /\ Unread \subseteq Items /\ Result \subseteq Items
        /\ 1 \in 1..9 /\ 4 \in 1..9 /\ 5 \in 1..9 /\ 7 \in 1..9 /\ 9 \in 1..9
    BY <1>6, PlacesItems DEF Lists
  <1>8. Sequences'
    BY <1>1, <1>2, <1>4, <1>5, <1>7, Tame, EmptyLine DEF Lists, Sequences
  <1>9. InHand'
    BY <1>1, <1>2, <1>3, <1>4, Tame DEF Lists, InHand, EmptyHanded
  <1>10. Still({1, 4, 5, 7, 9})
    BY <1>1, <1>2, Stays
  <1>11. /\ Places[1] \cap Places[4] = {} /\ Places[1] \cap Places[5] = {}
         /\ Places[1] \cap Places[7] = {} /\ Places[1] \cap Places[9] = {}
         /\ Places[4] \cap Places[5] = {} /\ Places[4] \cap Places[7] = {}
         /\ Places[4] \cap Places[9] = {} /\ Places[5] \cap Places[7] = {}
         /\ Places[5] \cap Places[9] = {} /\ Places[7] \cap Places[9] = {}
    BY <1>7, Apart DEF Lists
  <1>12. Moved({1, 4, 5, 7, 9})
    <2>1. \A i \in Items : \/ i \in Places'[1] \/ i \in Places'[4] \/ i \in Places'[5]
                           \/ i \in Places'[7] \/ i \in Places'[9]
                       <=> \/ i \in Places[1] \/ i \in Places[4] \/ i \in Places[5]
                           \/ i \in Places[7] \/ i \in Places[9]
      BY <1>5, <1>6, <1>11
    <2>2. /\ Places'[1] = {} /\ Places'[4] = {} /\ Places'[5] \cap Places'[7] = {}
          /\ Places'[5] \cap Places'[9] = {} /\ Places'[7] \cap Places'[9] = {}
      BY <1>5, <1>6, <1>11
    <2> QED
      BY <2>1, <2>2 DEF Moved
  <1>13. {1, 4, 5, 7, 9} \subseteq 1..9
    OBVIOUS
  <1>14. Placed'
    BY <1>1, <1>10, <1>12, <1>13, Tame, Moves
  <1> QED
    BY <1>8, <1>9, <1>14 DEF Lists

LEMMA CloseLists == Lists /\ CloseLoop => Lists'
  <1> SUFFICES ASSUME Lists, CloseLoop PROVE Lists'
    OBVIOUS
  <1>1. /\ UNCHANGED <<push, resume, left, saved, handled, returned, resumable, stale,
                       replayed, forgotten>>
        /\ loop.pc = "close" /\ SameAccepted /\ closed' = TRUE
        /\ buffer' = <<>> /\ tooLate' = tooLate \cup Elems(buffer)
    BY DEF CloseLoop, pushes, active, SameAccepted, Accepted
  <1>2. /\ loop' \in LoopStates /\ loop'.pc = "done" /\ loop'.items = loop.items
    BY DEF CloseLoop, Go, Lists, Sequences, LoopStates
  <1>3. loop.items = <<>> /\ ~resume.on /\ left.items = <<>>
    BY <1>1 DEF Lists, InHand, Checkpointed, EmptyHanded
  <1>4. Sequences'
    BY <1>1, <1>2, Tame, EmptyLine, LineElems DEF Lists, Sequences
  <1>5. InHand'
    BY <1>1, <1>2, <1>3 DEF Lists, InHand, Checkpointed, EmptyHanded
  <1>6. Still({1, 8})
    BY <1>1, <1>2, Stays
  <1>7. /\ Places[1] = Elems(buffer) /\ Places[8] = tooLate
        /\ Places'[1] = {} /\ Places'[8] = tooLate \cup Elems(buffer)
    BY <1>1, PlacesAre, NewPlaces, EmptyLine
  <1>8. Moved({1, 8}) /\ {1, 8} \subseteq 1..9
    BY <1>7 DEF Moved
  <1>9. Placed'
    BY <1>1, <1>6, <1>8, Tame, Moves
  <1> QED
    BY <1>4, <1>5, <1>9 DEF Lists

LEMMA ReopenLists == Lists /\ Pushes /\ Reopen => Lists'
  <1> SUFFICES ASSUME Lists, Pushes, Reopen PROVE Lists'
    OBVIOUS
  <1>1. /\ UNCHANGED <<saved, results, forgotten>>
        /\ loop.pc = "done" /\ loop' = Idle /\ resume' = [on |-> FALSE, items |-> <<>>]
        /\ buffer' = <<>> /\ closed' = FALSE /\ left' = Nothing
    BY DEF Reopen, Ended
  <1>2. SameAccepted
    BY DEF Reopen, SameAccepted, Accepted, Pushes, PushStates
  <1>3. loop' \in LoopStates /\ loop'.pc = "new" /\ loop'.items = <<>>
    BY <1>1, EmptyLine DEF Idle, LoopStates
  <1>4. /\ loop.items = <<>> /\ left.items = <<>> /\ buffer = <<>>
        /\ resume.items = <<>>
    BY <1>1, Tame DEF Lists, InHand, Checkpointed, EmptyHanded
  <1>5. resume' \in Resumes /\ resume'.items = <<>> /\ ~resume'.on
    BY <1>1, EmptyLine DEF Resumes
  <1>6. Sequences'
    BY <1>1, <1>3, <1>5, Tame, EmptyLine DEF Lists, Sequences
  <1>7. InHand'
    BY <1>1, <1>3, <1>5, Tame DEF Lists, InHand, Checkpointed, EmptyHanded
  <1>8. Still({})
    BY <1>1, <1>3, <1>4, <1>5, Tame, Stays
  <1> QED
    BY <1>2, <1>6, <1>7, <1>8, SamePlaces, Tame DEF Lists
-----------------------------------------------------------------------------
(* Pushes, and the steps that move no item.                                 *)

Others(i) == \A j \in Items \ {i} : push'[j] = push[j]

LEMMA AtIs ==
    ASSUME Pushes, NEW i \in Items,
           NEW pc \in {"idle", "checked", "begun", "sent", "waiting", "accepted", "late"},
           At(i, pc)
    PROVE  /\ push' \in [Items -> PushStates] /\ Others(i)
           /\ push'[i].pc = pc /\ push'[i].target = push[i].target
  <1>1. push[i] \in PushStates
    BY DEF Pushes
  <1> DEFINE p == [push[i] EXCEPT !.pc = pc,
                                  !.kind = IF pc \in {"accepted", "late"} THEN "plain" ELSE @]
  <1>2. p \in PushStates /\ p.pc = pc /\ p.target = push[i].target
    BY <1>1 DEF PushStates
  <1>3. push' = [push EXCEPT ![i] = p]
    BY DEF At, Pushes
  <1> HIDE DEF p
  <1> QED
    BY <1>2, <1>3 DEF Pushes, Others

LEMMA OthersAccepted ==
    ASSUME NEW i \in Items, Others(i), Accepted(i)' <=> Accepted(i)
    PROVE  SameAccepted
  BY DEF Others, Accepted, SameAccepted

LEMMA CheckStoppedKeeps ==
    \A i \in Items, k \in PushKinds : Lists /\ Pushes /\ CheckStopped(i, k) => Lists' /\ Pushes'
  <1> SUFFICES ASSUME NEW i \in Items, NEW k \in PushKinds, Lists, Pushes, CheckStopped(i, k)
               PROVE  Lists' /\ Pushes'
    OBVIOUS
  <1>1. /\ UNCHANGED <<buffer, closed, loop, resume, left, saved, results,
                       forgotten, turn>>
        /\ push[i].pc = "idle"
    BY DEF CheckStopped, inbox, work, preempt, active, history
  <1>2. /\ push' \in [Items -> PushStates] /\ Others(i)
        /\ push'[i].pc \in {"late", "checked"}
    <2>1. CASE stopped
      BY <2>1, AtIs DEF CheckStopped
    <2>2. CASE ~stopped
      <3>1. push' = [push EXCEPT ![i].kind = k, ![i].pc = "checked"]
        BY <2>2 DEF CheckStopped
      <3>2. k \in {"plain", "strategy", "preempt", "delayed"} /\ push[i] \in PushStates
        BY AgentLoopAssumption DEF Pushes
      <3> DEFINE p == [push[i] EXCEPT !.kind = k, !.pc = "checked"]
      <3>3. p \in PushStates /\ p.pc = "checked"
        BY <3>2 DEF PushStates
      <3>4. push' = [push EXCEPT ![i] = p]
        BY <3>1 DEF Pushes
      <3> HIDE DEF p
      <3> QED
        BY <3>3, <3>4 DEF Pushes, Others
    <2> QED
      BY <2>1, <2>2
  <1>3. SameAccepted
    BY <1>1, <1>2, OthersAccepted DEF Accepted
  <1> QED
    BY <1>1, <1>2, <1>3, QuietLists DEF Pushes

LEMMA BeginPushKeeps == \A i \in Items : Lists /\ Pushes /\ BeginPush(i) => Lists' /\ Pushes'
  <1> SUFFICES ASSUME NEW i \in Items, Lists, Pushes, BeginPush(i)
               PROVE  Lists' /\ Pushes'
    OBVIOUS
  <1>1. /\ UNCHANGED <<buffer, closed, loop, resume, left, saved, results,
                       forgotten, turn>>
        /\ push[i].pc \in {"checked", "idle"}
    BY DEF BeginPush, inbox, work, preempt, active, history
  <1> DEFINE aim == IF phase = "idle" THEN 0 ELSE turn
             p == [push[i] EXCEPT !.pc = "begun", !.target = aim]
             q == [push[i] EXCEPT !.pc = "begun", !.kind = "strategy"]
  <1>2. push[i] \in PushStates /\ aim \in Nat
    BY DEF Pushes
  <1>3. /\ p \in PushStates /\ p.pc = "begun"
        /\ q \in PushStates /\ q.pc = "begun"
    BY <1>2 DEF PushStates
  <1>4. push' = [push EXCEPT ![i] = p] \/ push' = [push EXCEPT ![i] = q]
    BY DEF BeginPush, Pushes
  <1> HIDE DEF p, q
  <1>5. /\ push' \in [Items -> PushStates] /\ Others(i) /\ push'[i].pc = "begun"
    BY <1>3, <1>4 DEF Pushes, Others
  <1>6. SameAccepted
    BY <1>1, <1>5, OthersAccepted DEF Accepted
  <1> QED
    BY <1>1, <1>5, <1>6, QuietLists DEF Pushes

LEMMA TrySendKeeps == \A i \in Items : Lists /\ Pushes /\ TrySend(i) => Lists' /\ Pushes'
  <1> SUFFICES ASSUME NEW i \in Items, Lists, Pushes, TrySend(i)
               PROVE  Lists' /\ Pushes'
    OBVIOUS
  <1>1. /\ UNCHANGED <<closed, loop, resume, left, saved, results,
                       forgotten, turn>>
        /\ push[i].pc \in {"checked", "begun"}
    BY DEF TrySend, work, preempt, active, history
  <1>2. CASE closed
    <2>1. At(i, "late") /\ UNCHANGED buffer
      BY <1>2 DEF TrySend
    <2>2. push' \in [Items -> PushStates] /\ Others(i) /\ push'[i].pc = "late"
      BY <2>1, AtIs
    <2>3. SameAccepted
      BY <1>1, <2>2, OthersAccepted DEF Accepted
    <2> QED
      BY <1>1, <2>1, <2>2, <2>3, QuietLists DEF Pushes
  <1>3. CASE ~closed
    <2>1. PICK pc \in {"accepted", "waiting", "sent"} : At(i, pc) /\ buffer' = Append(buffer, i)
      BY <1>3 DEF TrySend
    <2>2. push' \in [Items -> PushStates] /\ Others(i) /\ push'[i].pc = pc
      BY <2>1, AtIs
    <2>3. ~Accepted(i) /\ Accepted(i)' /\ \A j \in Items \ {i} : Accepted(j)' <=> Accepted(j)
      BY <1>1, <2>2 DEF Accepted, Others
    <2>4. i \notin Elems(buffer)
      BY <2>3, PlacesAre DEF Lists, Placed
    <2>5. Append(buffer, i) \in Lines /\ Elems(Append(buffer, i)) = Elems(buffer) \cup {i}
      BY <2>4, Tame, AppendLine
    <2>6. Sequences'
      BY <1>1, <2>1, <2>5 DEF Lists, Sequences
    <2>7. InHand'
      BY <1>1, <1>3 DEF Lists, InHand, Checkpointed
    <2>8. Places'[1] = Places[1] \cup {i}
      BY <2>1, <2>5, PlacesAre, NewPlaces
    <2>9. \A k \in 2..9 : Places'[k] = Places[k]
      <3>1. Still({1})
        BY <1>1, Stays
      <3>2. \A k \in 2..9 : k \in (1..9) \ {1}
        OBVIOUS
      <3> QED
        BY <3>1, <3>2 DEF Still
    <2>10. Placed'
      BY <2>3, <2>8, <2>9, Tame, TakenIn
    <2> QED
      BY <1>1, <2>2, <2>6, <2>7, <2>10 DEF Lists, Pushes
  <1> QED
    BY <1>2, <1>3

LEMMA RequestKeeps ==
    \A i \in Items : Lists /\ Pushes /\ push[i].pc \in {"sent", "waiting"} /\ Request(i)
                     => Lists' /\ Pushes'
  <1> SUFFICES ASSUME NEW i \in Items, Lists, Pushes, push[i].pc \in {"sent", "waiting"},
                      Request(i)
               PROVE  Lists' /\ Pushes'
    OBVIOUS
  <1>1. /\ UNCHANGED <<buffer, closed, loop, resume, left, saved, results,
                       forgotten, turn>>
        /\ At(i, "accepted")
    BY DEF Request, inbox, work, active, history
  <1>2. push' \in [Items -> PushStates] /\ Others(i) /\ push'[i].pc = "accepted"
    BY <1>1, AtIs
  <1>3. SameAccepted
    BY <1>2, OthersAccepted DEF Accepted
  <1> QED
    BY <1>1, <1>2, <1>3, QuietLists DEF Pushes

\* Everybody else: no item moves and nothing is pushed.
Bystanders ==
    \/ \E s \in Stops : \/ \E k \in StopKinds : Stop(s, k)
                        \/ Wakeup(s) \/ FinishStopCommit(s)
    \/ TimerFires \/ CommitStop \/ CancelContext \/ MonitorContext
    \/ WatchPreempt \/ WatchStop \/ OldWatchersEnd
    \/ \E w \in {"preempt", "stop"} : OldWatch(w)
    \/ AgentEnds \/ AgentCancelled \/ HandlerReturns
    \/ UNCHANGED vars

LEMMA BystandersMove ==
    Bystanders => /\ UNCHANGED <<buffer, loop, resume, left, saved, results, forgotten, push, turn, phase>>
                  /\ closed' \in {closed, TRUE}
  <1> SUFFICES ASSUME Bystanders
               PROVE  /\ UNCHANGED <<buffer, loop, resume, left, saved, results, forgotten, push, turn, phase>>
                      /\ closed' \in {closed, TRUE}
    OBVIOUS
  <1> USE DEF inbox, pushes, work, preempt, active, history
  <1>1. ASSUME NEW s \in Stops, NEW k \in StopKinds, Stop(s, k)
        PROVE  /\ UNCHANGED <<buffer, loop, resume, left, saved, results, forgotten, push, turn, phase, closed>>
    BY <1>1 DEF Stop
  <1>2. CASE \E s \in Stops : Wakeup(s) \/ FinishStopCommit(s)
    BY <1>2 DEF Wakeup, FinishStopCommit
  <1>3. CASE TimerFires \/ CommitStop \/ CancelContext \/ MonitorContext
    BY <1>3 DEF TimerFires, CommitStop, CancelContext, MonitorContext
  <1>4. CASE WatchPreempt
    BY <1>4 DEF WatchPreempt
  <1>5. CASE WatchStop
    BY <1>5 DEF WatchStop
  <1>6. CASE OldWatchersEnd
    BY <1>6 DEF OldWatchersEnd
  <1>7. CASE \E w \in {"preempt", "stop"} : OldWatch(w)
    BY <1>7 DEF OldWatch
  <1>8. CASE AgentEnds \/ AgentCancelled \/ HandlerReturns
    BY <1>8 DEF AgentEnds, AgentCancelled, HandlerReturns
  <1>9. CASE UNCHANGED vars
    BY <1>9 DEF vars
  <1> QED
    BY <1>1, <1>2, <1>3, <1>4, <1>5, <1>6, <1>7, <1>8, <1>9 DEF Bystanders

LEMMA BystandersKeep == Lists /\ Pushes /\ Bystanders => Lists' /\ Pushes'
  <1> SUFFICES ASSUME Lists, Pushes, Bystanders PROVE Lists' /\ Pushes'
    OBVIOUS
  <1>1. SameAccepted
    BY BystandersMove DEF SameAccepted, Accepted
  <1> QED
    BY <1>1, BystandersMove, QuietLists DEF Pushes
-----------------------------------------------------------------------------
(* Flags.                                                                   *)

LEMMA FailsFlags == Flags /\ (UNCHANGED faults \/ Fails) => faults' \in 0..MaxFaults
  BY AgentLoopAssumption DEF Flags, Fails

LEMMA PushFlags ==
    \A i \in Items : Flags /\ (PushStep(i) \/ \E k \in PushKinds : CheckStopped(i, k)) => Flags'
  <1> SUFFICES ASSUME NEW i \in Items, Flags,
                      PushStep(i) \/ \E k \in PushKinds : CheckStopped(i, k)
               PROVE  Flags'
    OBVIOUS
  <1> UNCHANGED <<woken, control, ctx, active, stolen, runs, faults>>
    BY DEF PushStep, BeginPush, TrySend, RequestPreempt, DelayEnds, Request, CheckStopped,
           inbox, history
  <1> QED
    BY DEF Flags, control, active

LEMMA FreshFlags == ASSUME NEW b \in BOOLEAN
                    PROVE  /\ NoAgent \in AgentStates
                           /\ [NoAgent EXCEPT !.st = "running", !.handler = "reading",
                                              !.bridge = b] \in AgentStates
  BY DEF NoAgent, AgentStates

\* What is left of a stop request when a turn ends.
LEMMA CancelTaken == stop \in StopStates => [stop EXCEPT !.cancel = FALSE] \in StopStates
  BY DEF StopStates

\* The steps of the loop up to the turn.
LEMMA WayInFlags ==
    Lists /\ Flags /\ (LoadCheckpoint \/ LoadFails \/ Top \/ Receive \/ ReceivedItem
                       \/ ReceivedWhileIdle \/ Drain \/ BeginPlanningTurn \/ PlanFails
                       \/ (\E n \in 0..Cardinality(Items) : PlanTurn(n)) \/ PrepareAgent
                       \/ Start)
    => Flags'
  <1> SUFFICES ASSUME Lists, Flags,
                      \/ LoadCheckpoint \/ LoadFails \/ Top \/ Receive \/ ReceivedItem
                      \/ ReceivedWhileIdle \/ Drain \/ BeginPlanningTurn \/ PlanFails
                      \/ (\E n \in 0..Cardinality(Items) : PlanTurn(n)) \/ PrepareAgent
                      \/ Start
               PROVE  Flags'
    OBVIOUS
  <1>1. UNCHANGED <<call, stop, firing, ctx, agent, late, stolen, runs>>
    BY DEF LoadCheckpoint, LoadFails, Top, Receive, ReceivedItem, ReceivedWhileIdle, Drain,
           BeginPlanningTurn, PlanFails, PlanTurn, PrepareAgent, Start, control, active, history
  <1>2. woken' \in BOOLEAN /\ armed' \in BOOLEAN /\ stopped' \in BOOLEAN
    BY DEF LoadCheckpoint, LoadFails, Top, Receive, ReceivedItem, ReceivedWhileIdle, Drain,
           BeginPlanningTurn, PlanFails, PlanTurn, PrepareAgent, Start, control, inbox, Flags
  <1>3. UNCHANGED faults \/ Fails
    BY DEF LoadCheckpoint, LoadFails, Top, Receive, ReceivedItem, ReceivedWhileIdle, Drain,
           BeginPlanningTurn, PlanFails, PlanTurn, PrepareAgent, Start
  <1> QED
    BY <1>1, <1>2, <1>3, FailsFlags DEF Flags

LEMMA TurnFlags ==
    Lists /\ Flags /\ (BeginActiveTurn \/ ResumeFails \/ TurnPreempted \/ TurnDone
                       \/ TakeUnhandled \/ CloseLoop)
    => Flags'
  <1> SUFFICES ASSUME Lists, Flags,
                      \/ BeginActiveTurn \/ ResumeFails \/ TurnPreempted \/ TurnDone
                      \/ TakeUnhandled \/ CloseLoop
               PROVE  Flags'
    OBVIOUS
  <1>1. UNCHANGED <<woken, call, armed, firing, ctx, stolen, runs>>
    BY DEF BeginActiveTurn, ResumeFails, TurnPreempted, TurnDone, TakeUnhandled, CloseLoop,
           control, inbox, history
  <1>2. stopped' \in BOOLEAN
    BY DEF BeginActiveTurn, ResumeFails, TurnPreempted, TurnDone, TakeUnhandled, CloseLoop,
           control, Flags
  <1>3. UNCHANGED faults \/ Fails
    BY DEF BeginActiveTurn, ResumeFails, TurnPreempted, TurnDone, EndActiveTurn,
           TakeUnhandled, SaveCheckpoint, DeleteCheckpoint, CloseLoop
  <1>4. stop' = stop \/ stop' = [stop EXCEPT !.cancel = FALSE]
    BY DEF BeginActiveTurn, ResumeFails, TurnPreempted, TurnDone, EndActiveTurn,
           TakeUnhandled, CloseLoop, control
  <1>5. agent' \in {agent, NoAgent, Fresh}
    BY DEF BeginActiveTurn, ResumeFails, TurnPreempted, TurnDone, EndActiveTurn,
           TakeUnhandled, CloseLoop, active
  <1>6. agent' \in AgentStates
    <2>1. loop.resumes \in BOOLEAN /\ agent \in AgentStates
      BY DEF Lists, Sequences, LoopStates, Flags
    <2> QED
      BY <1>5, <2>1, FreshFlags DEF Fresh
  <1>7. late' \subseteq {"preempt", "stop"}
    BY DEF BeginActiveTurn, ResumeFails, TurnPreempted, TurnDone, EndActiveTurn,
           TakeUnhandled, CloseLoop, active, Flags
  <1>8. stop' \in StopStates
    BY <1>4, CancelTaken DEF Flags
  <1> QED
    BY <1>1, <1>2, <1>3, <1>6, <1>7, <1>8, FailsFlags DEF Flags

LEMMA ReopenFlags == Flags /\ Reopen => Flags'
  <1> SUFFICES ASSUME Flags, Reopen PROVE Flags'
    OBVIOUS
  <1>1. /\ UNCHANGED <<call, stolen, faults>> /\ runs < MaxRuns /\ runs' = runs + 1
        /\ stop' = NoStop /\ stopped' = FALSE /\ armed' = FALSE /\ firing' = FALSE
        /\ woken' = FALSE /\ ctx' = "live" /\ agent' = NoAgent /\ late' = {}
    BY DEF Reopen
  <1>2. runs' \in 1..MaxRuns
    BY <1>1, AgentLoopAssumption DEF Flags
  <1>3. stop' \in StopStates /\ agent' \in AgentStates
    BY <1>1, FreshFlags DEF NoStop, StopStates
  <1> QED
    BY <1>1, <1>2, <1>3 DEF Flags

LEMMA StopFlags == \A s \in Stops, k \in StopKinds : Flags /\ Stop(s, k) => Flags'
  <1> SUFFICES ASSUME NEW s \in Stops, NEW k \in StopKinds, Flags, Stop(s, k) PROVE Flags'
    OBVIOUS
  <1>1. UNCHANGED <<woken, stopped, armed, firing, ctx, agent, late, stolen, runs, faults>>
    BY DEF Stop, inbox, active, history
  <1>2. call' \in [Stops -> {"idle", "wake", "close", "done"}]
    <2>1. \E pc \in {"done", "wake", "close"} : call' = [call EXCEPT ![s] = pc]
      BY DEF Stop
    <2> QED
      BY <2>1 DEF Flags
  <1>3. stop' \in StopStates
    <2>1. stop \in StopStates
      BY DEF Flags
    <2>2. CASE Ended
      BY <2>1, <2>2 DEF Stop
    <2>3. CASE ~Ended /\ k = "idle"
      <3>1. stop' = [stop EXCEPT !.phase = IF @ = "open" THEN "idle" ELSE @]
        BY <2>3 DEF Stop
      <3> QED
        BY <2>1, <3>1 DEF StopStates
    <2>4. CASE ~Ended /\ k # "idle"
      <3> DEFINE c == CancelPending(k)
                 d == stop.skip \/ k = "skip"
                 e == stop.asked \/ k # "bare"
      <3>1. stop' = [phase |-> "committed", cancel |-> c, skip |-> d, asked |-> e]
        BY <2>4 DEF Stop
      <3>2. c \in BOOLEAN /\ d \in BOOLEAN /\ e \in BOOLEAN
        BY DEF CancelPending
      <3> HIDE DEF c, d, e
      <3> QED
        BY <3>1, <3>2 DEF StopStates
    <2> QED
      BY <2>2, <2>3, <2>4
  <1> QED
    BY <1>1, <1>2, <1>3 DEF Flags

\* The cancel function of the turn.
LEMMA CancelledAgent ==
    ASSUME Flags, NEW c \in BOOLEAN
    PROVE  /\ [agent EXCEPT !.st = AfterCancel, !.preempted = @ \/ c] \in AgentStates
           /\ [agent EXCEPT !.st = AfterCancel, !.stopped = @ \/ c] \in AgentStates
  <1> DEFINE a == AfterCancel
             p == agent.preempted \/ c
             q == agent.stopped \/ c
  <1>1. agent \in AgentStates
    BY DEF Flags
  <1>2. a \in {"none", "running", "cancelling", "finished", "interrupted", "cancelled"}
    BY <1>1 DEF AgentStates, AfterCancel
  <1>3. p \in BOOLEAN /\ q \in BOOLEAN
    OBVIOUS
  <1>4. /\ [agent EXCEPT !.st = AfterCancel, !.preempted = @ \/ c] =
              [agent EXCEPT !.st = a, !.preempted = p]
        /\ [agent EXCEPT !.st = AfterCancel, !.stopped = @ \/ c] =
              [agent EXCEPT !.st = a, !.stopped = q]
    OBVIOUS
  <1> HIDE DEF a, p, q
  <1>5. /\ [agent EXCEPT !.st = a, !.preempted = p] \in AgentStates
        /\ [agent EXCEPT !.st = a, !.stopped = q] \in AgentStates
    BY <1>1, <1>2, <1>3 DEF AgentStates
  <1> QED
    BY <1>4, <1>5

LEMMA WatchFlags ==
    Flags /\ (WatchPreempt \/ WatchStop \/ OldWatchersEnd
              \/ \E w \in {"preempt", "stop"} : OldWatch(w)) => Flags'
  <1> SUFFICES ASSUME Flags, \/ WatchPreempt \/ WatchStop \/ OldWatchersEnd
                             \/ \E w \in {"preempt", "stop"} : OldWatch(w)
               PROVE  Flags'
    OBVIOUS
  <1>1. CASE WatchPreempt
    <2>1. /\ UNCHANGED <<woken, control, ctx, late, stolen, runs, faults>>
          /\ \E c \in BOOLEAN :
                agent' = [agent EXCEPT !.st = AfterCancel, !.preempted = @ \/ c]
      BY <1>1 DEF WatchPreempt, inbox, history
    <2>2. agent' \in AgentStates
      BY <2>1, CancelledAgent
    <2> QED
      BY <2>1, <2>2 DEF Flags, control
  <1>2. CASE WatchStop
    <2>1. /\ UNCHANGED <<woken, call, stopped, armed, firing, ctx, late, stolen, runs, faults>>
          /\ stop' = [stop EXCEPT !.cancel = FALSE]
          /\ \E c \in BOOLEAN :
                agent' = [agent EXCEPT !.st = AfterCancel, !.stopped = @ \/ c]
      BY <1>2 DEF WatchStop, inbox, history
    <2>2. agent' \in AgentStates
      BY <2>1, CancelledAgent
    <2> QED
      BY <2>1, <2>2, CancelTaken DEF Flags
  <1>3. CASE OldWatchersEnd
    BY <1>3 DEF OldWatchersEnd, Flags, inbox, control, history
  <1>4. ASSUME NEW w \in {"preempt", "stop"}, OldWatch(w)
        PROVE  Flags'
    <2>1. /\ UNCHANGED <<woken, call, stopped, armed, firing, ctx, active, runs, faults>>
          /\ stop' = [stop EXCEPT !.cancel = @ /\ w # "stop"] /\ stolen' = TRUE
      BY <1>4 DEF OldWatch, inbox
    <2> DEFINE c == stop.cancel /\ w # "stop"
    <2>2. c \in BOOLEAN /\ stop' = [stop EXCEPT !.cancel = c]
      BY <2>1
    <2> HIDE DEF c
    <2>3. stop' \in StopStates
      BY <2>2 DEF Flags, StopStates
    <2> QED
      BY <2>1, <2>3 DEF Flags, active
  <1> QED
    BY <1>1, <1>2, <1>3, <1>4

LEMMA AgentFlags == Flags /\ (AgentEnds \/ AgentCancelled \/ HandlerReturns) => Flags'
  <1> SUFFICES ASSUME Flags, AgentEnds \/ AgentCancelled \/ HandlerReturns PROVE Flags'
    OBVIOUS
  <1>1. /\ UNCHANGED <<woken, control, ctx, late, stolen, runs>>
        /\ UNCHANGED faults \/ Fails
    BY DEF AgentEnds, AgentCancelled, HandlerReturns, inbox, history
  <1>2. agent \in AgentStates
    BY DEF Flags
  <1>3. CASE AgentEnds
    <2>1. PICK how \in {"finished", "interrupted"} :
             agent' = [agent EXCEPT !.st = how, !.bridge = @ \/ how = "interrupted"]
      BY <1>3 DEF AgentEnds
    <2> DEFINE b == agent.bridge \/ how = "interrupted"
    <2>2. b \in BOOLEAN /\ agent' = [agent EXCEPT !.st = how, !.bridge = b]
      BY <2>1
    <2> HIDE DEF b
    <2>3. agent' \in AgentStates
      BY <1>2, <2>2 DEF AgentStates
    <2> QED
      BY <1>1, <2>3, FailsFlags DEF Flags, control
  <1>4. CASE AgentCancelled
    <2>1. PICK c \in BOOLEAN :
             agent' = [agent EXCEPT !.st = "cancelled", !.bridge = @ \/ c]
      BY <1>4 DEF AgentCancelled
    <2> DEFINE b == agent.bridge \/ c
    <2>2. b \in BOOLEAN /\ agent' = [agent EXCEPT !.st = "cancelled", !.bridge = b]
      BY <2>1
    <2> HIDE DEF b
    <2>3. agent' \in AgentStates
      BY <1>2, <2>2 DEF AgentStates
    <2> QED
      BY <1>1, <2>3, FailsFlags DEF Flags, control
  <1>5. CASE HandlerReturns
    <2>1. PICK how \in {"ok", "error"} : agent' = [agent EXCEPT !.handler = how]
      BY <1>5 DEF HandlerReturns
    <2>2. agent' \in AgentStates
      BY <1>2, <2>1 DEF AgentStates
    <2> QED
      BY <1>1, <2>2, FailsFlags DEF Flags, control
  <1> QED
    BY <1>3, <1>4, <1>5

LEMMA BystandersFlags == Flags /\ Bystanders => Flags'
  <1> SUFFICES ASSUME Flags, Bystanders PROVE Flags'
    OBVIOUS
  <1>1. ASSUME NEW s \in Stops, Wakeup(s) \/ FinishStopCommit(s)
        PROVE  Flags'
    <2>1. /\ UNCHANGED <<stop, armed, firing, ctx, active, stolen, runs, faults>>
          /\ call' = [call EXCEPT ![s] = "done"]
          /\ woken' \in {woken, TRUE} /\ stopped' \in {stopped, TRUE}
      BY <1>1 DEF Wakeup, FinishStopCommit, history
    <2> QED
      BY <2>1 DEF Flags, active
  <1>2. CASE TimerFires
    BY <1>2 DEF TimerFires, Flags, inbox, active, history
  <1>3. CASE CommitStop
    <2>1. /\ UNCHANGED <<woken, call, armed, ctx, active, stolen, runs, faults>>
          /\ firing' = FALSE /\ stopped' \in {stopped, TRUE}
          /\ stop' \in {stop, [stop EXCEPT !.phase = "committed"]}
      BY <1>3 DEF CommitStop, history
    <2>2. stop' \in StopStates
      BY <2>1 DEF Flags, StopStates
    <2> QED
      BY <2>1, <2>2 DEF Flags, active
  <1>4. CASE CancelContext
    <2>1. /\ UNCHANGED <<woken, control, active, stolen, runs>> /\ Fails
          /\ ctx' = "cancelled"
      BY <1>4 DEF CancelContext, inbox, history
    <2> QED
      BY <2>1, FailsFlags DEF Flags, control, active
  <1>5. CASE MonitorContext
    BY <1>5 DEF MonitorContext, Flags, control, active, history
  <1>6. CASE UNCHANGED vars
    BY <1>6 DEF vars, Flags, inbox, control, active, history
  <1> QED
    BY <1>1, <1>2, <1>3, <1>4, <1>5, <1>6, StopFlags, WatchFlags, AgentFlags DEF Bystanders
-----------------------------------------------------------------------------
(* Requests to preempt.                                                     *)

LEMMA QuietRequests ==
    ASSUME Requests, UNCHANGED <<push, ack, phase, turn, pending>>,
           loop'.pc \in Planning <=> loop.pc \in Planning,
           loop'.pc = "turn" <=> loop.pc = "turn"
    PROVE  Requests'
  BY DEF Requests

\* A turn ends, or is not begun: what was asked of it is acknowledged.
LEMMA AckedRequests ==
    ASSUME Requests, UNCHANGED push, phase' = "idle", pending' = {}, Acked(pending),
           loop'.pc \in {"cleanup", "top"}
    PROVE  Requests'
  BY DEF Requests, Acked, Planning

LEMMA ExitRequests ==
    ASSUME NEW err, Exit(err)
    PROVE  loop'.pc = "cleanup"
  BY DEF Exit, Idle

LEMMA WayInRequests ==
    Lists /\ Requests /\ (LoadCheckpoint \/ LoadFails \/ Top \/ Receive \/ ReceivedItem
                          \/ ReceivedWhileIdle \/ Drain \/ Start)
    => Requests'
  <1> SUFFICES ASSUME Lists, Requests,
                      \/ LoadCheckpoint \/ LoadFails \/ Top \/ Receive \/ ReceivedItem
                      \/ ReceivedWhileIdle \/ Drain \/ Start
               PROVE  Requests'
    OBVIOUS
  <1> loop \in LoopStates
    BY DEF Lists, Sequences
  <1>1. UNCHANGED <<push, ack, phase, turn, pending>>
    BY DEF LoadCheckpoint, LoadFails, Top, Receive, ReceivedItem, ReceivedWhileIdle, Drain,
           Start, pushes, preempt
  <1>2. /\ loop.pc \in {"new", "load", "top", "receive", "idling", "received", "idled", "drain"}
        /\ loop'.pc \in {"load", "top", "receive", "idling", "received", "idled", "drain",
                         "begin", "cleanup"}
    <2>1. CASE LoadCheckpoint \/ Start
      BY <2>1 DEF LoadCheckpoint, Start, Go, LoopStates
    <2>2. CASE LoadFails \/ Top
      BY <2>2 DEF LoadFails, Top, Go, Exit, Idle, LoopStates
    <2>3. CASE Receive \/ Drain
      BY <2>3 DEF Receive, Drain, LoopStates
    <2>4. Received => loop'.pc \in {"cleanup", "drain"}
      BY DEF Received, Go, Exit, Idle, LoopStates
    <2>5. CASE ReceivedItem \/ ReceivedWhileIdle
      BY <2>4, <2>5 DEF ReceivedItem, ReceivedWhileIdle, Go, Exit, Idle, LoopStates
    <2> QED
      BY <2>1, <2>2, <2>3, <2>5
  <1> QED
    BY <1>1, <1>2, QuietRequests DEF Planning

LEMMA PlanRequests ==
    Lists /\ Requests /\ (BeginPlanningTurn \/ PlanFails \/ PrepareAgent \/ BeginActiveTurn
                          \/ (\E n \in 0..Cardinality(Items) : PlanTurn(n)))
    => Requests'
  <1> SUFFICES ASSUME Lists, Requests,
                      \/ BeginPlanningTurn \/ PlanFails \/ PrepareAgent \/ BeginActiveTurn
                      \/ (\E n \in 0..Cardinality(Items) : PlanTurn(n))
               PROVE  Requests'
    OBVIOUS
  <1> loop \in LoopStates
    BY DEF Lists, Sequences
  <1>1. CASE BeginPlanningTurn
    <2>1. /\ UNCHANGED <<push, ack, pending>> /\ phase' = "planning" /\ loop.pc = "begin"
          /\ loop'.pc = "plan"
      BY <1>1 DEF BeginPlanningTurn, pushes, Go, LoopStates
    <2>2. pending = {}
      BY <2>1 DEF Requests, Planning
    <2> QED
      BY <2>1, <2>2 DEF Requests, Planning
  <1>2. ASSUME NEW err, Abort(err), UNCHANGED push
        PROVE  Requests'
    BY <1>2, ExitRequests, AckedRequests DEF Abort, AbortPlanningTurn
  <1>3. CASE PlanFails
    BY <1>2, <1>3 DEF PlanFails
  <1>4. CASE PrepareAgent
    <2>1. CASE Committed
      BY <1>2, <1>4, <2>1 DEF PrepareAgent
    <2>2. CASE ~Committed
      <3>1. /\ UNCHANGED <<push, ack, phase, turn, pending>>
            /\ loop.pc = "prepare" /\ loop'.pc = "launch"
        BY <1>4, <2>2 DEF PrepareAgent, LoopStates
      <3> QED
        BY <3>1, QuietRequests DEF Planning
    <2> QED
      BY <2>1, <2>2
  <1>5. CASE BeginActiveTurn
    <2>1. /\ UNCHANGED <<push, ack, turn, pending>> /\ phase' = "active"
          /\ loop'.pc = "turn"
      BY <1>5 DEF BeginActiveTurn, pushes, LoopStates
    <2> QED
      BY <2>1 DEF Requests, Planning
  <1>6. ASSUME NEW n, PlanTurn(n)
        PROVE  Requests'
    <2>1. CASE Committed
      BY <1>2, <1>6, <2>1 DEF PlanTurn
    <2>2. CASE ~Committed
      <3>1. /\ UNCHANGED <<push, ack, phase, turn, pending>>
            /\ loop.pc = "plan" /\ loop'.pc = "prepare"
        BY <1>6, <2>2 DEF PlanTurn, LoopStates
      <3> QED
        BY <3>1, QuietRequests DEF Planning
    <2> QED
      BY <2>1, <2>2
  <1> QED
    BY <1>1, <1>3, <1>4, <1>5, <1>6

LEMMA TurnRequests ==
    Lists /\ Requests /\ (ResumeFails \/ TurnPreempted \/ TurnDone \/ TakeUnhandled \/ CloseLoop)
    => Requests'
  <1> SUFFICES ASSUME Lists, Requests,
                      ResumeFails \/ TurnPreempted \/ TurnDone \/ TakeUnhandled \/ CloseLoop
               PROVE  Requests'
    OBVIOUS
  <1> loop \in LoopStates
    BY DEF Lists, Sequences
  <1>1. CASE ResumeFails
    BY <1>1, ExitRequests, AckedRequests DEF ResumeFails
  <1>2. CASE TurnPreempted
    <2>1. loop'.pc = "top"
      BY <1>2 DEF TurnPreempted, Idle
    <2> QED
      BY <1>2, <2>1, AckedRequests DEF TurnPreempted, EndActiveTurn
  <1>3. CASE TurnDone
    <2>1. \/ loop' = [Idle EXCEPT !.pc = "top"]
          \/ \E err \in {"error", "cancel"} : Exit(err)
      BY <1>3 DEF TurnDone
    <2>2. loop'.pc \in {"cleanup", "top"}
      BY <2>1, ExitRequests DEF Idle
    <2>3. /\ UNCHANGED push /\ EndActiveTurn
      BY <1>3 DEF TurnDone
    <2> QED
      BY <2>2, <2>3, AckedRequests DEF EndActiveTurn
  <1>4. CASE TakeUnhandled \/ CloseLoop
    <2>1. /\ UNCHANGED <<push, ack, phase, turn, pending>>
          /\ loop.pc \in {"cleanup", "close"} /\ loop'.pc \in {"close", "done"}
      BY <1>4 DEF TakeUnhandled, CloseLoop, Go, pushes, preempt, LoopStates
    <2> QED
      BY <2>1, QuietRequests DEF Planning
  <1> QED
    BY <1>1, <1>2, <1>3, <1>4

LEMMA ReopenRequests == Pushes /\ Requests /\ Reopen => Requests'
  <1> SUFFICES ASSUME Pushes, Requests, Reopen PROVE Requests'
    OBVIOUS
  <1>1. /\ UNCHANGED ack /\ pending' = {} /\ phase' = "idle" /\ loop'.pc = "new"
        /\ \A i \in Items : push[i].pc \in {"idle", "accepted", "late"}
        /\ push' = [i \in Items |-> [push[i] EXCEPT !.target = 0]]
    BY DEF Reopen, Idle
  <1>2. \A i \in Items : push'[i].pc = push[i].pc
    BY <1>1 DEF Pushes, PushStates
  <1> QED
    BY <1>1, <1>2 DEF Requests, Planning

\* A push in progress has no request yet, so nothing asked before changes.
LEMMA PushRequests ==
    ASSUME Pushes, Requests, NEW i \in Items, Others(i), push[i].pc # "accepted",
           push'[i].pc \notin {"sent", "waiting"} \/ i \in ack',
           UNCHANGED <<loop, phase, turn, pending>>, ack' \in {ack, ack \cup {i}}
    PROVE  Requests'
  <1>1. i \notin pending
    BY DEF Requests
  <1>2. \A j \in pending : push'[j] = push[j]
    BY <1>1 DEF Requests, Others
  <1>3. \A j \in Items : push'[j].pc \in {"sent", "waiting"} => j \in ack'
    BY DEF Requests, Others
  <1> QED
    BY <1>2, <1>3 DEF Requests

LEMMA SendRequests ==
    \A i \in Items : Pushes /\ Requests /\ (BeginPush(i) \/ TrySend(i)
                                            \/ \E k \in PushKinds : CheckStopped(i, k))
                     => Requests'
  <1> SUFFICES ASSUME NEW i \in Items, Pushes, Requests,
                      \/ BeginPush(i) \/ TrySend(i)
                      \/ \E k \in PushKinds : CheckStopped(i, k)
               PROVE  Requests'
    OBVIOUS
  <1>1. CASE BeginPush(i)
    <2>1. /\ UNCHANGED <<loop, phase, turn, pending, ack>> /\ push[i].pc \in {"checked", "idle"}
      BY <1>1 DEF BeginPush, work, preempt
    <2>2. Others(i) /\ push'[i].pc = "begun"
      BY <1>1 DEF BeginPush, Pushes, PushStates, Others
    <2> QED
      BY <2>1, <2>2, PushRequests
  <1>2. CASE TrySend(i)
    <2>1. UNCHANGED <<loop, phase, turn, pending>> /\ push[i].pc \in {"checked", "begun"}
      BY <1>2 DEF TrySend, work, preempt
    <2>2. \/ At(i, "late") /\ UNCHANGED ack
          \/ At(i, "accepted") /\ UNCHANGED ack
          \/ \E pc \in {"waiting", "sent"} : At(i, pc) /\ ack' = ack \cup {i}
      BY <1>2 DEF TrySend
    <2>3. /\ Others(i) /\ ack' \in {ack, ack \cup {i}}
          /\ push'[i].pc \in {"late", "accepted"} \/ i \in ack'
      BY <2>2, AtIs
    <2> QED
      BY <2>1, <2>3, PushRequests
  <1>3. ASSUME NEW k \in PushKinds, CheckStopped(i, k)
        PROVE  Requests'
    <2>1. UNCHANGED <<loop, phase, turn, pending, ack>> /\ push[i].pc = "idle"
      BY <1>3 DEF CheckStopped, work, preempt
    <2>2. Others(i) /\ push'[i].pc \in {"late", "checked"}
      <3>1. CASE stopped
        BY <1>3, <3>1, AtIs DEF CheckStopped
      <3>2. CASE ~stopped
        BY <1>3, <3>2 DEF CheckStopped, Pushes, PushStates, Others
      <3> QED
        BY <3>1, <3>2
    <2> QED
      BY <2>1, <2>2, PushRequests
  <1> QED
    BY <1>1, <1>2, <1>3

LEMMA RequestRequests ==
    \A i \in Items : Pushes /\ Requests /\ push[i].pc \in {"sent", "waiting"} /\ Request(i)
                     => Requests'
  <1> SUFFICES ASSUME NEW i \in Items, Pushes, Requests, push[i].pc \in {"sent", "waiting"},
                      Request(i)
               PROVE  Requests'
    OBVIOUS
  <1>1. /\ UNCHANGED <<loop, phase, turn>> /\ At(i, "accepted")
    BY DEF Request, work
  <1>2. /\ Others(i) /\ push'[i].pc = "accepted" /\ push'[i].target = push[i].target
    BY <1>1, AtIs
  <1>3. i \notin pending /\ i \in ack
    BY DEF Requests
  <1>4. \A j \in pending : push'[j] = push[j]
    BY <1>2, <1>3 DEF Requests, Others
  <1>5. CASE ~Ended /\ OnTarget(i)
    <2>1. pending' = pending \cup {i} /\ UNCHANGED ack
      BY <1>5 DEF Request
    <2>2. phase # "idle" /\ push[i].target = turn
      BY <1>5 DEF OnTarget
    <2>3. \A j \in Items : push'[j].pc \in {"sent", "waiting"} => j \in ack'
      BY <1>2, <2>1 DEF Requests, Others
    <2> QED
      BY <1>1, <1>2, <1>3, <1>4, <2>1, <2>2, <2>3 DEF Requests
  <1>6. CASE ~(~Ended /\ OnTarget(i))
    <2>1. ack' = ack \ {i} /\ UNCHANGED pending
      BY <1>6 DEF Request
    <2>2. \A j \in Items : push'[j].pc \in {"sent", "waiting"} => j \in ack'
      BY <1>2, <2>1 DEF Requests, Others
    <2> QED
      BY <1>1, <1>3, <1>4, <2>1, <2>2 DEF Requests
  <1> QED
    BY <1>5, <1>6

\* The watchers answer what is pending, and nobody else touches it.
LEMMA BystandersRequests == Requests /\ Bystanders => Requests'
  <1> SUFFICES ASSUME Requests, Bystanders PROVE Requests'
    OBVIOUS
  <1>1. UNCHANGED <<push, turn, phase, loop>>
    BY BystandersMove
  <1>2. \/ UNCHANGED <<ack, pending>>
        \/ pending' = {} /\ ack' = ack \ pending
    <2> USE DEF pushes, preempt
    <2>1. ASSUME NEW s \in Stops, NEW k \in StopKinds, Stop(s, k)
          PROVE  UNCHANGED <<ack, pending>>
      BY <2>1 DEF Stop
    <2>2. CASE \E s \in Stops : Wakeup(s) \/ FinishStopCommit(s)
      BY <2>2 DEF Wakeup, FinishStopCommit
    <2>3. CASE TimerFires \/ CommitStop \/ CancelContext \/ MonitorContext
      BY <2>3 DEF TimerFires, CommitStop, CancelContext, MonitorContext
    <2>4. CASE WatchPreempt
      BY <2>4 DEF WatchPreempt, Acked
    <2>5. CASE WatchStop \/ OldWatchersEnd
      BY <2>5 DEF WatchStop, OldWatchersEnd
    <2>6. CASE \E w \in {"preempt", "stop"} : OldWatch(w)
      <3>1. /\ pending' \in {{}, pending} /\ ack' = ack \ (pending \ pending')
        BY <2>6 DEF OldWatch, Acked
      <3>2. pending' = pending => ack' = ack
        BY <3>1
      <3>3. pending' = {} => ack' = ack \ pending
        BY <3>1
      <3> QED
        BY <3>1, <3>2, <3>3
    <2>7. CASE AgentEnds \/ AgentCancelled \/ HandlerReturns
      BY <2>7 DEF AgentEnds, AgentCancelled, HandlerReturns
    <2>8. CASE UNCHANGED vars
      BY <2>8 DEF vars
    <2> QED
      BY <2>1, <2>2, <2>3, <2>4, <2>5, <2>6, <2>7, <2>8 DEF Bystanders
  <1> QED
    BY <1>1, <1>2 DEF Requests
-----------------------------------------------------------------------------
(* The invariant as a whole.                                                *)

IInv == Lists /\ Stored /\ Pushes /\ Flags /\ Requests

\* A step that leaves the checkpoint alone.
LEMMA KeepsStored ==
    ASSUME Stored, \A i \in Items : Accepted(i) => Accepted(i)',
           UNCHANGED <<saved, tooLate, replayed, stale>>,
           loop'.pc \in Outside => /\ Elems(buffer') \cap Checkpointed = {}
                                   /\ saved.spent => stale
    PROVE  Stored'
  <1>1. Checkpointed' = Checkpointed
    BY DEF Checkpointed
  <1> QED
    BY <1>1 DEF Stored

\* Between the reading of the checkpoint and the end of the cleanup.
LEMMA InsideStored ==
    ASSUME Stored,
           \/ LoadFails \/ Top \/ Receive \/ ReceivedItem \/ ReceivedWhileIdle \/ Drain
           \/ BeginPlanningTurn \/ PlanFails \/ PrepareAgent \/ BeginActiveTurn
           \/ ResumeFails \/ TurnPreempted \/ TurnDone
           \/ \E n \in 0..Cardinality(Items) : PlanTurn(n),
           Lists, Flags
    PROVE  Stored'
  <1> USE DEF inbox, pushes, active, history
  <1> loop \in LoopStates
    BY DEF Lists, Sequences
  <1>1. UNCHANGED <<saved, push, tooLate, replayed, stale>>
    BY DEF LoadFails, Top, Receive, ReceivedItem, ReceivedWhileIdle, Drain,
           BeginPlanningTurn, PlanFails, PrepareAgent, BeginActiveTurn, ResumeFails,
           TurnPreempted, TurnDone, PlanTurn
  <1>2. loop'.pc \notin Outside
    <2> USE DEF Outside, LoopStates, Go, Exit, Idle
    <2>1. CASE LoadFails \/ Top \/ Receive
      BY <2>1 DEF LoadFails, Top, Receive
    <2>2. CASE ReceivedItem \/ ReceivedWhileIdle
      BY <2>2 DEF ReceivedItem, ReceivedWhileIdle, Received
    <2>3. CASE Drain \/ BeginPlanningTurn \/ BeginActiveTurn
      BY <2>3 DEF Drain, BeginPlanningTurn, BeginActiveTurn
    <2>4. CASE PlanFails \/ PrepareAgent \/ \E n \in 0..Cardinality(Items) : PlanTurn(n)
      BY <2>4 DEF PlanFails, PrepareAgent, PlanTurn, Abort
    <2>5. CASE ResumeFails \/ TurnPreempted
      BY <2>5 DEF ResumeFails, TurnPreempted
    <2>6. CASE TurnDone
      <3>1. loop' = [Idle EXCEPT !.pc = "top"] \/ \E err : Exit(err)
        BY <2>6 DEF TurnDone
      <3> QED
        BY <3>1
    <2> QED
      BY <2>1, <2>2, <2>3, <2>4, <2>5, <2>6
  <1>3. \A i \in Items : Accepted(i) => Accepted(i)'
    BY <1>1 DEF Accepted
  <1> QED
    BY <1>1, <1>2, <1>3, KeepsStored

LEMMA LoadStored == Lists /\ Stored /\ LoadCheckpoint => Stored'
  <1> SUFFICES ASSUME Lists, Stored, LoadCheckpoint PROVE Stored'
    OBVIOUS
  <1>1. /\ UNCHANGED <<push, tooLate, stale>> /\ loop.pc = "load"
        /\ replayed' = replayed \cup Replayed
        /\ saved' = [saved EXCEPT !.spent = saved.exists] /\ saved \in Checkpoints
    BY DEF LoadCheckpoint, pushes, Lists, Sequences
  <1>2. Checkpointed' = Checkpointed
    BY <1>1 DEF Checkpointed, Checkpoints
  <1>3. loop'.pc \notin Outside
    BY DEF LoadCheckpoint, Go, Outside, Lists, Sequences, LoopStates
  <1>4. Replayed # {} => stale
    BY <1>1 DEF Stored, Outside, Replayed
  <1> QED
    BY <1>1, <1>2, <1>3, <1>4 DEF Stored, Accepted

\* What is written are items that were in the buffer or were kept from a turn.
LEMMA TakeStored == Lists /\ Stored /\ TakeUnhandled => Stored'
  <1> SUFFICES ASSUME Lists, Stored, TakeUnhandled PROVE Stored'
    OBVIOUS
  <1>1. UNCHANGED <<push, tooLate, replayed>> /\ buffer' = <<>>
    BY DEF TakeUnhandled, pushes
  <1>2. Checkpointed' \in {{}, Result, Checkpointed}
    BY TakeIs
  <1>3. (stale => stale') /\ (saved'.spent => stale')
    BY TakeIs
  <1>4. \A i \in Items : i \in Result => Accepted(i)
    BY PlacesAre DEF Lists, Placed, Result
  <1>5. Result \cap tooLate = {}
    BY Apart, PlacesAre DEF Lists, Result
  <1> QED
    BY <1>1, <1>2, <1>3, <1>4, <1>5, EmptyLine DEF Stored, Accepted

LEMMA LoopStored == IInv /\ (LoopStep \/ Start) => Stored'
  <1> SUFFICES ASSUME IInv, LoopStep \/ Start PROVE Stored'
    OBVIOUS
  <1> Lists /\ Stored /\ Flags
    BY DEF IInv
  <1>1. CASE Start
    <2>1. /\ UNCHANGED <<saved, push, buffer, tooLate, replayed, stale>>
          /\ loop.pc \in Outside
      BY <1>1 DEF Start, Outside, inbox, pushes, history
    <2>2. \A i \in Items : Accepted(i) => Accepted(i)'
      BY <2>1 DEF Accepted
    <2> QED
      BY <2>1, <2>2, KeepsStored DEF Stored
  <1>2. CASE CloseLoop
    <2>1. /\ UNCHANGED <<saved, push, replayed, stale>> /\ buffer' = <<>>
          /\ tooLate' = tooLate \cup Elems(buffer) /\ loop.pc \in Outside
      BY <1>2 DEF CloseLoop, Outside, pushes
    <2> QED
      BY <2>1, EmptyLine DEF Stored, Checkpointed, Accepted
  <1> QED
    BY <1>1, <1>2, LoadStored, TakeStored, InsideStored DEF LoopStep

LEMMA ReopenStored == IInv /\ Reopen => Stored'
  <1> SUFFICES ASSUME IInv, Reopen PROVE Stored'
    OBVIOUS
  <1>1. Stored /\ Pushes
    BY DEF IInv
  <1>2. /\ UNCHANGED <<saved, tooLate, replayed, stale>>
        /\ loop.pc \in Outside /\ buffer' = <<>>
    BY DEF Reopen, Ended, Outside
  <1>3. \A i \in Items : Accepted(i) => Accepted(i)'
    BY <1>1 DEF Reopen, Accepted, Pushes, PushStates
  <1> QED
    BY <1>1, <1>2, <1>3, EmptyLine, KeepsStored DEF Stored

\* An item that is pushed is in no checkpoint yet.
LEMMA PushStored ==
    \A i \in Items : IInv /\ (PushStep(i) \/ \E k \in PushKinds : CheckStopped(i, k)) => Stored'
  <1> SUFFICES ASSUME NEW i \in Items, IInv,
                      PushStep(i) \/ \E k \in PushKinds : CheckStopped(i, k)
               PROVE  Stored'
    OBVIOUS
  <1>1. Stored /\ Pushes /\ Lists
    BY DEF IInv
  <1>2. UNCHANGED <<saved, loop, tooLate, replayed, stale>>
    BY DEF PushStep, BeginPush, TrySend, RequestPreempt, DelayEnds, Request, CheckStopped,
           work, history
  <1>3. \/ UNCHANGED buffer
        \/ TrySend(i) /\ ~closed /\ buffer' = Append(buffer, i)
    BY DEF PushStep, BeginPush, TrySend, RequestPreempt, DelayEnds, Request, CheckStopped, inbox
  <1>4. \A j \in Items : Accepted(j) => Accepted(j)'
    <2>1. CASE BeginPush(i) \/ \E k \in PushKinds : CheckStopped(i, k)
      <3>1. push[i].pc \in {"idle", "checked"} /\ \A j \in Items \ {i} : push'[j] = push[j]
        BY <1>1, <2>1 DEF BeginPush, CheckStopped, At, Pushes
      <3> QED
        BY <3>1 DEF Accepted
    <2>2. CASE TrySend(i)
      <3>1. PICK pc : At(i, pc)
        BY <2>2 DEF TrySend
      <3>2. push[i].pc \in {"checked", "begun"} /\ \A j \in Items \ {i} : push'[j] = push[j]
        BY <1>1, <2>2, <3>1 DEF TrySend, At, Pushes
      <3> QED
        BY <3>2 DEF Accepted
    <2>3. CASE RequestPreempt(i) \/ DelayEnds(i)
      <3>1. At(i, "accepted")
        BY <2>3 DEF RequestPreempt, DelayEnds, Request
      <3>2. Others(i) /\ push'[i].pc = "accepted"
        BY <1>1, <3>1, AtIs
      <3> QED
        BY <3>2 DEF Accepted, Others
    <2> QED
      BY <2>1, <2>2, <2>3 DEF PushStep
  <1>5. CASE UNCHANGED buffer
    BY <1>1, <1>2, <1>4, <1>5, KeepsStored DEF Stored
  <1>6. CASE TrySend(i) /\ ~closed /\ buffer' = Append(buffer, i)
    <2>1. ~Accepted(i)
      BY <1>6 DEF TrySend, Accepted
    <2>2. i \notin Elems(buffer) /\ i \notin Checkpointed
      BY <1>1, <2>1, PlacesAre DEF Lists, Placed, Stored
    <2>3. Elems(buffer') = Elems(buffer) \cup {i}
      BY <1>1, <1>6, <2>2, Tame, AppendLine
    <2> QED
      BY <1>1, <1>2, <1>4, <2>2, <2>3, KeepsStored DEF Stored
  <1> QED
    BY <1>3, <1>5, <1>6

LEMMA BystandersStored == IInv /\ Bystanders => Stored'
  <1> SUFFICES ASSUME IInv, Bystanders PROVE Stored'
    OBVIOUS
  <1>1. Stored
    BY DEF IInv
  <1>2. UNCHANGED <<saved, results, buffer, loop, push>>
    BY BystandersMove
  <1>3. \A i \in Items : Accepted(i) => Accepted(i)'
    BY <1>2 DEF Accepted
  <1> QED
    BY <1>1, <1>2, <1>3, KeepsStored DEF Stored

LEMMA InitIInv == Init => IInv
  <1> SUFFICES ASSUME Init PROVE IInv
    OBVIOUS
  <1>1. Sequences
    BY EmptyLine DEF Init, Sequences, Idle, LoopStates, Resumes, Nothing, Lefts,
                     NoCheckpoint, Checkpoints
  <1>2. InHand
    BY EmptyLine DEF Init, InHand, Idle, Nothing, NoCheckpoint, Checkpointed
  <1>3. Placed
    <2>1. \A i \in Items : ~Accepted(i)
      BY DEF Init, Accepted
    <2>2. \A k \in 1..9 : Places[k] = {}
      <3>1. \A k \in {1, 2, 3, 4, 5, 6, 7, 8, 9} : Places[k] = {}
        BY PlacesAre, EmptyLine DEF Init, Idle, Nothing, NoCheckpoint, Checkpointed, Unread
      <3>2. \A k \in 1..9 : k \in {1, 2, 3, 4, 5, 6, 7, 8, 9}
        OBVIOUS
      <3> QED
        BY <3>1, <3>2
    <2> QED
      BY <2>1, <2>2 DEF Placed
  <1>7. Stored
    BY EmptyLine DEF Init, Stored, Checkpointed, NoCheckpoint
  <1>4. Pushes
    BY DEF Init, Pushes, PushStates
  <1>5. Flags
    <2>1. NoStop \in StopStates /\ NoAgent \in AgentStates
      BY FreshFlags DEF NoStop, StopStates
    <2>2. 1 \in 1..MaxRuns /\ 0 \in 0..MaxFaults
      BY AgentLoopAssumption
    <2>3. call \in [Stops -> {"idle", "wake", "close", "done"}]
      BY DEF Init
    <2> QED
      BY <2>1, <2>2, <2>3 DEF Init, Flags
  <1>6. Requests
    BY DEF Init, Requests, Idle, Planning
  <1> QED
    BY <1>1, <1>2, <1>3, <1>4, <1>5, <1>6, <1>7 DEF IInv, Lists

LEMMA LoopStepKeeps == IInv /\ (LoopStep \/ Start) => IInv'
  <1> SUFFICES ASSUME IInv, LoopStep \/ Start PROVE IInv'
    OBVIOUS
  <1> USE DEF IInv
  <1>1. Lists'
    BY LoadLists, LoadFailsLists, TopLists, ReceiveLists, ReceivedItemLists,
       ReceivedWhileIdleLists, DrainLists, BeginPlanningLists, PlanFailsLists, PlanTurnLists,
       PrepareLists, BeginActiveLists, ResumeFailsLists, TurnPreemptedLists, TurnDoneLists,
       TakeLists, CloseLists, StartLists DEF LoopStep
  <1>2. Flags'
    BY WayInFlags, TurnFlags DEF LoopStep
  <1>3. Requests'
    BY WayInRequests, PlanRequests, TurnRequests DEF LoopStep
  <1>4. UNCHANGED push /\ turn' \in {turn, turn + 1}
    BY DEF LoopStep, LoadCheckpoint, LoadFails, Top, Receive, ReceivedItem, ReceivedWhileIdle,
           Drain, BeginPlanningTurn, PlanFails, PlanTurn, PrepareAgent, BeginActiveTurn,
           ResumeFails, TurnPreempted, TurnDone, TakeUnhandled, CloseLoop, Start, pushes, preempt
  <1>5. Pushes'
    BY <1>4 DEF Pushes
  <1>6. Stored'
    BY LoopStored
  <1> QED
    BY <1>1, <1>2, <1>3, <1>5, <1>6

LEMMA ReopenKeeps == IInv /\ Reopen => IInv'
  <1> SUFFICES ASSUME IInv, Reopen PROVE IInv'
    OBVIOUS
  <1>1. Pushes'
    BY DEF IInv, Reopen, Pushes, PushStates
  <1> QED
    BY <1>1, ReopenLists, ReopenStored, ReopenFlags, ReopenRequests DEF IInv

LEMMA PushKeeps ==
    \A i \in Items : IInv /\ (PushStep(i) \/ \E k \in PushKinds : CheckStopped(i, k)) => IInv'
  <1> SUFFICES ASSUME NEW i \in Items, IInv,
                      PushStep(i) \/ \E k \in PushKinds : CheckStopped(i, k)
               PROVE  IInv'
    OBVIOUS
  <1> USE DEF IInv
  <1>1. Flags'
    BY PushFlags
  <1>2. CASE BeginPush(i)
    BY <1>1, <1>2, BeginPushKeeps, PushStored, SendRequests
  <1>3. CASE TrySend(i)
    BY <1>1, <1>3, TrySendKeeps, PushStored, SendRequests
  <1>4. CASE RequestPreempt(i) \/ DelayEnds(i)
    BY <1>1, <1>4, RequestKeeps, PushStored, RequestRequests DEF RequestPreempt, DelayEnds
  <1>5. CASE \E k \in PushKinds : CheckStopped(i, k)
    BY <1>1, <1>5, CheckStoppedKeeps, PushStored, SendRequests
  <1> QED
    BY <1>2, <1>3, <1>4, <1>5 DEF PushStep

LEMMA NextIInv == IInv /\ [Next]_vars => IInv'
  <1>1. IInv /\ Bystanders => IInv'
    BY BystandersKeep, BystandersStored, BystandersFlags, BystandersRequests DEF IInv
  <1> QED
    BY <1>1, LoopStepKeeps, ReopenKeeps, PushKeeps DEF Next, Bystanders

LEMMA Invariant == Spec => []IInv
  BY InitIInv, NextIInv, PTL DEF Spec

\* Every variable of the agent loop (agent_loop.go) keeps its type, the sequences
\* of items repeat nothing, and a preempt is pending only in the turn it was
\* aimed at (agent_loop_preempt.go).
THEOREM Types == Spec => []TypeOK
  <1>1. IInv => TypeOK
    BY DEF IInv, Lists, Sequences, Pushes, Flags, Requests, TypeOK, LoopStates, PushStates,
           Resumes, Lefts, Checkpoints, AgentStates, StopStates
  <1> QED
    BY <1>1, Invariant, PTL

\* An item that Push has accepted is in one place, or forgotten in one of the
\* ways the actions name, through turns that end, are preempted or fail, stops,
\* checkpoints that are written, cannot be written or cannot be deleted, and new
\* loops; one that starts over comes from a checkpoint whose deletion or writing
\* failed (agent_loop.go: run, cleanup; agent_loop_checkpoint.go).
THEOREM NothingLost == Spec => []Accounted
  <1>1. IInv => Accounted
    <2> SUFFICES ASSUME IInv, NEW i \in Items, Accepted(i)
                 PROVE  \E k \in DOMAIN Places :
                           \A j \in DOMAIN Places : i \in Places[j] <=> j = k
      BY DEF Accounted, Accepted, IInv, Stored
    <2>1. InOnePlace(i)
      BY DEF IInv, Lists, Placed
    <2> QED
      BY <2>1, PlacesAre DEF InOnePlace
  <1> QED
    BY <1>1, Invariant, PTL

\* A request whose turn is over, and only that, is answered by Request itself.
LEMMA RequestInTime ==
    ASSUME IInv, NEW i \in Items, Request(i), NEW j \in ack \ ack'
    PROVE  push[j].target \in {0} \cup (Nat \ {turn}) \/ phase' = "idle"
  <1>1. j = i /\ (Ended \/ ~OnTarget(i)) /\ phase' = phase
    BY DEF Request
  <1>2. push[i].target \in Nat
    BY DEF IInv, Pushes, PushStates
  <1>3. CASE Ended
    BY <1>1, <1>3 DEF Ended, IInv, Requests, Planning
  <1>4. CASE ~OnTarget(i)
    BY <1>1, <1>2, <1>4 DEF OnTarget
  <1> QED
    BY <1>1, <1>3, <1>4

LEMMA StepInTime ==
    ASSUME IInv, Next, NEW i \in ack \ ack'
    PROVE  \/ push[i].target \in {0} \cup (Nat \ {turn})
           \/ phase' = "idle"
           \/ phase = "active" /\ agent'.st # "running"
           \/ stolen'
  <1>1. i \in Items /\ ack' # ack
    BY DEF IInv, Requests
  <1>2. CASE \E j \in Items : RequestPreempt(j) \/ DelayEnds(j)
    BY <1>2, RequestInTime DEF RequestPreempt, DelayEnds
  <1>3. ASSUME NEW j \in Items, BeginPush(j) \/ TrySend(j) \/ \E k \in PushKinds : CheckStopped(j, k)
        PROVE  FALSE
    BY <1>3 DEF BeginPush, TrySend, CheckStopped
  <1>4. CASE PlanFails \/ PrepareAgent \/ \E n \in 0..Cardinality(Items) : PlanTurn(n)
    BY <1>1, <1>4 DEF PlanFails, PrepareAgent, PlanTurn, Abort, AbortPlanningTurn
  <1>5. CASE ResumeFails \/ TurnPreempted \/ TurnDone
    BY <1>5 DEF ResumeFails, TurnPreempted, TurnDone, EndActiveTurn
  <1>6. CASE LoadCheckpoint \/ LoadFails \/ Top \/ Receive \/ ReceivedItem \/ ReceivedWhileIdle \/ Drain
             \/ BeginPlanningTurn \/ BeginActiveTurn \/ TakeUnhandled \/ CloseLoop \/ Start \/ Reopen
    BY <1>1, <1>6 DEF LoadCheckpoint, LoadFails, Top, Receive, ReceivedItem, ReceivedWhileIdle, Drain,
       BeginPlanningTurn, BeginActiveTurn, TakeUnhandled, CloseLoop, Start, Reopen, pushes
  <1>7. CASE WatchPreempt
    <2>1. phase = "active" /\ agent'.st = AfterCancel
      BY <1>7 DEF WatchPreempt, IInv, Flags, AgentStates
    <2> QED
      BY <2>1 DEF AfterCancel
  <1>8. CASE \E w \in {"preempt", "stop"} : OldWatch(w)
    BY <1>8 DEF OldWatch
  <1>9. ASSUME NEW s \in Stops, Wakeup(s) \/ FinishStopCommit(s) \/ \E k \in StopKinds : Stop(s, k)
        PROVE  FALSE
    BY <1>1, <1>9 DEF Wakeup, FinishStopCommit, Stop, pushes
  <1>10. CASE TimerFires \/ CommitStop \/ CancelContext \/ MonitorContext \/ WatchStop \/ OldWatchersEnd
              \/ AgentEnds \/ AgentCancelled \/ HandlerReturns
    BY <1>1, <1>10 DEF TimerFires, CommitStop, CancelContext, MonitorContext, WatchStop, OldWatchersEnd,
       AgentEnds, AgentCancelled, HandlerReturns, pushes
  <1> QED
    BY <1>2, <1>3, <1>4, <1>5, <1>6, <1>7, <1>8, <1>9, <1>10 DEF Next, LoopStep, PushStep

\* A preempt is not answered before the turn it was aimed at is over, or its
\* agent has been told to cancel, unless an old watcher has taken the request
\* (agent_loop_preempt.go: requestPreempt, beginActiveTurn, endActiveTurn).
THEOREM AnsweredInTime == Spec => AckedInTime
  <1>1. IInv /\ [Next]_vars =>
          [\A i \in Items : i \in ack \ ack' =>
              \/ push[i].target \in {0} \cup (Nat \ {turn})
              \/ phase' = "idle"
              \/ phase = "active" /\ agent'.st # "running"
              \/ stolen']_vars
    BY StepInTime
  <1> QED
    BY <1>1, Invariant, PTL DEF Spec, AckedInTime
=============================================================================
