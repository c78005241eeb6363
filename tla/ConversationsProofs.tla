------------------------- MODULE ConversationsProofs -------------------------
(***************************************************************************)
(* What the memories of conversations promise for any number of            *)
(* conversations, rounds and end users: no round goes into one twice, none *)
(* goes into that of another silo unless the owner names it, and all are   *)
(* kept as long as the writers of a conversation do not overlap.           *)
(*                                                                         *)
(* The argument is about what a memory may hold, and what a task that is   *)
(* about to write it has read: rounds of that conversation whose task has  *)
(* committed.  As a task never returns to the queue such a round stays     *)
(* one, and the round of a task in progress is not one yet.                *)
(***************************************************************************)
EXTENDS Conversations, SequenceTheorems, TLAPS

Kinds == AppKinds \cup {"assistant_agent"}

People == EndUsers \cup {"nobody"}

ConvType ==
    [kind : Kinds, of : People, summary : Seq(Nat),
     title : {"default", "fixed", "user", "auto", "overwritten"}]

MessageType ==
    [conv : Nat, by : Kinds, of : People, memory : {"yes", "no"},
     named : {"yes", "no"}, status : {"open", "normal", "failed"},
     shown : {"yes", "no"}]

TaskType ==
    [at : {"none", "queued", "naming", "summing", "told", "done"},
     old : Seq(Nat)]

Typing ==
    /\ convs \in Seq(ConvType)
    /\ rounds \in Seq(MessageType)
    /\ tasks \in Seq(TaskType)
    /\ Len(tasks) = Len(rounds)
    /\ Len(convs) <= MaxConvs /\ Len(rounds) <= MaxRounds
    /\ live \subseteq DOMAIN convs /\ met \subseteq DOMAIN convs

\* A round is there with its conversation, and its task with its end.
Belongs(r) ==
    /\ rounds[r].conv \in DOMAIN convs
    /\ tasks[r].at = "none" <=> rounds[r].status = "open"
    /\ tasks[r].at \notin {"naming", "summing"} => tasks[r].old = <<>>

\* Who may have spoken in a conversation.
InSilo(r, conv) ==
    \/ rounds[r].by = conv.kind /\ rounds[r].of = conv.of
    \/ rounds[r].by = "web_app" /\ conv.kind = "service_api"
    \/ /\ rounds[r].named = "yes"
       /\ rounds[r].by \in {"web_app", "published"}
       /\ conv.kind \in AppKinds

\* Its task has committed, whether or not the memory was then written by hand.
Over(r) == tasks[r].at \in {"told", "done"}

\* What may be the memory of a conversation.
Memory(s, c) ==
    /\ IsInjective(s)
    /\ \A q \in ToSet(s) : q \in DOMAIN rounds /\ rounds[q].conv = c /\ Over(q)

\* Nobody else is between the read and the commit of what is written there.
Alone(c) ==
    /\ \A q, r \in Active(c) : q = r
    /\ \A r \in Active(c) : tasks[r].old = convs[c].summary
    /\ \A r \in Active(c) :
          tasks[r].at = "naming" => convs[c].title = "default"

Told(c) == {r \in DOMAIN rounds : rounds[r].conv = c /\ tasks[r].at = "told"}

Remembered(c) ==
    /\ Alone(c)
    /\ convs[c].title # "overwritten"
    /\ ToSet(convs[c].summary) = Told(c)

IInv ==
    /\ Typing
    /\ \A r \in DOMAIN rounds : /\ Belongs(r)
                                /\ InSilo(r, convs[rounds[r].conv])
                                /\ Memory(tasks[r].old, rounds[r].conv)
    /\ \A c \in DOMAIN convs :
          /\ convs[c].kind # "service_api" => convs[c].of = "nobody"
          /\ Memory(convs[c].summary, c)
    /\ \A c \in DOMAIN convs \ met : Remembered(c)

-----------------------------------------------------------------------------
(* Sequences.                                                              *)

LEMMA Appended ==
    ASSUME NEW T, NEW s \in Seq(T), NEW e \in T
    PROVE  /\ Append(s, e) \in Seq(T)
           /\ Len(Append(s, e)) = Len(s) + 1
           /\ DOMAIN Append(s, e) = DOMAIN s \cup {Len(s) + 1}
           /\ Append(s, e)[Len(s) + 1] = e
           /\ \A i \in DOMAIN s : Append(s, e)[i] = s[i]
<1>1. Len(s) \in Nat /\ DOMAIN s = 1 .. Len(s)
  BY LenProperties
<1>2. /\ Append(s, e) \in Seq(T)
      /\ Len(Append(s, e)) = Len(s) + 1
      /\ \A i \in 1 .. Len(s) : Append(s, e)[i] = s[i]
      /\ Append(s, e)[Len(s) + 1] = e
  BY <1>1, SMT
<1>3. DOMAIN Append(s, e) = 1 .. Len(s) + 1
  BY <1>2, LenProperties
<1> QED
  BY <1>1, <1>2, <1>3

\* One sequence of the length of another.
LEMMA Rewritten ==
    ASSUME NEW T, NEW s \in Seq(T), NEW f \in [DOMAIN s -> T]
    PROVE  /\ f \in Seq(T)
           /\ Len(f) = Len(s)
           /\ DOMAIN f = DOMAIN s
<1>1. Len(s) \in Nat /\ DOMAIN s = 1 .. Len(s)
  BY LenProperties
<1>2. f \in Seq(T)
  BY <1>1, SeqDef
<1>3. DOMAIN f = 1 .. Len(f) /\ Len(f) \in Nat
  BY <1>2, LenProperties
<1> QED
  BY <1>1, <1>2, <1>3

\* What is made of a memory holds the round and nothing else new.
LEMMA SummaryHolds ==
    ASSUME NEW s \in Seq(Nat), NEW r \in Nat
    PROVE  /\ Summary(s, r) \in Seq(Nat)
           /\ ToSet(Summary(s, r)) = ToSet(s) \cup {r}
           /\ IsInjective(s) /\ r \notin ToSet(s) => IsInjective(Summary(s, r))
<1> DEFINE t == Append(s, r)
<1>1. /\ t \in Seq(Nat)
      /\ DOMAIN t = DOMAIN s \cup {Len(s) + 1}
      /\ t[Len(s) + 1] = r
      /\ \A i \in DOMAIN s : t[i] = s[i]
  BY Appended
<1>2. ToSet(t) = ToSet(s) \cup {r}
  BY <1>1, Zenon DEF ToSet
<1>3. IsInjective(s) /\ r \notin ToSet(s) => IsInjective(t)
  BY <1>1 DEF ToSet, IsInjective
<1> QED
  BY <1>1, <1>2, <1>3 DEF Summary

LEMMA EmptyMemory == ASSUME NEW c PROVE Memory(<<>>, c)
  BY EmptySeq, LenProperties DEF Memory, IsInjective, ToSet

-----------------------------------------------------------------------------
(* What the steps are made of.                                             *)

LEMMA TypesHold ==
    ASSUME Typing
    PROVE  /\ DOMAIN convs = 1 .. Len(convs) /\ Len(convs) \in Nat
           /\ DOMAIN rounds = 1 .. Len(rounds) /\ Len(rounds) \in Nat
           /\ DOMAIN tasks = DOMAIN rounds
           /\ \A c \in DOMAIN convs : convs[c] \in ConvType
           /\ \A r \in DOMAIN rounds : /\ rounds[r] \in MessageType
                                       /\ tasks[r] \in TaskType
           /\ convs \in [DOMAIN convs -> ConvType]
           /\ rounds \in [DOMAIN rounds -> MessageType]
           /\ tasks \in [DOMAIN tasks -> TaskType]
<1>1. /\ convs \in [1 .. Len(convs) -> ConvType] /\ Len(convs) \in Nat
      /\ rounds \in [1 .. Len(rounds) -> MessageType] /\ Len(rounds) \in Nat
      /\ tasks \in [1 .. Len(tasks) -> TaskType]
  BY LenProperties DEF Typing
<1> QED
  BY <1>1 DEF Typing

LEMMA GoesStep ==
    ASSUME Typing, NEW r \in DOMAIN rounds, NEW at, NEW old \in Seq(Nat),
           at \in {"naming", "summing", "told", "done"}, Goes(r, at, old)
    PROVE  /\ tasks' \in Seq(TaskType) /\ Len(tasks') = Len(tasks)
           /\ DOMAIN tasks' = DOMAIN tasks
           /\ tasks'[r] = [at |-> at, old |-> old]
           /\ \A q \in DOMAIN tasks : q # r => tasks'[q] = tasks[q]
<1>1. [at |-> at, old |-> old] \in TaskType
  BY DEF TaskType
<1>2. tasks' \in [DOMAIN tasks -> TaskType]
  BY <1>1, TypesHold DEF Goes
<1>3. tasks \in Seq(TaskType)
  BY DEF Typing
<1>4. tasks' \in Seq(TaskType) /\ Len(tasks') = Len(tasks)
  BY <1>2, <1>3, Rewritten
<1> QED
  BY <1>2, <1>4, TypesHold DEF Goes

LEMMA ReachedStep ==
    ASSUME Typing, NEW c, NEW kind \in Kinds, NEW of \in People,
           Reached(c, kind, of)
    PROVE  /\ convs' \in Seq(ConvType) /\ Len(convs') <= MaxConvs
           /\ live' \subseteq DOMAIN convs'
           /\ DOMAIN convs' = DOMAIN convs \cup {c}
           /\ \A d \in DOMAIN convs : convs'[d] = convs[d]
           /\ c \notin DOMAIN convs => convs'[c] = Conv(kind, of)
<1>1. CASE c \in DOMAIN convs
  BY <1>1 DEF Reached, Typing
<1>2. CASE c \notin DOMAIN convs
  <2>1. Conv(kind, of) \in ConvType
    BY EmptySeq DEF Conv, ConvType
  <2>2. /\ c = Len(convs) + 1 /\ c <= MaxConvs
        /\ convs' = Append(convs, Conv(kind, of)) /\ live' = live \cup {c}
    BY <1>2 DEF Reached
  <2> QED
    BY <1>2, <2>1, <2>2, Appended DEF Typing
<1> QED
  BY <1>1, <1>2

\* What every step leaves: rows keep what they are about, the round of a
\* task that has committed stays one, and so may a memory.
Carry ==
    /\ \A c \in DOMAIN convs :
          /\ c \in DOMAIN convs'
          /\ convs'[c].kind = convs[c].kind /\ convs'[c].of = convs[c].of
    /\ \A r \in DOMAIN rounds :
          /\ r \in DOMAIN rounds'
          /\ rounds'[r].conv = rounds[r].conv
          /\ rounds'[r].by = rounds[r].by /\ rounds'[r].of = rounds[r].of
          /\ rounds'[r].named = rounds[r].named
          /\ Over(r) => Over(r)'

\* A memory may be written where it was read.
LEMMA MemoryKept ==
    ASSUME Carry, NEW c, NEW s, convs'[c].summary = s, Memory(s, c)
    PROVE  Memory(convs[c].summary, c)'
  BY DEF Carry, Memory

\* A task keeps what it has read or reads what is remembered.
LEMMA OldKept ==
    ASSUME Carry, NEW r \in DOMAIN rounds, NEW s, tasks'[r].old = s,
           Memory(s, rounds[r].conv)
    PROVE  Memory(tasks[r].old, rounds[r].conv)'
  BY DEF Carry, Memory

LEMMA SiloKept ==
    ASSUME Carry, NEW r \in DOMAIN rounds, rounds[r].conv \in DOMAIN convs,
           InSilo(r, convs[rounds[r].conv])
    PROVE  /\ (rounds[r].conv \in DOMAIN convs)'
           /\ InSilo(r, convs[rounds[r].conv])'
  BY DEF Carry, InSilo

\* Rows are hidden or deleted.
LEMMA QuietStep ==
    ASSUME IInv, UNCHANGED <<convs, tasks, met>>, live' \subseteq live,
           rounds' \in [DOMAIN rounds -> MessageType],
           \A r \in DOMAIN rounds :
              /\ rounds'[r].conv = rounds[r].conv
              /\ rounds'[r].by = rounds[r].by /\ rounds'[r].of = rounds[r].of
              /\ rounds'[r].named = rounds[r].named
              /\ rounds'[r].status = rounds[r].status
    PROVE  IInv'
<1>1. Typing /\ rounds \in Seq(MessageType)
  BY DEF IInv, Typing
<1>2. /\ rounds' \in Seq(MessageType) /\ Len(rounds') = Len(rounds)
      /\ DOMAIN rounds' = DOMAIN rounds
  BY <1>1, Rewritten
<1>3. Typing'
  BY <1>1, <1>2 DEF Typing
<1>4. Carry
  BY <1>2 DEF Carry, Over
<1>5. ASSUME NEW r \in DOMAIN rounds'
      PROVE  /\ Belongs(r)' /\ InSilo(r, convs[rounds[r].conv])'
             /\ Memory(tasks[r].old, rounds[r].conv)'
  <2>1. r \in DOMAIN rounds /\ tasks'[r].old = tasks[r].old
    BY <1>2, <1>5
  <2>2. /\ Belongs(r) /\ InSilo(r, convs[rounds[r].conv])
        /\ Memory(tasks[r].old, rounds[r].conv)
    BY <2>1 DEF IInv
  <2>3. Memory(tasks[r].old, rounds[r].conv)'
    BY <1>4, <2>1, <2>2, OldKept
  <2> QED
    BY <1>4, <2>1, <2>2, <2>3, SiloKept DEF Belongs
<1>6. ASSUME NEW c \in DOMAIN convs'
      PROVE  /\ convs'[c].kind # "service_api" => convs'[c].of = "nobody"
             /\ Memory(convs[c].summary, c)'
  <2>1. c \in DOMAIN convs /\ Memory(convs[c].summary, c)
    BY <1>6 DEF IInv
  <2> QED
    BY <1>4, <2>1, MemoryKept DEF IInv
<1>7. ASSUME NEW c \in DOMAIN convs' \ met' PROVE Remembered(c)'
  <2>1. Remembered(c)
    BY <1>7 DEF IInv
  <2>2. Active(c)' = Active(c) /\ Told(c)' = Told(c)
    BY <1>1, <1>2, TypesHold DEF Active, Told
  <2> QED
    BY <2>1, <2>2 DEF Remembered, Alone
<1> QED
  BY <1>3, <1>5, <1>6, <1>7 DEF IInv

\* Whoever speaks may continue the conversation, which is there or is created.
Welcome(c, by, of, named) ==
    c \in DOMAIN convs =>
        \/ by = convs[c].kind /\ of = convs[c].of
        \/ by = "web_app" /\ convs[c].kind = "service_api"
        \/ /\ named = "yes" /\ by \in {"web_app", "published"}
           /\ convs[c].kind \in AppKinds

\* A conversation is opened or continued, with or without a round.
LEMMA GrowStep ==
    ASSUME IInv, NEW c, NEW by \in Kinds, NEW of \in People,
           NEW named, by # "service_api" => of = "nobody",
           Welcome(c, by, of, named), Reached(c, by, of), UNCHANGED met,
           rounds' \in Seq(MessageType), Len(rounds') <= MaxRounds,
           tasks' \in Seq(TaskType), Len(tasks') = Len(rounds'),
           \A r \in DOMAIN rounds : /\ r \in DOMAIN rounds'
                                    /\ rounds'[r] = rounds[r]
                                    /\ tasks'[r] = tasks[r],
           \A r \in DOMAIN rounds' \ DOMAIN rounds :
              /\ rounds'[r].conv = c
              /\ rounds'[r].by = by /\ rounds'[r].of = of
              /\ rounds'[r].named = named
              /\ rounds'[r].status = "open" /\ tasks'[r] = NoTask
    PROVE  IInv'
<1>1. Typing
  BY DEF IInv
<1>2. /\ convs' \in Seq(ConvType) /\ Len(convs') <= MaxConvs
      /\ live' \subseteq DOMAIN convs'
      /\ DOMAIN convs' = DOMAIN convs \cup {c}
      /\ \A d \in DOMAIN convs : convs'[d] = convs[d]
      /\ c \notin DOMAIN convs => convs'[c] = Conv(by, of)
  BY <1>1, ReachedStep
<1>3. Typing'
  BY <1>1, <1>2 DEF Typing
<1>4. Carry
  BY <1>2 DEF Carry, Over
<1>5. ASSUME NEW r \in DOMAIN rounds'
      PROVE  /\ Belongs(r)' /\ InSilo(r, convs[rounds[r].conv])'
             /\ Memory(tasks[r].old, rounds[r].conv)'
  <2>1. CASE r \in DOMAIN rounds
    <3>1. /\ Belongs(r) /\ InSilo(r, convs[rounds[r].conv])
          /\ Memory(tasks[r].old, rounds[r].conv)
          /\ rounds'[r] = rounds[r] /\ tasks'[r] = tasks[r]
      BY <2>1 DEF IInv
    <3>2. Memory(tasks[r].old, rounds[r].conv)'
      BY <1>4, <2>1, <3>1, OldKept
    <3>3. /\ (rounds[r].conv \in DOMAIN convs)'
          /\ InSilo(r, convs[rounds[r].conv])'
      BY <1>4, <2>1, <3>1, SiloKept DEF Belongs
    <3> QED
      BY <3>1, <3>2, <3>3 DEF Belongs
  <2>2. CASE r \notin DOMAIN rounds
    <3>1. /\ rounds'[r].conv = c
          /\ rounds'[r].by = by /\ rounds'[r].of = of
          /\ rounds'[r].named = named
          /\ rounds'[r].status = "open"
          /\ tasks'[r].at = "none" /\ tasks'[r].old = <<>>
      BY <1>5, <2>2 DEF NoTask
    <3>2. Belongs(r)'
      BY <1>2, <3>1 DEF Belongs
    <3>3. InSilo(r, convs[rounds[r].conv])'
      <4>1. CASE c \in DOMAIN convs
        BY <1>2, <3>1, <4>1 DEF InSilo, Welcome
      <4>2. CASE c \notin DOMAIN convs
        BY <1>2, <3>1, <4>2 DEF InSilo, Conv
      <4> QED
        BY <4>1, <4>2
    <3>4. Memory(tasks[r].old, rounds[r].conv)'
      BY <3>1, EmptySeq, LenProperties DEF Memory, IsInjective, ToSet
    <3> QED
      BY <3>2, <3>3, <3>4
  <2> QED
    BY <2>1, <2>2
<1>6. ASSUME NEW d \in DOMAIN convs'
      PROVE  /\ convs'[d].kind # "service_api" => convs'[d].of = "nobody"
             /\ Memory(convs[d].summary, d)'
  <2>1. CASE d \in DOMAIN convs
    <3>1. /\ convs[d].kind # "service_api" => convs[d].of = "nobody"
          /\ Memory(convs[d].summary, d) /\ convs'[d] = convs[d]
      BY <1>2, <2>1 DEF IInv
    <3> QED
      BY <1>4, <3>1, MemoryKept
  <2>2. CASE d \notin DOMAIN convs
    <3>1. /\ convs'[d].kind = by /\ convs'[d].of = of
          /\ convs'[d].summary = <<>>
      BY <1>2, <1>6, <2>2 DEF Conv
    <3>2. Memory(convs[d].summary, d)'
      BY <3>1, EmptySeq, LenProperties DEF Memory, IsInjective, ToSet
    <3> QED
      BY <3>1, <3>2
  <2> QED
    BY <2>1, <2>2
<1>7. DOMAIN tasks = DOMAIN rounds
  BY <1>1, TypesHold
<1>8. ASSUME NEW d \in DOMAIN convs' \ met' PROVE Remembered(d)'
  <2>1. Active(d)' = Active(d) /\ Told(d)' = Told(d)
    <3>1. DOMAIN tasks' = DOMAIN rounds'
      BY LenProperties
    <3>2. \A r \in DOMAIN rounds' \ DOMAIN rounds : tasks'[r].at = "none"
      BY DEF NoTask
    <3> QED
      BY <1>7, <3>1, <3>2 DEF Active, Told
  <2>2. CASE d \in DOMAIN convs
    <3>1. Remembered(d) /\ convs'[d] = convs[d]
      BY <1>2, <1>8, <2>2 DEF IInv
    <3>2. \A r \in Active(d) : tasks'[r] = tasks[r]
      BY <1>7 DEF Active
    <3> QED
      BY <2>1, <3>1, <3>2 DEF Remembered, Alone
  <2>3. CASE d \notin DOMAIN convs
    <3>1. \A r \in DOMAIN rounds : rounds[r].conv # d
      BY <2>3 DEF IInv, Belongs
    <3>2. Active(d) = {} /\ Told(d) = {}
      BY <1>7, <3>1 DEF Active, Told
    <3>3. convs'[d].summary = <<>> /\ convs'[d].title # "overwritten"
      BY <1>2, <1>8, <2>3 DEF Conv
    <3>4. ToSet(convs'[d].summary) = {}
      BY <3>3 DEF ToSet
    <3> QED
      BY <2>1, <3>2, <3>3, <3>4 DEF Remembered, Alone
  <2> QED
    BY <2>2, <2>3
<1> QED
  BY <1>3, <1>5, <1>6, <1>8 DEF IInv

LEMMA AskStep ==
    ASSUME IInv, NEW c, NEW by \in Kinds, NEW of \in People,
           NEW memory \in {"yes", "no"}, NEW named \in {"yes", "no"},
           by # "service_api" => of = "nobody",
           Welcome(c, by, of, named), Ask(c, by, of, memory, named)
    PROVE  IInv'
<1> DEFINE e == Message(c, by, of, memory, named)
<1>1. Typing /\ rounds \in Seq(MessageType) /\ tasks \in Seq(TaskType)
  BY DEF IInv, Typing
<1>2. /\ DOMAIN convs = 1 .. Len(convs) /\ Len(convs) \in Nat
      /\ DOMAIN tasks = DOMAIN rounds /\ Len(rounds) \in Nat
      /\ DOMAIN rounds = 1 .. Len(rounds) /\ Len(tasks) = Len(rounds)
  BY <1>1, TypesHold DEF Typing
<1>3. c \in Nat
  BY <1>2 DEF Ask, Reached
<1>4. e \in MessageType /\ NoTask \in TaskType
  BY <1>3, EmptySeq DEF Message, MessageType, NoTask, TaskType
<1>5. /\ rounds' \in Seq(MessageType) /\ Len(rounds') = Len(rounds) + 1
      /\ DOMAIN rounds' = DOMAIN rounds \cup {Len(rounds) + 1}
      /\ rounds'[Len(rounds) + 1] = e
      /\ \A r \in DOMAIN rounds : rounds'[r] = rounds[r]
  BY <1>1, <1>4, Appended DEF Ask
<1>6. /\ tasks' \in Seq(TaskType) /\ Len(tasks') = Len(tasks) + 1
      /\ tasks'[Len(tasks) + 1] = NoTask
      /\ \A r \in DOMAIN tasks : tasks'[r] = tasks[r]
  BY <1>1, <1>4, Appended DEF Ask
<1>7. Len(rounds') <= MaxRounds
  BY <1>2, <1>5, BoundsAssumption DEF Ask
<1>8. \A r \in DOMAIN rounds' \ DOMAIN rounds :
         /\ rounds'[r].conv = c
         /\ rounds'[r].by = by /\ rounds'[r].of = of
         /\ rounds'[r].named = named
         /\ rounds'[r].status = "open" /\ tasks'[r] = NoTask
  BY <1>2, <1>5, <1>6 DEF Message
<1>9. Reached(c, by, of) /\ UNCHANGED met
  BY DEF Ask
<1>10. \A r \in DOMAIN rounds : /\ r \in DOMAIN rounds'
                                /\ rounds'[r] = rounds[r]
                                /\ tasks'[r] = tasks[r]
  BY <1>2, <1>5, <1>6
<1>11. Len(tasks') = Len(rounds')
  BY <1>2, <1>5, <1>6
<1> QED
  BY <1>5, <1>6, <1>7, <1>8, <1>9, <1>10, <1>11, GrowStep

LEMMA OpenStep ==
    ASSUME IInv, NEW by \in {"web_app", "published"}, Open(by)
    PROVE  IInv'
<1>1. Typing
  BY DEF IInv
<1>2. Len(convs) + 1 \notin DOMAIN convs
  BY <1>1, TypesHold
<1>3. Welcome(Len(convs) + 1, by, "nobody", "no")
  BY <1>2 DEF Welcome
<1>4. by \in Kinds /\ "nobody" \in People
  BY DEF Kinds, AppKinds, People
<1> QED
  BY <1>1, <1>3, <1>4, GrowStep DEF Open, Typing

\* Only the task of round r, its row and its conversation change.
LEMMA TaskStep ==
    ASSUME IInv, NEW r \in DOMAIN rounds, ~Over(r),
           UNCHANGED live, met \subseteq met', met' \subseteq DOMAIN convs,
           convs' \in [DOMAIN convs -> ConvType],
           rounds' \in [DOMAIN rounds -> MessageType],
           tasks' \in [DOMAIN tasks -> TaskType],
           \A q \in DOMAIN rounds :
              /\ rounds'[q].conv = rounds[q].conv
              /\ rounds'[q].by = rounds[q].by /\ rounds'[q].of = rounds[q].of
              /\ rounds'[q].named = rounds[q].named
              /\ q # r => /\ rounds'[q].status = rounds[q].status
                          /\ tasks'[q] = tasks[q],
           \A d \in DOMAIN convs : d # rounds[r].conv => convs'[d] = convs[d],
           convs'[rounds[r].conv].kind = convs[rounds[r].conv].kind,
           convs'[rounds[r].conv].of = convs[rounds[r].conv].of,
           \/ convs'[rounds[r].conv].summary = convs[rounds[r].conv].summary
           \/ /\ convs'[rounds[r].conv].summary = Summary(tasks[r].old, r)
              /\ Over(r)',
           Belongs(r)',
           tasks'[r].old \in
              {<<>>, tasks[r].old, convs[rounds[r].conv].summary},
           rounds[r].conv \notin met' => Remembered(rounds[r].conv)'
    PROVE  IInv'
<1> DEFINE c == rounds[r].conv
<1>1. /\ Typing /\ rounds \in Seq(MessageType) /\ tasks \in Seq(TaskType)
      /\ convs \in Seq(ConvType) /\ c \in DOMAIN convs
  BY DEF IInv, Typing, Belongs
<1>2. /\ rounds' \in Seq(MessageType) /\ Len(rounds') = Len(rounds)
      /\ DOMAIN rounds' = DOMAIN rounds
  BY <1>1, Rewritten
<1>3. /\ tasks' \in Seq(TaskType) /\ Len(tasks') = Len(tasks)
      /\ DOMAIN tasks' = DOMAIN tasks
  BY <1>1, Rewritten
<1>4. /\ convs' \in Seq(ConvType) /\ Len(convs') = Len(convs)
      /\ DOMAIN convs' = DOMAIN convs
  BY <1>1, Rewritten
<1>5. Typing'
  BY <1>1, <1>2, <1>3, <1>4 DEF Typing
<1>6. Carry
  BY <1>2, <1>4 DEF Carry, Over
<1>7. /\ Memory(tasks[r].old, c) /\ Memory(convs[c].summary, c)
      /\ Memory(<<>>, c)
  BY <1>1, EmptyMemory DEF IInv
<1>8. ASSUME NEW q \in DOMAIN rounds'
      PROVE  /\ Belongs(q)' /\ InSilo(q, convs[rounds[q].conv])'
             /\ Memory(tasks[q].old, rounds[q].conv)'
  <2>1. /\ q \in DOMAIN rounds /\ Belongs(q)
        /\ InSilo(q, convs[rounds[q].conv])
        /\ Memory(tasks[q].old, rounds[q].conv)
    BY <1>2 DEF IInv
  <2>2. Belongs(q)'
    BY <1>4, <2>1 DEF Belongs
  <2>3. Memory(tasks'[q].old, rounds[q].conv)
    BY <1>7, <2>1
  <2>4. Memory(tasks[q].old, rounds[q].conv)'
    BY <1>6, <2>1, <2>3, OldKept
  <2>5. InSilo(q, convs[rounds[q].conv])'
    BY <1>6, <2>1, SiloKept DEF Belongs
  <2> QED
    BY <2>2, <2>4, <2>5
<1>9. ASSUME NEW d \in DOMAIN convs'
      PROVE  /\ convs'[d].kind # "service_api" => convs'[d].of = "nobody"
             /\ Memory(convs[d].summary, d)'
  <2>1. /\ d \in DOMAIN convs
        /\ convs[d].kind # "service_api" => convs[d].of = "nobody"
        /\ Memory(convs[d].summary, d)
    BY <1>4 DEF IInv
  <2>2. CASE convs'[d].summary = convs[d].summary
    BY <1>6, <2>1, <2>2, MemoryKept
  <2>3. CASE convs'[d].summary # convs[d].summary
    <3>1. d = c /\ convs'[c].summary = Summary(tasks[r].old, r) /\ Over(r)'
      BY <2>1, <2>3
    <3>2. tasks[r].old \in Seq(Nat) /\ r \in Nat
      BY <1>1, TypesHold DEF TaskType
    <3>3. /\ ToSet(convs'[c].summary) = ToSet(tasks[r].old) \cup {r}
          /\ r \notin ToSet(tasks[r].old) => IsInjective(convs'[c].summary)
      BY <1>7, <3>1, <3>2, SummaryHolds DEF Memory
    <3>4. r \notin ToSet(tasks[r].old)
      BY <1>7 DEF Memory
    <3>5. \A q \in ToSet(tasks[r].old) :
             q \in DOMAIN rounds /\ rounds[q].conv = c /\ Over(q)
      BY <1>7 DEF Memory
    <3>6. \A q \in ToSet(convs'[c].summary) :
             /\ q \in DOMAIN rounds'
             /\ rounds'[q].conv = c /\ Over(q)'
      BY <1>2, <1>6, <3>1, <3>3, <3>5 DEF Carry
    <3>7. Memory(convs[c].summary, c)'
      BY <3>3, <3>4, <3>6 DEF Memory
    <3> QED
      BY <2>1, <3>1, <3>7
  <2> QED
    BY <2>2, <2>3
<1>10. ASSUME NEW d \in DOMAIN convs' \ met' PROVE Remembered(d)'
  <2>1. CASE d # c
    <3>1. Remembered(d) /\ convs'[d] = convs[d]
      BY <1>4, <1>10, <2>1 DEF IInv
    <3>2. /\ Active(d)' = Active(d) /\ Told(d)' = Told(d)
          /\ \A q \in Active(d) : tasks'[q] = tasks[q]
      <4>1. DOMAIN tasks = DOMAIN rounds
        BY <1>1, TypesHold
      <4>2. \A q \in DOMAIN rounds :
               /\ rounds'[q].conv = rounds[q].conv
               /\ rounds[q].conv = d => tasks'[q] = tasks[q]
        BY <2>1
      <4> QED
        BY <1>2, <1>3, <4>1, <4>2 DEF Active, Told
    <3> QED
      BY <3>1, <3>2 DEF Remembered, Alone
  <2> QED
    BY <1>10, <2>1
<1> QED
  BY <1>5, <1>8, <1>9, <1>10 DEF IInv

\* How a step of one task changes who is at work and what is remembered.
LEMMA SetsStep ==
    ASSUME Typing, NEW r \in DOMAIN rounds, ~Over(r),
           DOMAIN rounds' = DOMAIN rounds, DOMAIN tasks' = DOMAIN tasks,
           \A q \in DOMAIN rounds : /\ rounds'[q].conv = rounds[q].conv
                                    /\ q # r => tasks'[q] = tasks[q]
    PROVE  /\ Active(rounds[r].conv)' =
                 IF tasks'[r].at \in {"naming", "summing"}
                 THEN Active(rounds[r].conv) \cup {r}
                 ELSE Active(rounds[r].conv) \ {r}
           /\ Told(rounds[r].conv)' =
                 IF tasks'[r].at = "told" THEN Told(rounds[r].conv) \cup {r}
                 ELSE Told(rounds[r].conv)
<1>1. DOMAIN tasks = DOMAIN rounds
  BY TypesHold
<1> DEFINE c == rounds[r].conv
<1>2. \A q : q \in Active(c)' <=>
         IF q = r THEN tasks'[r].at \in {"naming", "summing"}
         ELSE q \in Active(c)
  BY <1>1 DEF Active
<1>3. \A q : q \in Told(c)' <=>
         IF q = r THEN tasks'[r].at = "told" ELSE q \in Told(c)
  BY <1>1 DEF Told
<1>4. r \notin Told(c)
  BY DEF Told, Over
<1>5. Active(c)' = IF tasks'[r].at \in {"naming", "summing"}
                   THEN Active(c) \cup {r} ELSE Active(c) \ {r}
  BY <1>2
<1>6. Told(c)' =
         IF tasks'[r].at = "told" THEN Told(c) \cup {r} ELSE Told(c)
  BY <1>3, <1>4
<1> QED
  BY <1>5, <1>6

\* The task of a round is sent or not.
LEMMA EndStep ==
    ASSUME IInv, NEW r \in DOMAIN rounds, Close(r) \/ Break(r)
    PROVE  IInv'
<1> DEFINE c == rounds[r].conv
<1>1. PICK at \in {"queued", "done"}, status \in {"normal", "failed"} :
         /\ rounds[r].status = "open"
         /\ rounds' = [rounds EXCEPT ![r].status = status]
         /\ tasks' = [tasks EXCEPT ![r].at = at]
         /\ UNCHANGED <<convs, live, met>>
  BY DEF Close, Break
<1>2. Typing /\ Belongs(r)
  BY DEF IInv
<1>3. /\ DOMAIN tasks = DOMAIN rounds
      /\ \A q \in DOMAIN rounds : /\ rounds[q] \in MessageType
                                  /\ tasks[q] \in TaskType
      /\ convs \in [DOMAIN convs -> ConvType]
      /\ rounds \in [DOMAIN rounds -> MessageType]
      /\ tasks \in [DOMAIN tasks -> TaskType]
  BY <1>2, TypesHold
<1>4. tasks[r].at = "none" /\ tasks[r].old = <<>>
  BY <1>1, <1>2 DEF Belongs
<1>5. /\ rounds' \in [DOMAIN rounds -> MessageType]
      /\ tasks' \in [DOMAIN tasks -> TaskType]
  <2>1. [rounds[r] EXCEPT !.status = status] \in MessageType
    BY <1>3 DEF MessageType
  <2>2. [tasks[r] EXCEPT !.at = at] \in TaskType
    BY <1>3 DEF TaskType
  <2>3. /\ rounds' = [rounds EXCEPT
                        ![r] = [rounds[r] EXCEPT !.status = status]]
        /\ tasks' = [tasks EXCEPT ![r] = [tasks[r] EXCEPT !.at = at]]
    BY <1>1
  <2> QED
    BY <1>3, <2>1, <2>2, <2>3
<1>6. \A q \in DOMAIN rounds :
         /\ rounds'[q].conv = rounds[q].conv
         /\ rounds'[q].by = rounds[q].by /\ rounds'[q].of = rounds[q].of
         /\ rounds'[q].named = rounds[q].named
         /\ q # r => /\ rounds'[q].status = rounds[q].status
                     /\ tasks'[q] = tasks[q]
  BY <1>1, <1>3 DEF MessageType
<1>7. /\ tasks'[r].at = at /\ tasks'[r].old = <<>>
      /\ rounds'[r].status = status
  BY <1>1, <1>3, <1>4 DEF MessageType, TaskType
<1>8. Belongs(r)'
  BY <1>1, <1>2, <1>6, <1>7 DEF Belongs
<1>9. ~Over(r)
  BY <1>4 DEF Over
<1>10. c \notin met' => Remembered(c)'
  <2>1. Active(c)' = Active(c) \ {r} /\ Told(c)' = Told(c)
    BY <1>2, <1>5, <1>6, <1>7, <1>9, SetsStep
  <2>2. c \notin met' => Remembered(c)
    BY <1>1, <1>2 DEF IInv, Belongs
  <2>3. \A q \in Active(c)' : q \in Active(c) /\ tasks'[q] = tasks[q]
    BY <1>3, <1>6, <2>1 DEF Active
  <2>4. convs' = convs
    BY <1>1
  <2>5. rounds'[r].conv = rounds[r].conv
    BY <1>6
  <2> QED
    BY <2>1, <2>2, <2>3, <2>4, <2>5 DEF Remembered, Alone
<1> QED
  BY <1>1, <1>2, <1>3, <1>5, <1>6, <1>7, <1>8, <1>9, <1>10, TaskStep DEF Typing

\* A task that is queued or at work goes on, and writes its conversation.
LEMMA GoStep ==
    ASSUME IInv, NEW r \in DOMAIN rounds,
           tasks[r].at \in {"queued", "naming", "summing"},
           NEW at \in {"naming", "summing", "told", "done"},
           NEW old \in {<<>>, tasks[r].old, convs[rounds[r].conv].summary},
           at \notin {"naming", "summing"} => old = <<>>,
           Goes(r, at, old), UNCHANGED <<live, rounds>>,
           met \subseteq met', met' \subseteq DOMAIN convs,
           NEW conv \in ConvType,
           convs' = [convs EXCEPT ![rounds[r].conv] = conv],
           conv.kind = convs[rounds[r].conv].kind,
           conv.of = convs[rounds[r].conv].of,
           \/ conv.summary = convs[rounds[r].conv].summary
           \/ conv.summary = Summary(tasks[r].old, r) /\ at = "told",
           rounds[r].conv \notin met' =>
              /\ \/ Active(rounds[r].conv) \subseteq {r}
                 \/ at = "done" /\ conv = convs[rounds[r].conv]
              /\ at \in {"naming", "summing"} => old = conv.summary
              /\ at = "naming" => conv.title = "default"
              /\ conv.title # "overwritten"
              /\ at = "told" =>
                    ToSet(conv.summary) = Told(rounds[r].conv) \cup {r}
              /\ at # "told" => ToSet(conv.summary) = Told(rounds[r].conv)
    PROVE  IInv'
<1> DEFINE c == rounds[r].conv
<1>1. Typing /\ Belongs(r) /\ c \in DOMAIN convs
  BY DEF IInv, Belongs
<1>2. /\ DOMAIN tasks = DOMAIN rounds
      /\ convs[c] \in ConvType /\ tasks[r] \in TaskType
      /\ convs \in [DOMAIN convs -> ConvType]
      /\ rounds \in [DOMAIN rounds -> MessageType]
      /\ tasks \in [DOMAIN tasks -> TaskType]
  BY <1>1, TypesHold
<1>3. old \in Seq(Nat)
  BY <1>2, EmptySeq DEF ConvType, TaskType
<1>4. /\ tasks' \in Seq(TaskType) /\ DOMAIN tasks' = DOMAIN tasks
      /\ tasks'[r] = [at |-> at, old |-> old]
      /\ \A q \in DOMAIN tasks : q # r => tasks'[q] = tasks[q]
  BY <1>1, <1>3, GoesStep
<1>5. tasks' \in [DOMAIN tasks -> TaskType]
  BY <1>4, LenProperties
<1>6. /\ convs' \in [DOMAIN convs -> ConvType] /\ convs'[c] = conv
      /\ \A d \in DOMAIN convs : d # c => convs'[d] = convs[d]
  BY <1>1, <1>2
<1>7. ~Over(r) /\ at # "none" /\ (at = "told" => Over(r)')
  BY <1>4 DEF Over
<1>8. /\ DOMAIN rounds' = DOMAIN rounds
      /\ rounds' \in [DOMAIN rounds -> MessageType]
      /\ \A q \in DOMAIN rounds :
            /\ rounds'[q].conv = rounds[q].conv
            /\ rounds'[q].by = rounds[q].by /\ rounds'[q].of = rounds[q].of
            /\ rounds'[q].named = rounds[q].named
            /\ q # r => /\ rounds'[q].status = rounds[q].status
                        /\ tasks'[q] = tasks[q]
  BY <1>2, <1>4
<1>9. tasks'[r].at = at /\ tasks'[r].old = old
  BY <1>4
<1>10. Belongs(r)'
  BY <1>1, <1>4, <1>6, <1>7 DEF Belongs
<1>11. c \notin met' => Remembered(c)'
  <2> SUFFICES ASSUME c \notin met' PROVE Remembered(c)'
    OBVIOUS
  <2>1. Remembered(c)
    BY <1>1 DEF IInv
  <2>2. /\ Active(c)' = IF at \in {"naming", "summing"}
                        THEN Active(c) \cup {r} ELSE Active(c) \ {r}
        /\ Told(c)' = IF at = "told" THEN Told(c) \cup {r} ELSE Told(c)
    BY <1>1, <1>4, <1>7, <1>8, <1>9, SetsStep
  <2>3. Told(c)' = ToSet(conv.summary)
    BY <2>2
  <2>4. CASE Active(c) \subseteq {r}
    <3>1. Active(c)' \subseteq {r}
      BY <2>2, <2>4
    <3>2. Active(c)' # {} => at \in {"naming", "summing"}
      BY <2>2, <2>4
    <3> QED
      BY <1>4, <1>6, <2>3, <3>1, <3>2 DEF Remembered, Alone
  <2>5. CASE at = "done" /\ conv = convs[c]
    <3>1. /\ Active(c)' \subseteq Active(c)
          /\ \A q \in Active(c)' : tasks'[q] = tasks[q]
      BY <1>4, <2>2, <2>5 DEF Active
    <3> QED
      BY <1>6, <2>1, <2>3, <2>5, <3>1 DEF Remembered, Alone
  <2> QED
    BY <2>4, <2>5
<1>12. /\ convs'[c].kind = convs[c].kind /\ convs'[c].of = convs[c].of
       /\ \/ convs'[c].summary = convs[c].summary
          \/ convs'[c].summary = Summary(tasks[r].old, r) /\ Over(r)'
  BY <1>6, <1>7
<1>13. tasks'[r].old \in {<<>>, tasks[r].old, convs[c].summary}
  BY <1>9
<1> QED
  BY <1>5, <1>6, <1>7, <1>10, <1>11, <1>8, <1>12, <1>13, TaskStep

\* What the task of a round finds.
LEMMA AtWork ==
    ASSUME IInv, NEW r \in DOMAIN rounds
    PROVE  /\ Typing /\ rounds[r].conv \in DOMAIN convs
           /\ convs[rounds[r].conv] \in ConvType
           /\ convs = [convs EXCEPT ![rounds[r].conv] = convs[rounds[r].conv]]
           /\ tasks[r] \in TaskType
           /\ met \subseteq DOMAIN convs
           /\ rounds[r].conv \notin met => Remembered(rounds[r].conv)
           /\ tasks[r].at \in {"naming", "summing"} =>
                 /\ r \in Active(rounds[r].conv)
                 /\ rounds[r].conv \notin met =>
                       /\ Active(rounds[r].conv) \subseteq {r}
                       /\ tasks[r].old = convs[rounds[r].conv].summary
                       /\ tasks[r].at = "naming" =>
                             convs[rounds[r].conv].title = "default"
<1> DEFINE c == rounds[r].conv
<1>1. Typing /\ c \in DOMAIN convs /\ met \subseteq DOMAIN convs
  BY DEF IInv, Belongs, Typing
<1>2. /\ convs \in [DOMAIN convs -> ConvType]
      /\ convs[c] \in ConvType /\ tasks[r] \in TaskType
      /\ DOMAIN tasks = DOMAIN rounds
  BY <1>1, TypesHold
<1>3. convs = [convs EXCEPT ![c] = convs[c]]
  BY <1>1, <1>2
<1>4. c \notin met => Remembered(c)
  BY <1>1 DEF IInv
<1>5. tasks[r].at \in {"naming", "summing"} => r \in Active(c)
  BY <1>2 DEF Active
<1> QED
  BY <1>1, <1>2, <1>3, <1>4, <1>5 DEF Remembered, Alone

LEMMA MeetsStep ==
    ASSUME IInv, NEW c \in DOMAIN convs, Meets(c)
    PROVE  /\ met \subseteq met' /\ met' \subseteq DOMAIN convs
           /\ c \notin met' => Active(c) = {}
  BY DEF Meets, IInv, Typing

LEMMA StartStep ==
    ASSUME IInv, NEW r \in DOMAIN rounds, Start(r)
    PROVE  IInv'
<1> DEFINE c == rounds[r].conv
<1>1. /\ tasks[r].at = "queued" /\ UNCHANGED <<convs, live, rounds>>
      /\ met \subseteq met' /\ met' \subseteq DOMAIN convs
      /\ \/ Goes(r, "done", <<>>)
         \/ /\ Meets(c) /\ convs[c].title = "default"
            /\ Goes(r, "naming", convs[c].summary)
         \/ Meets(c) /\ Goes(r, "summing", convs[c].summary)
  BY AtWork, MeetsStep DEF Start, Summarise
<1>2. convs[c] \in ConvType /\ convs' = [convs EXCEPT ![c] = convs[c]]
  BY <1>1, AtWork
<1>3. c \notin met' => /\ convs[c].title # "overwritten"
                       /\ ToSet(convs[c].summary) = Told(c)
  BY <1>1, AtWork DEF Remembered
<1>4. CASE Goes(r, "done", <<>>)
  BY <1>1, <1>2, <1>3, <1>4, GoStep
<1>5. CASE /\ Meets(c) /\ convs[c].title = "default"
           /\ Goes(r, "naming", convs[c].summary)
  <2>1. c \notin met' => Active(c) \subseteq {r}
    BY <1>5, AtWork, MeetsStep
  <2> QED
    BY <1>1, <1>2, <1>3, <1>5, <2>1, GoStep
<1>6. CASE Meets(c) /\ Goes(r, "summing", convs[c].summary)
  <2>1. c \notin met' => Active(c) \subseteq {r}
    BY <1>6, AtWork, MeetsStep
  <2> QED
    BY <1>1, <1>2, <1>3, <1>6, <2>1, GoStep
<1> QED
  BY <1>1, <1>4, <1>5, <1>6

LEMMA NameStep ==
    ASSUME IInv, NEW r \in DOMAIN rounds, Name(r)
    PROVE  IInv'
<1> DEFINE c == rounds[r].conv
           conv == [convs[c] EXCEPT !.title =
                       IF @ = "user" THEN "overwritten" ELSE "auto"]
<1>1. /\ tasks[r].at = "naming" /\ UNCHANGED <<live, rounds, met>>
      /\ \/ Goes(r, "done", <<>>)
         \/ Goes(r, "summing", convs[c].summary)
  BY DEF Name, Summarise
<1>2. convs[c] \in ConvType /\ met \subseteq DOMAIN convs
  BY AtWork
<1>3. /\ conv \in ConvType /\ conv.kind = convs[c].kind
      /\ conv.of = convs[c].of /\ conv.summary = convs[c].summary
      /\ convs[c].title = "default" => conv.title = "auto"
  BY <1>2 DEF ConvType
<1>4. convs' = [convs EXCEPT ![c] = conv]
  BY AtWork DEF Name
<1>5. c \notin met' => /\ Active(c) \subseteq {r}
                       /\ conv.title # "overwritten"
                       /\ ToSet(conv.summary) = Told(c)
  BY <1>1, <1>3, AtWork DEF Remembered
<1> HIDE DEF conv
<1>6. CASE Goes(r, "done", <<>>)
  BY <1>1, <1>2, <1>3, <1>4, <1>5, <1>6, GoStep
<1>7. CASE Goes(r, "summing", convs[c].summary)
  BY <1>1, <1>2, <1>3, <1>4, <1>5, <1>7, GoStep
<1> QED
  BY <1>1, <1>6, <1>7

LEMMA StayStep ==
    ASSUME IInv, NEW r \in DOMAIN rounds, StayUnnamed(r)
    PROVE  IInv'
<1> DEFINE c == rounds[r].conv
<1>1. /\ tasks[r].at = "naming" /\ UNCHANGED <<convs, live, rounds, met>>
      /\ \/ Goes(r, "done", <<>>)
         \/ Goes(r, "summing", tasks[r].old)
  BY DEF StayUnnamed, Summarise
<1>2. /\ convs[c] \in ConvType /\ met \subseteq DOMAIN convs
      /\ convs' = [convs EXCEPT ![c] = convs[c]]
  BY <1>1, AtWork
<1>3. c \notin met' => /\ Active(c) \subseteq {r}
                       /\ convs[c].title # "overwritten"
                       /\ ToSet(convs[c].summary) = Told(c)
                       /\ tasks[r].old = convs[c].summary
  BY <1>1, AtWork DEF Remembered
<1>4. CASE Goes(r, "done", <<>>)
  BY <1>1, <1>2, <1>3, <1>4, GoStep
<1>5. CASE Goes(r, "summing", tasks[r].old)
  BY <1>1, <1>2, <1>3, <1>5, GoStep
<1> QED
  BY <1>1, <1>4, <1>5

LEMMA RememberStep ==
    ASSUME IInv, NEW r \in DOMAIN rounds, Remember(r)
    PROVE  IInv'
<1> DEFINE c == rounds[r].conv
           conv == [convs[c] EXCEPT !.summary = Summary(tasks[r].old, r)]
<1>1. /\ tasks[r].at = "summing" /\ UNCHANGED <<live, rounds, met>>
      /\ Goes(r, "told", <<>>)
  BY DEF Remember
<1>2. /\ convs[c] \in ConvType /\ tasks[r] \in TaskType
      /\ met \subseteq DOMAIN convs /\ Typing
  BY AtWork
<1>3. tasks[r].old \in Seq(Nat) /\ r \in Nat
  BY <1>2, TypesHold DEF TaskType
<1>4. /\ Summary(tasks[r].old, r) \in Seq(Nat)
      /\ ToSet(Summary(tasks[r].old, r)) = ToSet(tasks[r].old) \cup {r}
  BY <1>3, SummaryHolds
<1>5. /\ conv \in ConvType /\ conv.kind = convs[c].kind
      /\ conv.of = convs[c].of /\ conv.title = convs[c].title
      /\ conv.summary = Summary(tasks[r].old, r)
  BY <1>2, <1>4 DEF ConvType
<1>6. convs' = [convs EXCEPT ![c] = conv]
  BY AtWork DEF Remember
<1>7. c \notin met' => /\ Active(c) \subseteq {r}
                       /\ conv.title # "overwritten"
                       /\ ToSet(conv.summary) = Told(c) \cup {r}
  BY <1>1, <1>4, <1>5, AtWork DEF Remembered
<1> HIDE DEF conv
<1> QED
  BY <1>1, <1>2, <1>5, <1>6, <1>7, GoStep

LEMMA FailStep ==
    ASSUME IInv, NEW r \in DOMAIN rounds, Fail(r)
    PROVE  IInv'
<1> DEFINE c == rounds[r].conv
<1>1. /\ tasks[r].at \in {"queued", "naming", "summing"}
      /\ UNCHANGED <<convs, live, rounds, met>> /\ Goes(r, "done", <<>>)
  BY DEF Fail
<1>2. /\ convs[c] \in ConvType /\ met \subseteq DOMAIN convs
      /\ convs' = [convs EXCEPT ![c] = convs[c]]
  BY <1>1, AtWork
<1>3. c \notin met' => /\ convs[c].title # "overwritten"
                       /\ ToSet(convs[c].summary) = Told(c)
  BY <1>1, AtWork DEF Remembered
<1> QED
  BY <1>1, <1>2, <1>3, GoStep

\* A conversation is changed by hand: its title, or its memory, which then
\* holds no round.
LEMMA EditStep ==
    ASSUME IInv, NEW c \in DOMAIN convs, Meets(c), UNCHANGED <<live, rounds>>,
           NEW conv \in ConvType, convs' = [convs EXCEPT ![c] = conv],
           conv.kind = convs[c].kind, conv.of = convs[c].of,
           conv.title # "overwritten" \/ conv.title = convs[c].title,
           \/ conv.summary = convs[c].summary /\ tasks' = tasks
           \/ /\ conv.summary = <<>>
              /\ tasks' = [r \in DOMAIN tasks |->
                     IF rounds[r].conv = c /\ tasks[r].at = "told"
                     THEN [tasks[r] EXCEPT !.at = "done"] ELSE tasks[r]]
    PROVE  IInv'
<1>1. /\ Typing /\ tasks \in Seq(TaskType) /\ convs \in Seq(ConvType)
      /\ met \subseteq met' /\ met' \subseteq DOMAIN convs
      /\ c \notin met' => Active(c) = {}
  BY MeetsStep DEF IInv, Typing
<1>2. /\ DOMAIN tasks = DOMAIN rounds
      /\ \A r \in DOMAIN rounds : tasks[r] \in TaskType
      /\ tasks \in [DOMAIN tasks -> TaskType]
      /\ convs \in [DOMAIN convs -> ConvType]
  BY <1>1, TypesHold
<1>3. /\ tasks' \in [DOMAIN tasks -> TaskType]
      /\ \A r \in DOMAIN rounds :
            /\ tasks'[r].old = tasks[r].old
            /\ tasks'[r] = tasks[r] \/
                  /\ conv.summary = <<>> /\ rounds[r].conv = c
                  /\ tasks[r].at = "told" /\ tasks'[r].at = "done"
  BY <1>2 DEF TaskType
<1>4. tasks' \in Seq(TaskType) /\ Len(tasks') = Len(tasks)
      /\ DOMAIN tasks' = DOMAIN tasks
  BY <1>1, <1>3, Rewritten
<1>5. convs' \in [DOMAIN convs -> ConvType] /\ convs'[c] = conv
      /\ \A d \in DOMAIN convs : d # c => convs'[d] = convs[d]
  BY <1>2
<1>6. convs' \in Seq(ConvType) /\ Len(convs') = Len(convs)
      /\ DOMAIN convs' = DOMAIN convs
  BY <1>1, <1>5, Rewritten
<1>7. Typing'
  BY <1>1, <1>4, <1>6 DEF Typing
<1>8. Carry
  BY <1>3, <1>5, <1>6 DEF Carry, Over
<1>9. ASSUME NEW r \in DOMAIN rounds'
      PROVE  /\ Belongs(r)' /\ InSilo(r, convs[rounds[r].conv])'
             /\ Memory(tasks[r].old, rounds[r].conv)'
  <2>1. /\ r \in DOMAIN rounds /\ Belongs(r)
        /\ InSilo(r, convs[rounds[r].conv])
        /\ Memory(tasks[r].old, rounds[r].conv)
    BY DEF IInv
  <2>2. Memory(tasks[r].old, rounds[r].conv)'
    BY <1>3, <1>8, <2>1, OldKept
  <2>3. InSilo(r, convs[rounds[r].conv])'
    BY <1>8, <2>1, SiloKept DEF Belongs
  <2> QED
    BY <1>3, <1>6, <2>1, <2>2, <2>3 DEF Belongs
<1>10. ASSUME NEW d \in DOMAIN convs'
       PROVE  /\ convs'[d].kind # "service_api" => convs'[d].of = "nobody"
              /\ Memory(convs[d].summary, d)'
  <2>1. /\ d \in DOMAIN convs
        /\ convs[d].kind # "service_api" => convs[d].of = "nobody"
        /\ Memory(convs[d].summary, d) /\ Memory(<<>>, d)
    BY <1>6, EmptyMemory DEF IInv
  <2>2. convs'[d].summary = convs[d].summary \/ convs'[d].summary = <<>>
    BY <1>5, <2>1
  <2> QED
    BY <1>5, <1>8, <2>1, <2>2, MemoryKept
<1>11. ASSUME NEW d \in DOMAIN convs' \ met' PROVE Remembered(d)'
  <2>1. d \in DOMAIN convs /\ Remembered(d)
    BY <1>1, <1>6, <1>11 DEF IInv
  <2>2. Active(d)' = Active(d)
    BY <1>2, <1>3, <1>4 DEF Active
  <2>3. \A r \in Active(d) : r \in DOMAIN rounds /\ tasks'[r] = tasks[r]
    BY <1>2, <1>3 DEF Active
  <2>4. CASE d # c
    <3>1. Told(d)' = Told(d) /\ convs'[d] = convs[d]
      BY <1>2, <1>3, <1>5, <2>1, <2>4 DEF Told
    <3> QED
      BY <2>1, <2>2, <2>3, <3>1 DEF Remembered, Alone
  <2>5. CASE d = c
    <3>1. Alone(d)'
      BY <1>1, <1>11, <2>2, <2>5 DEF Alone
    <3>2. convs'[d].title # "overwritten"
      BY <1>5, <2>1, <2>5 DEF Remembered
    <3>3. CASE conv.summary = convs[c].summary /\ tasks' = tasks
      <4>1. Told(d)' = Told(d)
        BY <3>3 DEF Told
      <4> QED
        BY <1>5, <2>1, <2>5, <3>1, <3>2, <3>3, <4>1 DEF Remembered
    <3>4. CASE /\ conv.summary = <<>>
               /\ tasks' = [r \in DOMAIN tasks |->
                      IF rounds[r].conv = c /\ tasks[r].at = "told"
                      THEN [tasks[r] EXCEPT !.at = "done"] ELSE tasks[r]]
      <4>1. \A r \in DOMAIN rounds : rounds[r].conv = c =>
               tasks'[r].at # "told"
        BY <1>2, <3>4 DEF TaskType
      <4>2. Told(d)' = {}
        BY <2>5, <4>1 DEF Told
      <4>3. ToSet(convs'[d].summary) = {}
        BY <1>5, <2>5, <3>4 DEF ToSet
      <4> QED
        BY <3>1, <3>2, <4>2, <4>3 DEF Remembered
    <3> QED
      BY <3>3, <3>4
  <2> QED
    BY <2>4, <2>5
<1> QED
  BY <1>7, <1>9, <1>10, <1>11 DEF IInv

LEMMA RenameStep ==
    ASSUME IInv, NEW c \in live, Rename(c)
    PROVE  IInv'
<1> DEFINE conv == [convs[c] EXCEPT !.title = "user"]
<1>1. c \in DOMAIN convs /\ convs[c] \in ConvType
      /\ convs \in [DOMAIN convs -> ConvType]
  BY TypesHold DEF IInv, Typing
<1>2. /\ conv \in ConvType /\ conv.kind = convs[c].kind
      /\ conv.of = convs[c].of /\ conv.summary = convs[c].summary
      /\ conv.title = "user"
  BY <1>1 DEF ConvType
<1>3. convs' = [convs EXCEPT ![c] = conv]
  BY DEF Rename
<1> HIDE DEF conv
<1> QED
  BY <1>1, <1>2, <1>3, EditStep DEF Rename

LEMMA EditSummaryStep ==
    ASSUME IInv, EditSummary
    PROVE  IInv'
<1>1. PICK c \in OfKinds(AppKinds) :
         /\ convs' = [convs EXCEPT ![c].summary = <<>>]
         /\ tasks' = [r \in DOMAIN tasks |->
                IF rounds[r].conv = c /\ tasks[r].at = "told"
                THEN [tasks[r] EXCEPT !.at = "done"] ELSE tasks[r]]
         /\ Meets(c)
         /\ UNCHANGED <<live, rounds>>
  BY Zenon DEF EditSummary
<1> DEFINE conv == [convs[c] EXCEPT !.summary = <<>>]
<1>2. c \in DOMAIN convs /\ convs[c] \in ConvType
  BY TypesHold DEF IInv, OfKinds
<1>3. /\ conv \in ConvType /\ conv.kind = convs[c].kind
      /\ conv.of = convs[c].of /\ conv.summary = <<>>
      /\ conv.title = convs[c].title
  BY <1>2, EmptySeq DEF ConvType
<1>4. convs' = [convs EXCEPT ![c] = conv]
  BY <1>1
<1> HIDE DEF conv
<1> QED
  BY <1>1, <1>2, <1>3, <1>4, EditStep

LEMMA HideStep ==
    ASSUME IInv, NEW rs, Hide(rs)
    PROVE  IInv'
<1>1. /\ rounds \in [DOMAIN rounds -> MessageType]
      /\ \A r \in DOMAIN rounds : rounds[r] \in MessageType
  BY TypesHold DEF IInv
<1>2. /\ rounds' \in [DOMAIN rounds -> MessageType]
      /\ \A r \in DOMAIN rounds :
            /\ rounds'[r].conv = rounds[r].conv
            /\ rounds'[r].by = rounds[r].by /\ rounds'[r].of = rounds[r].of
            /\ rounds'[r].named = rounds[r].named
            /\ rounds'[r].status = rounds[r].status
  BY <1>1 DEF Hide, MessageType
<1> QED
  BY <1>2, QuietStep DEF Hide

LEMMA DeleteStep ==
    ASSUME IInv, NEW cs, Delete(cs)
    PROVE  IInv'
<1>1. rounds \in [DOMAIN rounds -> MessageType]
  BY TypesHold DEF IInv
<1> QED
  BY <1>1, QuietStep DEF Delete

\* Who continues which conversation.
LEMMA Continued ==
    ASSUME IInv
    PROVE  /\ \A by \in {"web_app", "published"}, named \in {"yes", "no"} :
                 \A c \in Prepared(by, named) : Welcome(c, by, "nobody", named)
           /\ \A c \in AssistantConversation :
                 Welcome(c, "assistant_agent", "nobody", "no")
           /\ \A eu \in EndUsers : \A c \in OfEndUser(eu) \cup {New} :
                 Welcome(c, "service_api", eu, "no")
<1>1. New \notin DOMAIN convs
  BY TypesHold DEF IInv, New
<1>2. \A c \in DOMAIN convs :
         convs[c].kind # "service_api" => convs[c].of = "nobody"
  BY DEF IInv
<1>3. ASSUME NEW by \in {"web_app", "published"}, NEW named \in {"yes", "no"},
             NEW c \in Prepared(by, named)
      PROVE  Welcome(c, by, "nobody", named)
  <2>1. CASE named = "yes"
    BY <1>3, <2>1 DEF Prepared, OfKinds, Welcome
  <2>2. CASE named = "no"
    BY <1>1, <1>2, <1>3, <2>2
    DEF Prepared, InSight, AppKinds, OfKinds, Welcome
  <2> QED
    BY <2>1, <2>2
<1>4. \A c \in AssistantConversation :
         Welcome(c, "assistant_agent", "nobody", "no")
  BY <1>1, <1>2 DEF AssistantConversation, OfKinds, Welcome
<1>5. \A eu \in EndUsers : \A c \in OfEndUser(eu) \cup {New} :
         Welcome(c, "service_api", eu, "no")
  BY <1>1 DEF OfEndUser, OfKinds, Welcome
<1> QED
  BY <1>3, <1>4, <1>5

-----------------------------------------------------------------------------
(* The theorems.                                                           *)

THEOREM InitIInv == Init => IInv
  BY EmptySeq, LenProperties, BoundsAssumption DEF Init, IInv, Typing

\* Every step of every request, task and owner keeps the invariant.
THEOREM StepIInv == IInv /\ [Next]_vars => IInv'
<1> SUFFICES ASSUME IInv, [Next]_vars PROVE IInv'
  OBVIOUS
<1> USE DEF Kinds, AppKinds, People
<1>1. ASSUME NEW by \in {"web_app", "published"}, Open(by) PROVE IInv'
  BY <1>1, OpenStep
<1>2. ASSUME NEW by \in {"web_app", "published"}, NEW memory \in {"yes", "no"},
             Chat(by, memory)
      PROVE IInv'
  BY <1>2, AskStep, Continued DEF Chat
<1>3. ASSUME NEW eu \in EndUsers, NEW memory \in {"yes", "no"},
             Serve(eu, memory)
      PROVE IInv'
  BY <1>3, AskStep, Continued DEF Serve
<1>4. CASE Assist
  BY <1>4, AskStep, Continued DEF Assist
<1>5. CASE EditSummary
  BY <1>5, EditSummaryStep
<1>6. CASE DeleteDebug \/ ClearAssistant
  BY <1>6, DeleteStep DEF DeleteDebug, ClearAssistant
<1>7. CASE ClearPublished
  BY <1>7, HideStep DEF ClearPublished
<1>8. ASSUME NEW c \in live, Rename(c) \/ Delete({c}) PROVE IInv'
  BY <1>8, RenameStep, DeleteStep
<1>9. ASSUME NEW r \in DOMAIN rounds, DeleteMessage(r) PROVE IInv'
  BY <1>9, HideStep DEF DeleteMessage
<1>10. ASSUME NEW r \in DOMAIN rounds, Close(r) \/ Break(r) PROVE IInv'
  BY <1>10, EndStep
<1>11. ASSUME NEW r \in DOMAIN rounds,
              Start(r) \/ Name(r) \/ StayUnnamed(r) \/ Remember(r) \/ Fail(r)
       PROVE IInv'
  BY <1>11, StartStep, NameStep, StayStep, RememberStep, FailStep
<1>12. CASE UNCHANGED vars
  <2>1. rounds \in [DOMAIN rounds -> MessageType]
    BY TypesHold DEF IInv
  <2> QED
    BY <1>12, <2>1, QuietStep DEF vars
<1> QED
  BY <1>1, <1>2, <1>3, <1>4, <1>5, <1>6, <1>7, <1>8, <1>9, <1>10, <1>11,
     <1>12 DEF Next

THEOREM InvariantHolds == Spec => []IInv
  BY InitIInv, StepIInv, PTL DEF Spec

\* Requests, tasks and hands never leave the types of the rows.
THEOREM TypeCorrect == Spec => []TypeOK
<1>1. IInv => TypeOK
  <2> SUFFICES ASSUME IInv PROVE TypeOK
    OBVIOUS
  <2>1. Typing /\ DOMAIN tasks = DOMAIN rounds
    BY TypesHold DEF IInv
  <2>2. \A c \in DOMAIN convs : ToSet(convs[c].summary) \subseteq DOMAIN rounds
    BY DEF IInv, Memory
  <2> QED
    BY <2>1, <2>2 DEF IInv, Typing, Belongs, TypeOK
<1> QED
  BY <1>1, InvariantHolds, PTL

\* No round goes into a summary twice, however many tasks overlap or fail.
THEOREM NoRoundGoesInTwice == Spec => []NoRoundTwice
<1>1. IInv => NoRoundTwice
  BY DEF IInv, Memory, NoRoundTwice
<1> QED
  BY <1>1, InvariantHolds, PTL

\* A memory loses no round and a title given by hand stays, unless writers
\* of the conversation overlap.
THEOREM AllRememberedUnlessMet == Spec => []RememberedUnlessMet
<1>1. IInv => RememberedUnlessMet
  BY DEF IInv, Remembered, Told, RememberedUnlessMet
<1> QED
  BY <1>1, InvariantHolds, PTL

\* In the conversation of an end user, and in its memory, there is nothing
\* another end user has said, nor is there anything but the assistant's own in
\* the assistant's; what is said to the published application stays there
\* and what is said to the preview does not get there, unless the owner names
\* a conversation of the other kind.
THEOREM SilosStayApart == Spec => []SilosApart
<1>1. IInv => SilosApart
  <2> SUFFICES ASSUME IInv, NEW c \in DOMAIN convs,
                      NEW r \in ToSet(convs[c].summary) \cup
                         {q \in DOMAIN rounds : rounds[q].conv = c}
               PROVE  InSilo(r, convs[c])
    BY DEF SilosApart, InSilo
  <2>1. r \in DOMAIN rounds /\ rounds[r].conv = c
    BY DEF IInv, Memory
  <2> QED
    BY <2>1 DEF IInv
<1> QED
  BY <1>1, InvariantHolds, PTL

=============================================================================
