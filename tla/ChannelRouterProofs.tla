------------------------- MODULE ChannelRouterProofs -------------------------
(***************************************************************************)
(* What ChannelRouter promises for any number of channels, threads and any *)
(* threshold, with redis commands that may fail: channels without an       *)
(* outage stay in use, a call that may use one of them gets an answer, and *)
(* a stream is the output of one channel.                                  *)
(*                                                                         *)
(* The argument is about one call record at a time: whatever is left to    *)
(* try holds every reliable candidate until one of them answers, and only  *)
(* a channel with an outage is ever counted.                               *)
(***************************************************************************)
EXTENDS ChannelRouter, FiniteSetTheorems, TLAPS

\* Refusals, if there are any, are those of chat requests before the first
\* chunk.
Early == Rejects \subseteq {"first"}

\* Where a call is.
PcFacts(k) ==
    /\ k.pc \in {"streaming", "count", "trip", "clear"} => k.at \in Channels
    /\ Early /\ k.pc \in {"count", "trip"} => k.at \notin Reliable
    /\ k.pc \in {"look", "call"} => ~k.cut

\* The reliable candidates still to come.
LeftFacts(k) ==
    /\ k.pc = "look" => k.asked \intersect Reliable \subseteq
                            k.todo \union k.live
    /\ k.pc \in {"call", "count", "trip"} /\ ~k.cut
            => k.asked \intersect Reliable \subseteq k.live
    /\ k.answer \in {"refused", "failed"} => k.asked \intersect Reliable = {}

\* The channels that spoke.
SpokeFacts(k) ==
    /\ k.pc \in {"look", "call"} => k.spoke = {}
    /\ k.pc \in {"count", "trip"} /\ ~k.cut => k.spoke = {}
    /\ k.spoke = {} \/ \E c \in Channels : k.spoke = {c}

CallInv(k) ==
    k \in CallType /\ PcFacts(k) /\ (Early => LeftFacts(k)) /\ SpokeFacts(k)

Shared ==
    /\ well \in [Channels -> BOOLEAN]
    /\ fails \in [Channels -> 0..Threshold]
    /\ open \in [Channels -> BOOLEAN]
    /\ call \in [Threads -> CallType]

Inv ==
    /\ Shared
    /\ \A c \in Reliable : well[c]
    /\ Early => SoundStaysOn
    /\ \A t \in Threads : CallInv(call[t])

-----------------------------------------------------------------------------

\* Ending a call keeps the facts, if it does not end for want of a channel.
LEMMA EndedInv ==
    ASSUME NEW k, CallInv(k), NEW answer \in Answers,
           Early /\ answer \in {"refused", "failed"}
               => k.asked \intersect Reliable = {}
    PROVE  CallInv(Ended(k, answer))
<1>1. k \in CallType
  BY DEF CallInv
<1>2. Ended(k, answer) \in CallType
  BY <1>1 DEF CallType, Ended, Pcs
<1>3. /\ Ended(k, answer).pc = "idle"
      /\ Ended(k, answer).answer = answer
      /\ Ended(k, answer).asked = k.asked
      /\ Ended(k, answer).spoke = k.spoke
  BY <1>1 DEF CallType, Ended
<1> HIDE DEF Ended
<1> QED
  BY <1>2, <1>3 DEF CallInv, PcFacts, LeftFacts, SpokeFacts

\* Going on after a recorded failure of an unreliable channel does too.
LEMMA NextInv ==
    ASSUME NEW k, CallInv(k), k.pc \in {"count", "trip"}
    PROVE  CallInv(NextCandidate(k))
<1> DEFINE rest == k.live \ {k.at}
           n == [k EXCEPT !.pc = "call", !.live = rest, !.at = None]
<1>1. k \in CallType /\ (Early => k.at \notin Reliable)
  BY DEF CallInv, PcFacts
<1>2. CASE k.cut
  <2>1. NextCandidate(k) = Ended(k, "cut")
    BY <1>2 DEF NextCandidate
  <2> QED
    BY <2>1, EndedInv DEF Answers
<1>3. CASE ~k.cut
  <2>1. /\ Early => k.asked \intersect Reliable \subseteq rest
        /\ k.spoke = {}
    BY <1>1, <1>3 DEF CallInv, LeftFacts, SpokeFacts
  <2>2. CASE rest = {}
    <3>1. NextCandidate(k) = Ended(k, "failed")
      BY <1>3, <2>2 DEF NextCandidate
    <3> QED
      BY <2>1, <2>2, <3>1, EndedInv DEF Answers
  <2>3. CASE rest # {}
    <3>1. NextCandidate(k) = n
      BY <1>3, <2>3 DEF NextCandidate
    <3>2. n \in CallType
      BY <1>1 DEF CallType, Pcs
    <3>3. /\ n.pc = "call" /\ n.live = rest /\ n.cut = k.cut
          /\ n.asked = k.asked /\ n.spoke = k.spoke /\ n.answer = k.answer
      BY <1>1 DEF CallType
    <3>4. Early /\ k.answer \in {"refused", "failed"} =>
              k.asked \intersect Reliable = {}
      BY DEF CallInv, LeftFacts
    <3> HIDE DEF n, rest
    <3> QED
      BY <1>3, <2>1, <3>1, <3>2, <3>3, <3>4
      DEF CallInv, PcFacts, LeftFacts, SpokeFacts
  <2> QED
    BY <2>2, <2>3
<1> QED
  BY <1>2, <1>3

\* A step that puts a good record in place keeps all records good.
LEMMA PutInv ==
    ASSUME Inv, NEW t \in Threads, NEW k, CallInv(k), Put(t, k)
    PROVE  /\ call' \in [Threads -> CallType]
           /\ \A u \in Threads : CallInv(call'[u])
<1>1. call \in [Threads -> CallType] /\ k \in CallType
  BY DEF Inv, Shared, CallInv
<1>2. call' = [call EXCEPT ![t] = k]
  BY DEF Put
<1>3. \A u \in Threads : call'[u] = IF u = t THEN k ELSE call[u]
  BY <1>1, <1>2
<1> QED
  BY <1>1, <1>2, <1>3 DEF Inv

-----------------------------------------------------------------------------

\* The records a step puts in place: one lemma for each kind of step.

LEMMA BeginInv ==
    ASSUME NEW S \in SUBSET Channels, NEW pc \in {"idle", "look"},
           NEW kind \in {"run", "stream"}
    PROVE  CallInv(CallOf(S, pc, kind))
<1> DEFINE n == CallOf(S, pc, kind)
<1>1. n \in CallType
  BY DEF CallOf, CallType, Pcs, Answers
<1>2. /\ n.pc = pc /\ n.todo = S /\ n.asked = S /\ n.cut = FALSE
      /\ n.spoke = {} /\ n.answer = "none"
  BY DEF CallOf
<1> HIDE DEF n
<1>3. CallInv(n)
  BY <1>1, <1>2 DEF CallInv, PcFacts, LeftFacts, SpokeFacts
<1> QED
  BY <1>3 DEF n

LEMMA LookInv ==
    ASSUME Inv, NEW t \in Threads, call[t].pc = "look", NEW c \in Channels,
           NEW up \in BOOLEAN
    PROVE  CallInv([call[t] EXCEPT
                       !.todo = @ \ {c},
                       !.live = IF up /\ open[c] THEN @ ELSE @ \union {c}])
<1> DEFINE k == call[t]
           l == IF up /\ open[c] THEN k.live ELSE k.live \union {c}
           n == [k EXCEPT !.todo = k.todo \ {c}, !.live = l]
<1>1. CallInv(k) /\ k \in CallType /\ k.pc = "look"
  BY DEF Inv, CallInv
<1>2. l \in SUBSET Channels /\ k.live \subseteq l
  BY <1>1 DEF CallType
<1>3. Early /\ c \in Reliable => c \in l
  BY DEF Inv, SoundStaysOn
<1>4. n \in CallType
  BY <1>1, <1>2 DEF CallType
<1>5. /\ n.pc = "look" /\ n.todo = k.todo \ {c} /\ n.live = l
      /\ n.asked = k.asked /\ n.cut = k.cut /\ n.spoke = k.spoke
      /\ n.answer = k.answer
  BY <1>1 DEF CallType
<1>6. CallInv(n)
  <2> HIDE DEF k, l, n
  <2> QED
    BY <1>1, <1>2, <1>3, <1>4, <1>5
    DEF CallInv, PcFacts, LeftFacts, SpokeFacts
<1> QED
  BY <1>6

LEMMA TrialInv ==
    ASSUME NEW k, CallInv(k), k.pc = "call", NEW c \in Channels,
           NEW pc \in {"clear", "streaming", "count"},
           Early /\ pc = "count" => c \notin Reliable,
           NEW new \in {{}, {c}}, pc = "count" => new = {}
    PROVE  CallInv([k EXCEPT !.pc = pc, !.at = c, !.spoke = k.spoke \union new])
<1> DEFINE n == [k EXCEPT !.pc = pc, !.at = c, !.spoke = k.spoke \union new]
<1>1. k \in CallType /\ k.spoke = {} /\ ~k.cut
  BY DEF CallInv, PcFacts, SpokeFacts
<1>2. n \in CallType
  BY <1>1 DEF CallType, Pcs
<1>3. /\ n.pc = pc /\ n.at = c /\ n.spoke = new /\ n.live = k.live
      /\ n.asked = k.asked /\ n.cut = k.cut /\ n.answer = k.answer
  BY <1>1 DEF CallType
<1> HIDE DEF n
<1>4. PcFacts(n)
  BY <1>1, <1>3 DEF PcFacts
<1>5. Early => LeftFacts(n)
  BY <1>1, <1>3 DEF LeftFacts, CallInv
<1>6. SpokeFacts(n)
  BY <1>1, <1>3 DEF SpokeFacts
<1>7. CallInv(n)
  BY <1>2, <1>4, <1>5, <1>6 DEF CallInv
<1> QED
  BY <1>7 DEF n

LEMMA StreamInv ==
    ASSUME NEW k, CallInv(k), k.pc \in {"streaming", "count"},
           NEW pc \in {"clear", "count", "trip"}, NEW cut \in BOOLEAN,
           Early /\ pc \in {"count", "trip"} => k.at \notin Reliable,
           pc = "count" => cut,
           pc = "trip" => k.pc = "count" /\ cut = k.cut
    PROVE  CallInv([k EXCEPT !.pc = pc, !.cut = cut])
<1> DEFINE n == [k EXCEPT !.pc = pc, !.cut = cut]
<1>1. k \in CallType
  BY DEF CallInv
<1>2. n \in CallType
  BY <1>1 DEF CallType, Pcs
<1>3. /\ n.pc = pc /\ n.at = k.at /\ n.spoke = k.spoke /\ n.live = k.live
      /\ n.asked = k.asked /\ n.cut = cut /\ n.answer = k.answer
  BY <1>1 DEF CallType
<1> HIDE DEF n
<1>4. PcFacts(n)
  BY <1>3 DEF PcFacts, CallInv
<1>5. Early => LeftFacts(n)
  BY <1>3 DEF LeftFacts, CallInv
<1>6. SpokeFacts(n)
  BY <1>3 DEF SpokeFacts, CallInv
<1>7. CallInv(n)
  BY <1>2, <1>4, <1>5, <1>6 DEF CallInv
<1> QED
  BY <1>7 DEF n

-----------------------------------------------------------------------------

LEMMA InitInv == Init => Inv
<1> SUFFICES ASSUME Init PROVE Inv
  OBVIOUS
<1>1. \A t \in Threads : CallInv(call[t])
  BY BeginInv DEF Init, Idle
<1>2. call \in [Threads -> CallType]
  BY <1>1 DEF Init, CallInv
<1>3. 0 \in 0..Threshold
  BY ConstantsAssumption
<1> QED
  BY <1>1, <1>2, <1>3, ConstantsAssumption
  DEF Init, Inv, Shared, SoundStaysOn

\* A step of one call keeps the invariant.
LEMMA StepInv ==
    ASSUME Inv, NEW t \in Threads, Step(t)
    PROVE  Inv'
<1> DEFINE k == call[t]
<1>1. /\ CallInv(k) /\ k \in CallType /\ call \in [Threads -> CallType]
      /\ \A c \in Reliable : well[c]
  BY DEF Inv, Shared
<1>2. ASSUME NEW n, CallInv(n), Put(t, n), UNCHANGED <<well, fails, open>>
      PROVE  Inv'
  BY <1>2, PutInv DEF Inv, Shared, SoundStaysOn
<1>3. \A u \in Redis : u \in BOOLEAN
  BY DEF Redis
<1>4. ASSUME LookAt(t) PROVE Inv'
  <2>1. PICK c \in Firsts(k.todo), up \in Redis :
            Put(t, [call[t] EXCEPT
                       !.todo = @ \ {c},
                       !.live = IF up /\ open[c] THEN @ ELSE @ \union {c}])
    BY <1>4 DEF LookAt
  <2>2. c \in Channels
    BY <1>1 DEF Firsts, CallType
  <2> QED
    BY <1>2, <1>3, <1>4, <2>1, <2>2, LookInv DEF LookAt
<1>5. ASSUME Admit(t) PROVE Inv'
  <2>1. k.pc = "look" /\ (Early => k.asked \intersect Reliable \subseteq k.live)
    BY <1>1, <1>5 DEF Admit, CallInv, LeftFacts
  <2>2. CASE k.live = {}
    <3>1. CallInv(Ended(k, "refused"))
      BY <1>1, <2>1, <2>2, EndedInv DEF Answers
    <3> QED
      BY <1>2, <1>5, <2>2, <3>1 DEF Admit
  <2>3. CASE k.live # {}
    <3> DEFINE n == [k EXCEPT !.pc = "call"]
    <3>1. n \in CallType
      BY <1>1 DEF CallType, Pcs
    <3>2. /\ n.pc = "call" /\ n.live = k.live /\ n.asked = k.asked
          /\ n.cut = k.cut /\ n.spoke = k.spoke /\ n.answer = k.answer
      BY <1>1 DEF CallType
    <3> HIDE DEF n
    <3>3. CallInv(n)
      BY <1>1, <2>1, <3>1, <3>2 DEF CallInv, PcFacts, LeftFacts, SpokeFacts
    <3> QED
      BY <1>2, <1>5, <2>3, <3>3 DEF Admit, n
  <2> QED
    BY <2>2, <2>3
<1>6. ASSUME NEW c \in Channels, Trying(t, c) PROVE k.pc = "call"
  BY <1>6 DEF Trying
<1>7. ASSUME Answer(t) PROVE Inv'
  <2>1. PICK c \in Channels :
            /\ Trying(t, c)
            /\ Put(t, [call[t] EXCEPT !.pc = "clear", !.at = c])
    BY <1>7 DEF Answer
  <2>2. [k EXCEPT !.pc = "clear", !.at = c] =
            [k EXCEPT !.pc = "clear", !.at = c, !.spoke = k.spoke \union {}]
    BY <1>1 DEF CallType
  <2>3. CallInv([k EXCEPT !.pc = "clear", !.at = c])
    BY <1>1, <1>6, <2>1, <2>2, TrialInv
  <2> QED
    BY <1>2, <1>7, <2>1, <2>3 DEF Answer
<1>8. ASSUME FirstChunk(t) PROVE Inv'
  <2>1. PICK c \in Channels :
            /\ Trying(t, c)
            /\ Put(t, [call[t] EXCEPT !.pc = "streaming", !.at = c,
                                      !.spoke = @ \union {c}])
    BY <1>8 DEF FirstChunk
  <2>2. CallInv([k EXCEPT !.pc = "streaming", !.at = c,
                          !.spoke = k.spoke \union {c}])
    BY <1>1, <1>6, <2>1, TrialInv
  <2> QED
    BY <1>2, <1>8, <2>1, <2>2 DEF FirstChunk
<1>9. ASSUME Reject(t) PROVE Inv'
  <2>1. CallInv(Ended(k, "rejected"))
    BY <1>1, EndedInv DEF Answers
  <2> QED
    BY <1>2, <1>9, <2>1 DEF Reject
<1>10. ASSUME Fail(t) PROVE Inv'
  <2>1. PICK c \in Channels :
            /\ Trying(t, c)
            /\ ChannelError(k, c)
            /\ Put(t, [call[t] EXCEPT !.pc = "count", !.at = c])
    BY <1>10 DEF Fail
  <2>2. [k EXCEPT !.pc = "count", !.at = c] =
            [k EXCEPT !.pc = "count", !.at = c, !.spoke = k.spoke \union {}]
    BY <1>1 DEF CallType
  <2>3. Early => c \notin Reliable
    BY <1>1, <2>1 DEF ChannelError, Early
  <2>4. CallInv([k EXCEPT !.pc = "count", !.at = c])
    BY <1>1, <1>6, <2>1, <2>2, <2>3, TrialInv
  <2> QED
    BY <1>2, <1>10, <2>1, <2>4 DEF Fail
<1>11. ASSUME Break(t) PROVE Inv'
  <2>1. k.pc = "streaming" /\ (Early => k.at \notin Reliable)
    BY <1>1, <1>11 DEF Break, Broken, Early
  <2>2. [k EXCEPT !.pc = "count", !.cut = TRUE] \in CallType
        /\ CallInv([k EXCEPT !.pc = "count", !.cut = TRUE])
    BY <1>1, <2>1, StreamInv DEF CallInv
  <2> QED
    BY <1>2, <1>11, <2>2 DEF Break
<1>12. ASSUME EndStream(t) PROVE Inv'
  <2>1. k.pc = "streaming" /\ k.cut \in BOOLEAN
    BY <1>1, <1>12 DEF EndStream, CallType
  <2>2. CallInv([k EXCEPT !.pc = "clear", !.cut = k.cut])
    BY <1>1, <2>1, StreamInv
  <2>3. [k EXCEPT !.pc = "clear", !.cut = k.cut] = [k EXCEPT !.pc = "clear"]
    BY <1>1 DEF CallType
  <2> QED
    BY <1>2, <1>12, <2>2, <2>3 DEF EndStream
<1>13. ASSUME CloseStream(t) PROVE Inv'
  <2>1. CallInv(Ended(k, "closed"))
    BY <1>1, EndedInv DEF Answers
  <2> QED
    BY <1>2, <1>13, <2>1 DEF CloseStream
<1>14. ASSUME RecordSuccess(t) PROVE Inv'
  <2>1. CallInv(Ended(k, "ok"))
    BY <1>1, EndedInv DEF Answers
  <2>2. k.at \in Channels
    BY <1>1, <1>14 DEF RecordSuccess, CallInv, PcFacts
  <2>3. /\ call' \in [Threads -> CallType]
        /\ \A u \in Threads : CallInv(call'[u])
    BY <1>14, <2>1, PutInv DEF RecordSuccess
  <2>4. PICK up \in Redis :
            /\ fails' = IF up THEN [fails EXCEPT ![k.at] = 0] ELSE fails
            /\ open' = IF up THEN [open EXCEPT ![k.at] = FALSE] ELSE open
    BY <1>14 DEF RecordSuccess
  <2>5. 0 \in 0..Threshold
    BY ConstantsAssumption
  <2>6. /\ fails' \in [Channels -> 0..Threshold]
        /\ open' \in [Channels -> BOOLEAN]
        /\ Early => SoundStaysOn'
    BY <2>2, <2>4, <2>5, ConstantsAssumption DEF Inv, Shared, SoundStaysOn
  <2> QED
    BY <1>14, <2>3, <2>6 DEF RecordSuccess, Inv, Shared
<1>15. ASSUME Count(t) PROVE Inv'
  <2> DEFINE n == IF fails[k.at] = Threshold THEN Threshold
                                             ELSE fails[k.at] + 1
  <2>1. k.pc = "count" /\ k.at \in Channels /\ (Early => k.at \notin Reliable)
    BY <1>1, <1>15 DEF Count, CallInv, PcFacts
  <2>2. PICK up \in Redis :
            /\ fails' = IF up THEN [fails EXCEPT ![k.at] = n] ELSE fails
            /\ Put(t, IF up /\ n = Threshold THEN [k EXCEPT !.pc = "trip"]
                                             ELSE NextCandidate(k))
    BY <1>15 DEF Count
  <2>3. CallInv([k EXCEPT !.pc = "trip"])
    <3>1. CallInv([k EXCEPT !.pc = "trip", !.cut = k.cut])
      BY <1>1, <2>1, StreamInv DEF CallType
    <3>2. [k EXCEPT !.pc = "trip", !.cut = k.cut] = [k EXCEPT !.pc = "trip"]
      BY <1>1 DEF CallType
    <3> QED
      BY <3>1, <3>2
  <2>4. CallInv(NextCandidate(k))
    BY <1>1, <2>1, NextInv
  <2>5. /\ call' \in [Threads -> CallType]
        /\ \A u \in Threads : CallInv(call'[u])
    <3>1. CASE up /\ n = Threshold
      BY <2>2, <2>3, <3>1, PutInv
    <3>2. CASE ~(up /\ n = Threshold)
      BY <2>2, <2>4, <3>2, PutInv
    <3> QED
      BY <3>1, <3>2
  <2>6. n \in 0..Threshold
    <3>1. fails[k.at] \in 0..Threshold
      BY <2>1 DEF Inv, Shared
    <3> QED
      BY <3>1, ConstantsAssumption
  <2>7. fails' \in [Channels -> 0..Threshold]
    BY <2>2, <2>6 DEF Inv, Shared
  <2>8. Early => SoundStaysOn'
    BY <1>15, <2>1, <2>2, ConstantsAssumption
    DEF Count, SoundStaysOn, Inv, Shared
  <2> QED
    BY <1>15, <2>5, <2>7, <2>8 DEF Count, Inv, Shared
<1>16. ASSUME Trip(t) PROVE Inv'
  <2>1. k.pc = "trip" /\ k.at \in Channels /\ (Early => k.at \notin Reliable)
    BY <1>1, <1>16 DEF Trip, CallInv, PcFacts
  <2>2. CallInv(NextCandidate(k))
    BY <1>1, <2>1, NextInv
  <2>3. /\ call' \in [Threads -> CallType]
        /\ \A u \in Threads : CallInv(call'[u])
    BY <1>16, <2>2, PutInv DEF Trip
  <2>4. PICK up \in Redis :
            open' = IF up THEN [open EXCEPT ![k.at] = TRUE] ELSE open
    BY <1>16 DEF Trip
  <2>5. open' \in [Channels -> BOOLEAN] /\ (Early => SoundStaysOn')
    BY <1>16, <2>1, <2>4, ConstantsAssumption
    DEF Trip, SoundStaysOn, Inv, Shared
  <2> QED
    BY <1>16, <2>3, <2>5 DEF Trip, Inv, Shared
<1> QED
  BY <1>4, <1>5, <1>7, <1>8, <1>9, <1>10, <1>11, <1>12, <1>13, <1>14, <1>15,
     <1>16 DEF Step

\* So does every step of the system.
LEMMA NextInvariant ==
    ASSUME Inv, [Next]_vars
    PROVE  Inv'
<1>1. ASSUME NEW t \in Threads, Begin(t) PROVE Inv'
  <2>1. PICK S \in SUBSET Channels \ {{}}, kind \in {"run", "stream"} :
            Put(t, CallOf(S, "look", kind))
    BY <1>1 DEF Begin
  <2>2. CallInv(CallOf(S, "look", kind))
    BY BeginInv
  <2> QED
    BY <1>1, <2>1, <2>2, PutInv DEF Begin, Inv, Shared, SoundStaysOn
<1>2. ASSUME NEW t \in Threads, Step(t) PROVE Inv'
  BY <1>2, StepInv
<1>3. ASSUME NEW t \in Threads, Kill(t) PROVE Inv'
  <2>1. CallInv(Ended(call[t], "none"))
    BY EndedInv DEF Inv, Answers
  <2> QED
    BY <1>3, <2>1, PutInv DEF Kill, Inv, Shared, SoundStaysOn
<1>4. ASSUME NEW c \in Channels, CoolDown(c) PROVE Inv'
  BY <1>4 DEF CoolDown, Inv, Shared, SoundStaysOn
<1>5. 0 \in 0..Threshold
  BY ConstantsAssumption
<1>6. ASSUME NEW c \in Channels, ForgetFails(c) PROVE Inv'
  BY <1>5, <1>6 DEF ForgetFails, Inv, Shared, SoundStaysOn
<1>7. ASSUME NEW c \in Channels, Recover(c) PROVE Inv'
  BY <1>5, <1>7 DEF Recover, Inv, Shared, SoundStaysOn
<1>8. ASSUME NEW c \in Channels, Outage(c) PROVE Inv'
  BY <1>8, ConstantsAssumption DEF Outage, Inv, Shared, SoundStaysOn
<1>9. CASE UNCHANGED vars
  BY <1>9 DEF vars, Inv, Shared, SoundStaysOn
<1> QED
  BY <1>1, <1>2, <1>3, <1>4, <1>6, <1>7, <1>8, <1>9 DEF Next

LEMMA Invariance == Spec => []Inv
<1>1. Inv /\ [Next]_vars => Inv'
  BY NextInvariant
<1> QED
  BY InitInv, <1>1, PTL DEF Spec

-----------------------------------------------------------------------------

\* Every variable keeps its type, whatever the upstreams and redis do.
THEOREM Typing == Spec => []TypeOK
<1>1. Inv => TypeOK
  BY DEF Inv, Shared, TypeOK
<1> QED
  BY Invariance, <1>1, PTL

\* Refused requests and the outages of other channels never disable a channel
\* without an outage, however many threads count failures at once, as long as
\* upstreams refuse chat requests only, and before the first chunk.
THEOREM SoundChannelsStayOn ==
    ASSUME Rejects \subseteq {"first"} PROVE Spec => []SoundStaysOn
<1>1. Inv => SoundStaysOn
  BY DEF Inv, Early
<1> QED
  BY Invariance, <1>1, PTL

\* A call that has a channel without an outage among its candidates never
\* ends with an error of the channels, under the same condition.
THEOREM SoundChannelsServe ==
    ASSUME Rejects \subseteq {"first"} PROVE Spec => []SoundChannelServes
<1>1. Inv => SoundChannelServes
  BY DEF Inv, Early, SoundChannelServes, CallInv, LeftFacts
<1> QED
  BY Invariance, <1>1, PTL

\* The output of a stream is that of one channel.
THEOREM StreamsAreWhole == Spec => []OneChannelPerStream
<1>1. Inv => OneChannelPerStream
  <2> SUFFICES ASSUME Inv, NEW t \in Threads
               PROVE  Cardinality(call[t].spoke) <= 1
    BY DEF OneChannelPerStream
  <2>1. call[t].spoke = {} \/ \E c \in Channels : call[t].spoke = {c}
    BY DEF Inv, CallInv, SpokeFacts
  <2>2. CASE call[t].spoke = {}
    BY <2>2, FS_EmptySet
  <2>3. ASSUME NEW c \in Channels, call[t].spoke = {c}
        PROVE  Cardinality(call[t].spoke) <= 1
    <3>1. Cardinality({c}) = 1
      BY FS_Singleton
    <3> QED
      BY <2>3, <3>1
  <2> QED
    BY <2>1, <2>2, <2>3
<1> QED
  BY Invariance, <1>1, PTL

=============================================================================
