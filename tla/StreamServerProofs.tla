-------------------------- MODULE StreamServerProofs --------------------------
(***************************************************************************)
(* Proofs about StreamServer for every set of articles and every bound.    *)
(***************************************************************************)
EXTENDS StreamServer, TLAPS

Lines == Articles \cup {NoId}
Events == [kind : Kinds, article : Articles, shown : Nat]

-----------------------------------------------------------------------------
(* Types.                                                                  *)

LEMMA InitType == Init => TypeOK
<1> SUFFICES ASSUME Init PROVE TypeOK
    OBVIOUS
<1>1. log \in [Topics -> Seq(Lines)] /\ sent \in Seq(Events)
    BY DEF Init
<1>2. pos \in [Topics -> Nat] /\ \A t \in Topics : pos[t] <= Len(log[t])
    BY DEF Init
<1>3. index \in [Indexed -> [Articles -> Nat]]
    BY DEF Init
<1>4. restarts \in 0..MaxRestarts /\ faults \in 0..MaxFaults
    BY BoundsAssumption DEF Init
<1> QED BY <1>1, <1>2, <1>3, <1>4 DEF Init, TypeOK, Introduction, Lines, Events

LEMMA PublishType ==
    ASSUME TypeOK, NEW t \in Topics, NEW m \in Lines, Publish(t, m)
    PROVE  TypeOK'
<1>1. log' \in [Topics -> Seq(Lines)]
    BY DEF TypeOK, Publish, Lines
<1>2. ASSUME NEW u \in Topics
      PROVE  pos'[u] <= Len(log'[u])
    <2>1. Len(log'[u]) >= Len(log[u])
        BY DEF TypeOK, Publish
    <2>2. pos' = pos /\ pos[u] <= Len(log[u]) /\ pos[u] \in Nat
        BY DEF TypeOK, Publish
    <2>3. log[u] \in Seq(Lines) /\ log'[u] \in Seq(Lines)
        BY <1>1 DEF TypeOK, Lines
    <2> QED BY <2>1, <2>2, <2>3
<1> QED BY <1>1, <1>2 DEF TypeOK, Publish, Lines, threads, generator, counts

\* The next line of a topic is one of its lines.
LEMMA NextIsLine ==
    ASSUME TypeOK, NEW t \in Topics, pos[t] < Len(log[t])
    PROVE  /\ pos[t] + 1 \in 1..Len(log[t])
           /\ log[t][pos[t] + 1] \in Lines
    BY DEF TypeOK, Lines

LEMMA ThreadType ==
    ASSUME TypeOK, NEW t \in Indexed, Thread(t) \/ EndOfFile(t) \/ ReaderDies(t)
    PROVE  TypeOK'
<1>0. t \in Topics
    BY DEF Topics
<1>1. CASE Read(t)
    <2>1. pos[t] < Len(log[t]) /\ pos' = [pos EXCEPT ![t] = @ + 1] /\ log' = log
        BY <1>1 DEF Read, topics
    <2>2. pos' \in [Topics -> Nat] /\ \A u \in Topics : pos'[u] <= Len(log'[u])
        BY <2>1, <1>0 DEF TypeOK
    <2>3. index' \in [Indexed -> [Articles -> Nat]]
        BY <1>1, <1>0, <2>2 DEF TypeOK, Read, Kept
    <2>4. reader' \in [Indexed -> {"new", "reading", "sleeping", "stopped", "dead"}]
        BY <1>1 DEF TypeOK, Read
    <2> QED BY <1>1, <2>1, <2>2, <2>3, <2>4 DEF TypeOK, Read, topics, generator, counts
<1>2. CASE Restart(t)
    <2>1. log' = log /\ pos' \in [Topics -> Nat]
        BY <1>2, <1>0 DEF TypeOK, Restart, topics
    <2>2. ASSUME NEW u \in Topics
          PROVE  pos'[u] <= Len(log'[u])
        <3>1. log[u] \in Seq(Lines) /\ pos[u] <= Len(log[u])
            BY DEF TypeOK, Lines
        <3>2. pos'[u] \in {0, pos[u]}
            BY <1>2 DEF TypeOK, Restart
        <3> QED BY <2>1, <3>1, <3>2
    <2>3. reader' \in [Indexed -> {"new", "reading", "sleeping", "stopped", "dead"}]
        BY <1>2 DEF TypeOK, Restart
    <2> QED BY <1>2, <2>1, <2>2, <2>3 DEF TypeOK, Restart, topics, generator, counts
<1>3. CASE EndOfFile(t)
    BY <1>3, BoundsAssumption DEF TypeOK, EndOfFile, topics, generator
<1>4. CASE ReaderDies(t)
    BY <1>4, BoundsAssumption DEF TypeOK, ReaderDies, topics, generator
<1> QED BY <1>1, <1>2, <1>3, <1>4 DEF Thread

LEMMA SendType ==
    ASSUME TypeOK, NEW kind \in Kinds, NEW a \in Articles, NEW n \in Nat, send(kind, a, n)
    PROVE  sent' \in Seq(Events)
    BY DEF TypeOK, send, Events

LEMMA PassOverType == ASSUME TypeOK, PassOver PROVE TypeOK'
<1>1. Raw \in Topics
    BY DEF Topics
<1>2. pos' \in [Topics -> Nat] /\ \A u \in Topics : pos'[u] <= Len(log'[u])
    BY <1>1 DEF TypeOK, PassOver, topics
<1> QED BY <1>2 DEF TypeOK, PassOver, topics, threads, generator, counts

LEMMA AnnounceType == ASSUME TypeOK, Announce PROVE TypeOK'
<1>1. Raw \in Topics
    BY DEF Topics
<1>2. article' \in Articles
    <2>1. NextLine \in Lines
        BY <1>1, NextIsLine DEF Announce, NextLine
    <2> QED BY <2>1 DEF Announce, Skip, Lines
<1>3. sent' \in Seq(Events)
    <2>1. send("step1", article', 0)
        BY DEF Announce
    <2> QED BY <1>2, <2>1, SendType DEF Kinds
<1>4. pos' \in [Topics -> Nat] /\ \A u \in Topics : pos'[u] <= Len(log'[u])
    BY <1>1 DEF TypeOK, Announce, topics
<1>5. pc' \in {"follow", "step2"} /\ (pc' = "step2" => article' \in Accepted)
    BY DEF Announce
<1>6. log' = log /\ reader' = reader /\ index' = index /\ stop' = stop /\ connected' = connected
      /\ restarts' = restarts /\ faults' = faults
    BY DEF Announce, topics, threads, counts
<1>7. seen_ids' \subseteq Articles /\ suspended' = TRUE /\ expired' = FALSE
    BY <1>2 DEF Announce, TypeOK
<1> QED BY <1>2, <1>3, <1>4, <1>5, <1>6, <1>7 DEF TypeOK, Events

\* The generator waits for, or shows, the results of an article.
LEMMA AcceptedIsArticle == ASSUME TypeOK, pc \in {"step2", "step3", "step4"} PROVE article \in Articles
    BY ArticlesAssumption DEF TypeOK

LEMMA FoundType == ASSUME TypeOK, Found PROVE TypeOK'
<1>1. article \in Articles /\ article \in Accepted
    BY AcceptedIsArticle DEF Found, TypeOK
<1>2. index[Awaited][article] \in Nat
    BY <1>1 DEF TypeOK, Awaited, Indexed
<1>3. sent' \in Seq(Events)
    BY <1>1, <1>2, SendType DEF Found, Kinds
<1> QED BY <1>1, <1>3 DEF TypeOK, Found, topics, threads, counts, Events

LEMMA TimeOutType == ASSUME TypeOK, TimeOut PROVE TypeOK'
<1>1. article \in Articles /\ article \in Accepted
    BY AcceptedIsArticle DEF TimeOut, TypeOK
<1>2. sent' \in Seq(Events)
    BY <1>1, SendType DEF TimeOut, Kinds
<1> QED BY <1>1, <1>2 DEF TypeOK, TimeOut, topics, threads, counts, Events

LEMMA ShowGraphType == ASSUME TypeOK, ShowGraph PROVE TypeOK'
<1>1. article \in Articles /\ article \in Accepted
    BY AcceptedIsArticle DEF ShowGraph, Running, TypeOK
<1>2. sent' \in Seq(Events)
    BY <1>1, SendType DEF ShowGraph, Kinds
<1> QED BY <1>1, <1>2 DEF TypeOK, ShowGraph, Running, topics, threads, counts, Events

LEMMA FollowAgainType == ASSUME TypeOK, FollowAgain PROVE TypeOK'
<1>1. pos' \in [Topics -> Nat]
    BY DEF TypeOK, FollowAgain
<1>2. ASSUME NEW u \in Topics
      PROVE  pos'[u] <= Len(log'[u])
    <2>1. log' = log /\ log[u] \in Seq(Lines) /\ pos[u] <= Len(log[u])
        BY DEF TypeOK, FollowAgain, topics, Lines
    <2>2. pos'[u] \in {0, pos[u]}
        BY DEF TypeOK, FollowAgain
    <2> QED BY <2>1, <2>2
<1> QED BY <1>1, <1>2, BoundsAssumption DEF TypeOK, FollowAgain, topics, threads, generator

LEMMA TypeStep == ASSUME TypeOK, [Next]_vars PROVE TypeOK'
<1>1. CASE UNCHANGED vars
    BY <1>1 DEF TypeOK, vars, topics, threads, generator, counts
<1>2. ASSUME NEW t \in Topics, NEW m \in Lines, Publish(t, m)
      PROVE  TypeOK'
    BY <1>2, PublishType
<1>3. CASE Leave
    BY <1>3 DEF TypeOK, Leave, topics, threads, generator, counts
<1>4. ASSUME NEW t \in Indexed, Thread(t) \/ EndOfFile(t) \/ ReaderDies(t)
      PROVE  TypeOK'
    BY <1>4, ThreadType
<1>5. CASE Begin
    BY <1>5 DEF TypeOK, Begin, Introduction, topics, counts
<1>6. CASE Register
    BY <1>6 DEF TypeOK, Register, Introduction, topics, threads, counts
<1>7. CASE RegisterRaises
    BY <1>7, BoundsAssumption DEF TypeOK, RegisterRaises, Introduction, topics, threads
<1>8. CASE Resume
    BY <1>8 DEF TypeOK, Resume, Introduction, topics, threads, counts
<1>9. CASE Close
    BY <1>9 DEF TypeOK, Close, Introduction, topics, threads, counts
<1>10. CASE PassOver
    BY <1>10, PassOverType
<1>11. CASE Announce
    BY <1>11, AnnounceType
<1>12. CASE Found
    BY <1>12, FoundType
<1>13. CASE TimeOut
    BY <1>13, TimeOutType
<1>14. CASE ShowGraph
    BY <1>14, ShowGraphType
<1>15. CASE End
    BY <1>15 DEF TypeOK, End, Introduction, topics, threads, counts
<1>16. CASE FollowAgain
    BY <1>16, FollowAgainType
<1>17. CASE Expire
    BY <1>17 DEF TypeOK, Expire, topics, threads, counts
<1>18. CASE Raise
    BY <1>18, BoundsAssumption DEF TypeOK, Raise, topics, threads
<1> QED BY <1>1, <1>2, <1>3, <1>4, <1>5, <1>6, <1>7, <1>8, <1>9, <1>10, <1>11, <1>12, <1>13,
           <1>14, <1>15, <1>16, <1>17, <1>18 DEF Next, event_stream, Lines

\* Every variable keeps its shape; the steps are about an accepted article.
THEOREM TypeCorrect == Spec => []TypeOK
    BY InitType, TypeStep, PTL DEF Spec

-----------------------------------------------------------------------------
(* The end of a stream.                                                    *)

\* Nothing is sent about an article before the try block, and after it an end stops
\* the threads.
StopInv ==
    /\ pc \in Introduction => sent = <<>>
    /\ EndStopsTheThreads

LEMMA StopStep == ASSUME TypeOK, StopInv, [Next]_vars PROVE StopInv'
<1> USE DEF StopInv, EndStopsTheThreads, Introduction
<1>1. CASE UNCHANGED vars
    BY <1>1 DEF vars, generator
<1>2. ASSUME NEW t \in Topics, NEW m \in Articles \cup {NoId}, Publish(t, m)
      PROVE  StopInv'
    BY <1>2 DEF Publish, generator
<1>3. CASE Leave
    BY <1>3 DEF Leave, generator
<1>4. ASSUME NEW t \in Indexed, Thread(t) \/ EndOfFile(t) \/ ReaderDies(t)
      PROVE  StopInv'
    BY <1>4 DEF Thread, Read, Restart, EndOfFile, ReaderDies, generator
<1>5. CASE Begin \/ Register \/ Resume \/ Close \/ RegisterRaises
    BY <1>5 DEF Begin, Register, Resume, Close, RegisterRaises, Running
<1>6. CASE PassOver \/ FollowAgain
    BY <1>6 DEF PassOver, FollowAgain, generator
<1>7. CASE Announce \/ Found \/ TimeOut \/ ShowGraph
    BY <1>7 DEF Announce, Found, TimeOut, ShowGraph
<1>8. CASE End \/ Expire \/ Raise
    BY <1>8 DEF End, Expire, Raise, Running
<1> QED BY <1>1, <1>2, <1>3, <1>4, <1>5, <1>6, <1>7, <1>8 DEF Next, event_stream

\* A stream that has sent an article and ends, because the client left or something
\* raised, has told its threads to stop.
THEOREM EndIsHeard == Spec => []EndStopsTheThreads
<1>1. Init => StopInv
    BY DEF Init, StopInv, EndStopsTheThreads, Introduction
<1>2. StopInv => EndStopsTheThreads
    BY DEF StopInv
<1> QED BY <1>1, <1>2, TypeCorrect, StopStep, PTL DEF Spec

-----------------------------------------------------------------------------
(* The indexes.                                                            *)

\* The place in the index is a line of the article, and no line read since the
\* subprocess started is newer.
IndexHolds(t, a) ==
    /\ index[t][a] # 0 => index[t][a] <= Len(log[t]) /\ log[t][index[t][a]] = a
    /\ \A i \in 1..pos[t] : log[t][i] = a => index[t][a] \in i..pos[t]

\* What was shown is a line of its article.
Shown(e, t) == e.shown \in 1..Len(log[t]) /\ log[t][e.shown] = e.article

EventHolds(e) ==
    /\ e.kind = "step2" => Shown(e, Entity)
    /\ e.kind = "step3" => Shown(e, Graph)

IndexInv ==
    /\ \A t \in Indexed, a \in Articles : IndexHolds(t, a)
    /\ \A i \in 1..Len(sent) : EventHolds(sent[i])

\* The invariant gives the property.
LEMMA IndexInvImplies == ASSUME TypeOK, IndexInv PROVE IndexFollowsTheTopic
<1>1. ASSUME NEW t \in Indexed, NEW a \in Articles
      PROVE  /\ LastLine(t, a, pos[t]) # 0 => index[t][a] = LastLine(t, a, pos[t])
             /\ index[t][a] # 0 => log[t][index[t][a]] = a
    <2> DEFINE lines == {i \in 1..pos[t] : log[t][i] = a}
    <2>1. IndexHolds(t, a)
        BY DEF IndexInv
    <2>2. pos[t] \in Nat /\ index[t][a] \in Nat
        BY DEF TypeOK, Topics
    <2>3. ASSUME NEW k \in lines
          PROVE  index[t][a] \in lines /\ \A j \in lines : j <= index[t][a]
        BY <2>1, <2>2 DEF IndexHolds
    <2>4. ASSUME NEW k \in lines
          PROVE  index[t][a] = CHOOSE i \in lines : \A j \in lines : j <= i
        <3> DEFINE last == CHOOSE i \in lines : \A j \in lines : j <= i
        <3>1. last \in lines /\ \A j \in lines : j <= last
            BY <2>3
        <3>2. last \in Int /\ index[t][a] <= last /\ last <= index[t][a]
            BY <2>2, <2>3, <3>1
        <3> QED BY <2>2, <3>2
    <2>5. LastLine(t, a, pos[t]) # 0 => index[t][a] = LastLine(t, a, pos[t])
        BY <2>4 DEF LastLine
    <2> QED BY <2>1, <2>5 DEF IndexHolds
<1>2. ASSUME NEW i \in 1..Len(sent)
      PROVE  /\ sent[i].kind = "step2" => log[Entity][sent[i].shown] = sent[i].article
             /\ sent[i].kind = "step3" => log[Graph][sent[i].shown] = sent[i].article
    BY DEF IndexInv, EventHolds, Shown
<1> QED BY <1>1, <1>2 DEF IndexFollowsTheTopic

\* The steps that touch neither the topics nor what is made of them.
LEMMA IndexKept ==
    ASSUME TypeOK, IndexInv, log' = log, index' = index, sent' = sent,
           \A t \in Indexed : pos'[t] \in {0, pos[t]}
    PROVE  IndexInv'
<1>1. ASSUME NEW t \in Indexed, NEW a \in Articles
      PROVE  IndexHolds(t, a)'
    <2>1. IndexHolds(t, a)
        BY DEF IndexInv
    <2>2. CASE pos'[t] = 0
        BY <2>1, <2>2 DEF IndexHolds
    <2>3. CASE pos'[t] = pos[t]
        BY <2>1, <2>3 DEF IndexHolds
    <2> QED BY <2>2, <2>3
<1> QED BY <1>1 DEF IndexInv, EventHolds, Shown

\* A new line disturbs neither the indexes nor what was shown.
LEMMA PublishIndex ==
    ASSUME TypeOK, IndexInv, NEW t \in Topics, NEW m \in Lines, Publish(t, m)
    PROVE  IndexInv'
<1>1. ASSUME NEW u \in Topics
      PROVE  Len(log'[u]) >= Len(log[u]) /\ \A i \in 1..Len(log[u]) : log'[u][i] = log[u][i]
    BY DEF TypeOK, Publish, Lines
<1>2. pos' = pos /\ index' = index /\ sent' = sent
    BY DEF Publish, threads, generator
<1>3. ASSUME NEW u \in Indexed, NEW a \in Articles
      PROVE  IndexHolds(u, a)'
    <2>1. IndexHolds(u, a) /\ u \in Topics
        BY DEF IndexInv, Topics
    <2>2. pos[u] \in Nat /\ index[u][a] \in Nat /\ pos[u] <= Len(log[u]) /\ Len(log[u]) \in Nat
        BY <2>1 DEF TypeOK
    <2>3. Len(log'[u]) \in Nat
        BY <2>1 DEF TypeOK, Publish, Lines
    <2> QED BY <1>1, <1>2, <2>1, <2>2, <2>3 DEF IndexHolds
<1>4. ASSUME NEW e \in Events, EventHolds(e)
      PROVE  EventHolds(e)'
    <2>1. ASSUME NEW u \in Indexed, Shown(e, u)
          PROVE  Shown(e, u)'
        <3>1. u \in Topics
            BY DEF Topics
        <3>2. Len(log[u]) \in Nat /\ Len(log'[u]) \in Nat
            BY <3>1 DEF TypeOK, Publish, Lines
        <3> QED BY <1>1, <2>1, <3>1, <3>2 DEF Shown
    <2> QED BY <1>4, <2>1 DEF EventHolds, Indexed
<1>5. ASSUME NEW i \in 1..Len(sent)
      PROVE  EventHolds(sent[i])'
    <2>1. sent[i] \in Events
        <3>1. sent \in Seq(Events)
            BY DEF TypeOK, Events
        <3> QED BY <3>1
    <2>2. EventHolds(sent[i])
        BY DEF IndexInv
    <2>3. PICK e \in Events : e = sent[i] /\ EventHolds(e)
        BY <2>1, <2>2
    <2>4. EventHolds(e)'
        BY <1>4, <2>3
    <2> QED BY <1>2, <2>3, <2>4 DEF EventHolds, Shown
<1> QED BY <1>2, <1>3, <1>5 DEF IndexInv

\* A thread that reads a line keeps it, and only it, for its article.
LEMMA ReadIndex ==
    ASSUME TypeOK, IndexInv, NEW t \in Indexed, Read(t)
    PROVE  IndexInv'
<1> DEFINE m == log[t][pos[t] + 1]
           n == pos[t] + 1
<1>1. t \in Topics /\ pos[t] \in Nat /\ n \in 1..Len(log[t]) /\ Len(log[t]) \in Nat
    BY NextIsLine DEF Read, Topics, TypeOK
<1>2. pos' = [pos EXCEPT ![t] = n] /\ log' = log /\ sent' = sent /\ pos'[t] = n
    BY <1>1 DEF Read, TypeOK, topics, generator
<1>3. index' = IF m \in Articles THEN [index EXCEPT ![t][m] = n] ELSE index
    BY <1>2 DEF Read, Kept
<1> HIDE DEF m, n
<1>4. ASSUME NEW u \in Indexed, NEW a \in Articles
      PROVE  IndexHolds(u, a)'
    <2>1. IndexHolds(u, a) /\ index[u][a] \in Nat
        BY DEF IndexInv, TypeOK
    <2>2. CASE u # t
        <3>1. pos'[u] = pos[u] /\ index'[u] = index[u]
            BY <1>2, <1>3, <2>2 DEF TypeOK, Topics
        <3> QED BY <1>2, <2>1, <3>1 DEF IndexHolds
    <2>3. CASE u = t /\ a = m
        <3>1. index'[u][a] = n
            BY <1>3, <2>3 DEF TypeOK
        <3> QED BY <1>1, <1>2, <2>3, <3>1 DEF IndexHolds, m, n
    <2>4. CASE u = t /\ a # m
        <3>1. index'[u][a] = index[u][a]
            BY <1>3, <2>4 DEF TypeOK
        <3>2. \A i \in 1..n : i \in 1..pos[t] \/ i = n
            BY <1>1 DEF n
        <3>3. pos[t] < n
            BY <1>1 DEF n
        <3>4. \A i \in 1..n : log[u][i] = a => index[u][a] \in i..n
            BY <1>1, <2>1, <2>4, <3>2, <3>3 DEF IndexHolds, m, n
        <3> QED BY <1>2, <2>1, <2>4, <3>1, <3>4 DEF IndexHolds
    <2> QED BY <2>2, <2>3, <2>4
<1> QED BY <1>2, <1>4 DEF IndexInv, EventHolds, Shown

\* An event that holds may be sent.
LEMMA SendIndex ==
    ASSUME TypeOK, IndexInv, NEW kind \in Kinds, NEW a \in Articles, NEW n \in Nat,
           send(kind, a, n), EventHolds([kind |-> kind, article |-> a, shown |-> n]),
           log' = log, index' = index, \A t \in Indexed : pos'[t] = pos[t]
    PROVE  IndexInv'
<1>1. ASSUME NEW t \in Indexed, NEW b \in Articles
      PROVE  IndexHolds(t, b)'
    BY DEF IndexInv, IndexHolds
<1> DEFINE e == [kind |-> kind, article |-> a, shown |-> n]
<1>2. ASSUME NEW i \in 1..Len(sent')
      PROVE  EventHolds(sent'[i])
    <2>1. sent \in Seq(Events) /\ e \in Events /\ sent' = Append(sent, e)
        BY DEF TypeOK, Events, send
    <2>2. sent'[i] = e \/ (i \in 1..Len(sent) /\ sent'[i] = sent[i])
        BY <2>1
    <2> QED BY <2>2 DEF IndexInv
<1> QED BY <1>1, <1>2 DEF IndexInv, EventHolds, Shown

\* What is found and shown is in the index.
LEMMA FoundIndex == ASSUME TypeOK, IndexInv, Found PROVE IndexInv'
<1> DEFINE n == index[Awaited][article]
<1>1. article \in Articles /\ pc \in {"step2", "step3"} /\ pc \in Kinds
    BY AcceptedIsArticle DEF Found, Kinds
<1>2. Awaited \in Indexed /\ n \in Nat /\ n # 0
    BY <1>1 DEF Awaited, Indexed, TypeOK, Found
<1>3. IndexHolds(Awaited, article)
    BY <1>1, <1>2 DEF IndexInv
<1>4. Shown([kind |-> pc, article |-> article, shown |-> n], Awaited)
    BY <1>2, <1>3 DEF IndexHolds, Shown
<1>5. EventHolds([kind |-> pc, article |-> article, shown |-> n])
    BY <1>1, <1>4 DEF EventHolds, Awaited
<1>6. send(pc, article, n) /\ log' = log /\ index' = index /\ pos' = pos
    BY DEF Found, topics, threads
<1> QED BY <1>1, <1>2, <1>5, <1>6, SendIndex

\* The other events show no message.
LEMMA OtherEventsIndex ==
    ASSUME TypeOK, IndexInv, Announce \/ TimeOut \/ ShowGraph
    PROVE  IndexInv'
<1>1. PICK kind \in Kinds \ {"step2", "step3"}, a \in Articles : send(kind, a, 0)
    <2>1. CASE Announce
        <3>1. NextLine \in Lines
            BY <2>1, NextIsLine DEF Announce, NextLine, Topics
        <3>2. article' \in Articles /\ send("step1", article', 0)
            BY <2>1, <3>1 DEF Announce, Skip, Lines
        <3> QED BY <3>2 DEF Kinds
    <2>2. CASE TimeOut
        BY <2>2, AcceptedIsArticle DEF TimeOut, Kinds
    <2>3. CASE ShowGraph
        BY <2>3, AcceptedIsArticle DEF ShowGraph, Running, Kinds
    <2> QED BY <2>1, <2>2, <2>3
<1>2. EventHolds([kind |-> kind, article |-> a, shown |-> 0])
    BY DEF EventHolds
<1>3. log' = log /\ index' = index /\ \A t \in Indexed : pos'[t] = pos[t]
    BY DEF Announce, TimeOut, ShowGraph, topics, threads, TypeOK, Topics, Indexed,
           Raw, Entity, Graph
<1> QED BY <1>1, <1>2, <1>3, SendIndex

LEMMA IndexStep == ASSUME TypeOK, IndexInv, [Next]_vars PROVE IndexInv'
<1>1. CASE UNCHANGED vars
    BY <1>1, IndexKept DEF vars, topics, threads, generator
<1>2. ASSUME NEW t \in Topics, NEW m \in Lines, Publish(t, m)
      PROVE  IndexInv'
    BY <1>2, PublishIndex
<1>3. CASE Leave
    BY <1>3, IndexKept DEF Leave, topics, threads, generator
<1>4. ASSUME NEW t \in Indexed, Thread(t) \/ EndOfFile(t) \/ ReaderDies(t)
      PROVE  IndexInv'
    <2>1. CASE Read(t)
        BY <2>1, ReadIndex
    <2>2. CASE Restart(t)
        <3>1. \A u \in Indexed : pos'[u] \in {0, pos[u]}
            BY <2>2 DEF Restart, TypeOK, Topics
        <3> QED BY <2>2, <3>1, IndexKept DEF Restart, topics, generator
    <2>3. CASE EndOfFile(t) \/ ReaderDies(t)
        BY <2>3, IndexKept DEF EndOfFile, ReaderDies, topics, generator
    <2> QED BY <1>4, <2>1, <2>2, <2>3 DEF Thread
<1>5. CASE Begin \/ Register \/ RegisterRaises \/ Resume \/ Close
    BY <1>5, IndexKept DEF Begin, Register, RegisterRaises, Resume, Close, topics, threads
<1>6. CASE PassOver \/ FollowAgain
    <2>1. \A u \in Indexed : pos'[u] = pos[u]
        BY <1>6 DEF PassOver, FollowAgain, TypeOK, Topics, Indexed, Raw, Entity, Graph
    <2> QED BY <1>6, <2>1, IndexKept DEF PassOver, FollowAgain, topics, threads, generator
<1>7. CASE Found
    BY <1>7, FoundIndex
<1>8. CASE Announce \/ TimeOut \/ ShowGraph
    BY <1>8, OtherEventsIndex
<1>9. CASE End \/ Expire \/ Raise
    BY <1>9, IndexKept DEF End, Expire, Raise, topics, threads
<1> QED BY <1>1, <1>2, <1>3, <1>4, <1>5, <1>6, <1>7, <1>8, <1>9 DEF Next, event_stream, Lines

\* Through every end of a subprocess, a thread keeps the newest message it has read of an
\* article, and steps 2 and 3 show messages about their own article.
THEOREM IndexIsCorrect == Spec => []IndexFollowsTheTopic
<1>1. Init => IndexInv
    BY DEF Init, IndexInv, IndexHolds, Topics
<1> QED BY <1>1, TypeCorrect, IndexStep, IndexInvImplies, PTL DEF Spec

-----------------------------------------------------------------------------
(* What is announced.                                                      *)

Announced == AnnouncedBefore(Len(sent) + 1)

\* The generator has seen what it has announced: the ids of the lines it has read, or
\* had read when its subprocess ended.
OrderInv ==
    /\ seen_ids = Announced
    /\ \E r \in pos[Raw]..Len(log[Raw]) : Announced = Ids(r)
    /\ \A i \in Announcements : \E n \in 1..Len(log[Raw]) :
         /\ log[Raw][n] = sent[i].article
         /\ AnnouncedBefore(i) = Ids(n - 1)
         /\ sent[i].article \notin AnnouncedBefore(i)

\* The invariant gives the property.
LEMMA OrderInvImplies == ASSUME TypeOK, OrderInv PROVE AnnouncedOnceInOrder
<1>1. PICK r \in pos[Raw]..Len(log[Raw]) : Announced = Ids(r)
    BY DEF OrderInv
<1>2. pos[Raw] \in Nat /\ pos[Raw] <= r /\ r \in Int
    BY <1>1 DEF TypeOK, Topics
<1>3. Ids(pos[Raw]) \subseteq Ids(r)
    BY <1>2 DEF Ids
<1> QED BY <1>1, <1>3 DEF OrderInv, AnnouncedOnceInOrder, Announced

\* Nothing that was sent changes.
LEMMA AnnouncedKept ==
    ASSUME sent' = sent
    PROVE  /\ Announcements' = Announcements /\ Announced' = Announced
           /\ \A i \in Int : AnnouncedBefore(i)' = AnnouncedBefore(i)
    BY DEF Announcements, Announced, AnnouncedBefore

\* An event that is sent is the last one, and announces its article when it is a step 1.
LEMMA Sending ==
    ASSUME TypeOK, NEW kind \in Kinds, NEW a \in Articles, NEW n \in Nat, send(kind, a, n)
    PROVE  /\ Len(sent) \in Nat /\ Len(sent') = Len(sent) + 1
           /\ sent'[Len(sent) + 1] = [kind |-> kind, article |-> a, shown |-> n]
           /\ \A i \in 1..Len(sent) : sent'[i] = sent[i]
           /\ Announcements' = Announcements \cup (IF kind = "step1" THEN {Len(sent) + 1} ELSE {})
           /\ \A i \in 1..(Len(sent) + 1) : AnnouncedBefore(i)' = AnnouncedBefore(i)
           /\ Announced' = Announced \cup (IF kind = "step1" THEN {a} ELSE {})
<1> DEFINE e == [kind |-> kind, article |-> a, shown |-> n]
           l == Len(sent) + 1
<1>1. /\ Len(sent) \in Nat /\ Len(sent') = l /\ sent'[l] = e
      /\ \A i \in 1..Len(sent) : sent'[i] = sent[i]
    <2>1. sent \in Seq(Events) /\ e \in Events /\ sent' = Append(sent, e)
        BY DEF TypeOK, Events, send
    <2> HIDE DEF e
    <2> QED BY <2>1
<1>2. e.kind = kind /\ e.article = a
    OBVIOUS
<1> HIDE DEF e
<1>3. \A i \in Int : i \in 1..Len(sent') <=> i \in 1..Len(sent) \/ i = l
    BY <1>1
<1>4. Announcements' = Announcements \cup (IF kind = "step1" THEN {l} ELSE {})
    BY <1>1, <1>2, <1>3 DEF Announcements
<1>5. ASSUME NEW i \in 1..l
      PROVE  AnnouncedBefore(i)' = AnnouncedBefore(i)
    <2>1. {j \in Announcements' : j < i} = {j \in Announcements : j < i}
        BY <1>1, <1>4
    <2>2. \A j \in {k \in Announcements : k < i} : sent'[j] = sent[j]
        BY <1>1 DEF Announcements
    <2> QED BY <2>1, <2>2 DEF AnnouncedBefore
<1>6. Announced' = Announced \cup (IF kind = "step1" THEN {a} ELSE {})
    <2>1. Announced = {sent[j].article : j \in Announcements}
        <3>1. {j \in Announcements : j < l} = Announcements
            BY <1>1 DEF Announcements
        <3> QED BY <3>1 DEF Announced, AnnouncedBefore
    <2>2. Announced' = {sent'[j].article : j \in Announcements'}
        <3>1. {j \in Announcements' : j < Len(sent') + 1} = Announcements'
            BY <1>1 DEF Announcements
        <3> QED BY <3>1 DEF Announced, AnnouncedBefore
    <2>3. \A j \in Announcements : sent'[j] = sent[j]
        BY <1>1 DEF Announcements
    <2> QED BY <1>1, <1>2, <1>4, <2>1, <2>2, <2>3
<1> QED BY <1>1, <1>4, <1>5, <1>6 DEF e

\* The first lines of a topic stay as they are.
LEMMA IdsKept ==
    ASSUME TypeOK, NEW n \in Nat, n <= Len(log[Raw]),
           log' = log \/ (\E t \in Topics, m \in Lines : Publish(t, m))
    PROVE  Ids(n)' = Ids(n) /\ Len(log'[Raw]) \in Nat /\ Len(log[Raw]) <= Len(log'[Raw])
           /\ \A i \in 1..Len(log[Raw]) : log'[Raw][i] = log[Raw][i]
<1>1. log[Raw] \in Seq(Lines)
    BY DEF TypeOK, Lines, Topics
<1>2. /\ Len(log'[Raw]) \in Nat /\ Len(log[Raw]) <= Len(log'[Raw])
      /\ \A i \in 1..Len(log[Raw]) : log'[Raw][i] = log[Raw][i]
    <2>1. CASE log' = log
        BY <1>1, <2>1
    <2>2. ASSUME NEW t \in Topics, NEW m \in Lines, Publish(t, m)
          PROVE  /\ Len(log'[Raw]) \in Nat /\ Len(log[Raw]) <= Len(log'[Raw])
                 /\ \A i \in 1..Len(log[Raw]) : log'[Raw][i] = log[Raw][i]
        <3>1. log'[Raw] = log[Raw] \/ log'[Raw] = Append(log[Raw], m)
            BY <2>2 DEF Publish, TypeOK, Topics
        <3> QED BY <1>1, <3>1
    <2> QED BY <2>1, <2>2
<1>3. Ids(n)' = Ids(n)
    BY <1>1, <1>2 DEF Ids
<1> QED BY <1>2, <1>3

\* One more line, and its id.
LEMMA IdsNext ==
    ASSUME NEW n \in Nat
    PROVE  Ids(n + 1) = Ids(n) \cup ({log[Raw][n + 1]} \ {NoId})
<1>1. \A k \in Int : k \in 1..(n + 1) <=> k \in 1..n \/ k = n + 1
    OBVIOUS
<1> QED BY <1>1 DEF Ids

\* The steps that announce nothing.
LEMMA OrderKept ==
    ASSUME TypeOK, OrderInv, seen_ids' = seen_ids, Announced' = Announced,
           Announcements' = Announcements,
           \A i \in Announcements : AnnouncedBefore(i)' = AnnouncedBefore(i) /\ sent'[i] = sent[i],
           log' = log \/ (\E t \in Topics, m \in Lines : Publish(t, m)),
           pos'[Raw] \in {0, pos[Raw]}
    PROVE  OrderInv'
<1>1. PICK r \in pos[Raw]..Len(log[Raw]) : Announced = Ids(r)
    BY DEF OrderInv
<1>2. pos[Raw] \in Nat /\ Len(log[Raw]) \in Nat /\ r \in Nat /\ r <= Len(log[Raw])
    BY <1>1 DEF TypeOK, Topics
<1>3. /\ \A n \in 0..Len(log[Raw]) : Ids(n)' = Ids(n)
      /\ Len(log'[Raw]) \in Nat /\ Len(log[Raw]) <= Len(log'[Raw])
      /\ \A i \in 1..Len(log[Raw]) : log'[Raw][i] = log[Raw][i]
    BY <1>2, IdsKept
<1>4. r \in pos'[Raw]..Len(log'[Raw]) /\ Announced' = Ids(r)'
    BY <1>1, <1>2, <1>3
<1>5. ASSUME NEW i \in Announcements'
      PROVE  \E n \in 1..Len(log'[Raw]) : /\ log'[Raw][n] = sent'[i].article
                                          /\ AnnouncedBefore(i)' = Ids(n - 1)'
                                          /\ sent'[i].article \notin AnnouncedBefore(i)'
    <2>1. PICK n \in 1..Len(log[Raw]) : /\ log[Raw][n] = sent[i].article
                                        /\ AnnouncedBefore(i) = Ids(n - 1)
                                        /\ sent[i].article \notin AnnouncedBefore(i)
        BY DEF OrderInv
    <2>2. n \in 1..Len(log'[Raw]) /\ n - 1 \in 0..Len(log[Raw])
        BY <1>2, <1>3
    <2> QED BY <1>3, <2>1, <2>2
<1> QED BY <1>4, <1>5 DEF OrderInv

\* A line that is passed over is without an id, or announced.
LEMMA PassOverOrder == ASSUME TypeOK, OrderInv, PassOver PROVE OrderInv'
<1>1. /\ pos[Raw] \in Nat /\ Len(log[Raw]) \in Nat /\ pos[Raw] < Len(log[Raw])
      /\ log' = log /\ sent' = sent /\ seen_ids' = seen_ids /\ pos'[Raw] = pos[Raw] + 1
    BY DEF PassOver, TypeOK, Topics, topics, generator
<1>2. PICK r \in pos[Raw]..Len(log[Raw]) : Announced = Ids(r)
    BY DEF OrderInv
<1>3. log[Raw][pos[Raw] + 1] = NoId \/ log[Raw][pos[Raw] + 1] \in Announced
    BY DEF PassOver, Skip, NextLine, OrderInv
<1>4. \E q \in (pos[Raw] + 1)..Len(log[Raw]) : Announced = Ids(q)
    <2>1. CASE r = pos[Raw]
        <3>1. Ids(pos[Raw] + 1) = Ids(pos[Raw]) \cup ({log[Raw][pos[Raw] + 1]} \ {NoId})
            BY <1>1, IdsNext
        <3>2. Announced = Ids(pos[Raw] + 1)
            BY <1>2, <1>3, <2>1, <3>1
        <3> QED BY <1>1, <3>2
    <2>2. CASE r # pos[Raw]
        BY <1>1, <1>2, <2>2
    <2> QED BY <2>1, <2>2
<1>5. \A n \in Int : Ids(n)' = Ids(n) /\ AnnouncedBefore(n)' = AnnouncedBefore(n)
    BY <1>1 DEF Ids, AnnouncedBefore, Announcements
<1>6. Announced' = Announced /\ Announcements' = Announcements
    BY <1>1, AnnouncedKept
<1>7. \E q \in pos'[Raw]..Len(log'[Raw]) : Announced' = Ids(q)'
    BY <1>1, <1>4, <1>5, <1>6
<1>8. \A i \in Announcements' : \E n \in 1..Len(log'[Raw]) :
         /\ log'[Raw][n] = sent'[i].article
         /\ AnnouncedBefore(i)' = Ids(n - 1)'
         /\ sent'[i].article \notin AnnouncedBefore(i)'
    BY <1>1, <1>5, <1>6 DEF OrderInv, Announcements
<1> QED BY <1>1, <1>6, <1>7, <1>8 DEF OrderInv

\* A line whose id is new was never read: it is the one after those that were.
LEMMA AnnounceOrder == ASSUME TypeOK, OrderInv, Announce PROVE OrderInv'
<1> DEFINE l == Len(sent) + 1
<1>0. PICK p, a : p = pos[Raw] + 1 /\ a = NextLine
    OBVIOUS
<1>1. /\ pos[Raw] \in Nat /\ Len(log[Raw]) \in Nat /\ pos[Raw] < Len(log[Raw])
      /\ log' = log /\ pos'[Raw] = p /\ a = log[Raw][p] /\ p \in 1..Len(log[Raw])
    BY <1>0 DEF Announce, TypeOK, Topics, topics, NextLine
<1>2. a \in Articles /\ a # NoId /\ a \notin seen_ids
    <2>1. a \in Lines
        <3>1. Raw \in Topics
            BY DEF Topics
        <3> QED BY <1>0, <1>1, <3>1, NextIsLine
    <2> QED BY <1>0, <2>1 DEF Announce, Skip, Lines
<1>3. send("step1", a, 0) /\ seen_ids' = seen_ids \cup {a}
    BY <1>0 DEF Announce
<1>4. PICK r \in pos[Raw]..Len(log[Raw]) : Announced = Ids(r)
    BY DEF OrderInv
<1>5. r = pos[Raw]
    <2>1. a \notin Ids(r)
        BY <1>2, <1>4 DEF OrderInv
    <2>2. CASE r >= p
        BY <1>1, <1>2, <2>1, <2>2 DEF Ids
    <2> QED BY <1>0, <1>1, <1>4, <2>2
<1>6. "step1" \in Kinds /\ 0 \in Nat
    BY DEF Kinds
<1>7. /\ Len(sent) \in Nat /\ Len(sent') = l
      /\ sent'[l].article = a
      /\ \A i \in 1..Len(sent) : sent'[i] = sent[i]
      /\ Announcements' = Announcements \cup {l}
      /\ \A i \in 1..l : AnnouncedBefore(i)' = AnnouncedBefore(i)
      /\ Announced' = Announced \cup {a}
    <2>1. /\ Len(sent) \in Nat /\ Len(sent') = Len(sent) + 1
          /\ sent'[Len(sent) + 1] = [kind |-> "step1", article |-> a, shown |-> 0]
          /\ \A i \in 1..Len(sent) : sent'[i] = sent[i]
          /\ Announcements' = Announcements \cup {Len(sent) + 1}
          /\ \A i \in 1..(Len(sent) + 1) : AnnouncedBefore(i)' = AnnouncedBefore(i)
          /\ Announced' = Announced \cup {a}
        BY <1>2, <1>3, <1>6, Sending
    <2> QED BY <2>1
<1>8. Ids(p) = Ids(pos[Raw]) \cup {a} /\ \A n \in Int : Ids(n)' = Ids(n)
    <2>1. Ids(p) = Ids(pos[Raw]) \cup {a}
        <3>1. Ids(pos[Raw] + 1) = Ids(pos[Raw]) \cup ({log[Raw][pos[Raw] + 1]} \ {NoId})
            BY <1>1, IdsNext
        <3> QED BY <1>0, <1>1, <1>2, <3>1
    <2> QED BY <1>1, <2>1 DEF Ids
<1>9. Announced' = Ids(p)' /\ p \in pos'[Raw]..Len(log'[Raw])
    BY <1>1, <1>4, <1>5, <1>7, <1>8
<1>10. ASSUME NEW i \in Announcements'
       PROVE  \E n \in 1..Len(log'[Raw]) : /\ log'[Raw][n] = sent'[i].article
                                           /\ AnnouncedBefore(i)' = Ids(n - 1)'
                                           /\ sent'[i].article \notin AnnouncedBefore(i)'
    <2>1. CASE i = l
        <3>1. AnnouncedBefore(i)' = Announced /\ p - 1 = pos[Raw]
            BY <1>0, <1>1, <1>7, <2>1 DEF Announced
        <3>2. AnnouncedBefore(i)' = Ids(p - 1)' /\ a \notin AnnouncedBefore(i)'
            BY <1>1, <1>2, <1>4, <1>5, <1>8, <3>1 DEF OrderInv
        <3> QED BY <1>1, <1>7, <2>1, <3>2
    <2>2. CASE i # l
        <3>1. i \in Announcements /\ i \in 1..Len(sent)
            BY <1>7, <2>2 DEF Announcements
        <3>2. PICK n \in 1..Len(log[Raw]) : /\ log[Raw][n] = sent[i].article
                                            /\ AnnouncedBefore(i) = Ids(n - 1)
                                            /\ sent[i].article \notin AnnouncedBefore(i)
            BY <3>1 DEF OrderInv
        <3>3. sent'[i] = sent[i] /\ AnnouncedBefore(i)' = AnnouncedBefore(i) /\ Ids(n - 1)' = Ids(n - 1)
            BY <1>1, <1>7, <1>8, <3>1
        <3> QED BY <1>1, <3>2, <3>3
    <2> QED BY <2>1, <2>2
<1>11. seen_ids' = Announced'
    BY <1>3, <1>7 DEF OrderInv
<1> QED BY <1>9, <1>10, <1>11 DEF OrderInv

\* Every other event is about an announced article.
LEMMA SendOrder ==
    ASSUME TypeOK, OrderInv, NEW kind \in Kinds \ {"step1"}, NEW a \in Articles, NEW n \in Nat,
           send(kind, a, n), log' = log, seen_ids' = seen_ids, pos'[Raw] = pos[Raw]
    PROVE  OrderInv'
<1>1. /\ Len(sent) \in Nat
      /\ \A i \in 1..Len(sent) : sent'[i] = sent[i]
      /\ Announcements' = Announcements
      /\ \A i \in 1..(Len(sent) + 1) : AnnouncedBefore(i)' = AnnouncedBefore(i)
      /\ Announced' = Announced
    BY Sending
<1>2. \A i \in Announcements : AnnouncedBefore(i)' = AnnouncedBefore(i) /\ sent'[i] = sent[i]
    BY <1>1 DEF Announcements
<1> QED BY <1>1, <1>2, OrderKept

\* The order of the announcements, through every step.
LEMMA OrderStep == ASSUME TypeOK, OrderInv, [Next]_vars PROVE OrderInv'
<1>0. ASSUME sent' = sent, seen_ids' = seen_ids, pos'[Raw] \in {0, pos[Raw]},
             log' = log \/ (\E t \in Topics, m \in Lines : Publish(t, m))
      PROVE  OrderInv'
    <2>1. Announcements \subseteq Int
        BY DEF Announcements
    <2> QED BY <1>0, <2>1, AnnouncedKept, OrderKept
<1>1. CASE UNCHANGED vars
    BY <1>0, <1>1 DEF vars, topics, threads, generator
<1>2. ASSUME NEW t \in Topics, NEW m \in Lines, Publish(t, m)
      PROVE  OrderInv'
    BY <1>0, <1>2 DEF Publish, generator
<1>3. CASE Leave
    BY <1>0, <1>3 DEF Leave, topics, threads, generator
<1>4. ASSUME NEW t \in Indexed, Thread(t) \/ EndOfFile(t) \/ ReaderDies(t)
      PROVE  OrderInv'
    <2>1. pos'[Raw] = pos[Raw]
        <3>1. t # Raw
            BY DEF Indexed, Raw, Entity, Graph
        <3> QED BY <1>4, <3>1 DEF Thread, Read, Restart, EndOfFile, ReaderDies, TypeOK, Topics
    <2> QED BY <1>0, <1>4, <2>1 DEF Thread, Read, Restart, EndOfFile, ReaderDies, topics, generator
<1>5. CASE Begin \/ Register \/ RegisterRaises \/ Resume \/ Close
    BY <1>0, <1>5 DEF Begin, Register, RegisterRaises, Resume, Close, topics, threads
<1>6. CASE PassOver
    BY <1>6, PassOverOrder
<1>7. CASE FollowAgain
    <2>1. pos'[Raw] = 0
        BY <1>7 DEF FollowAgain, TypeOK, Topics
    <2> QED BY <1>0, <1>7, <2>1 DEF FollowAgain, topics, generator
<1>8. CASE Announce
    BY <1>8, AnnounceOrder
<1>9. CASE Found \/ TimeOut \/ ShowGraph
    <2>1. PICK kind \in Kinds \ {"step1"}, n \in Nat : send(kind, article, n)
        <3>1. CASE Found
            <4>1. index[Awaited][article] \in Nat /\ pc \in Kinds \ {"step1"}
                BY <3>1, AcceptedIsArticle DEF Found, Awaited, Indexed, TypeOK, Kinds
            <4> QED BY <3>1, <4>1 DEF Found
        <3>2. CASE TimeOut
            BY <3>2 DEF TimeOut, Kinds
        <3>3. CASE ShowGraph
            BY <3>3 DEF ShowGraph, Kinds
        <3> QED BY <1>9, <3>1, <3>2, <3>3
    <2>2. article \in Articles
        BY <1>9, AcceptedIsArticle DEF Found, TimeOut, ShowGraph, Running
    <2>3. log' = log /\ seen_ids' = seen_ids /\ pos' = pos
        BY <1>9 DEF Found, TimeOut, ShowGraph, topics
    <2> QED BY <2>1, <2>2, <2>3, SendOrder
<1>10. CASE End \/ Expire \/ Raise
    BY <1>0, <1>10 DEF End, Expire, Raise, topics, threads
<1> QED BY <1>1, <1>2, <1>3, <1>4, <1>5, <1>6, <1>7, <1>8, <1>9, <1>10 DEF Next, event_stream, Lines

LEMMA InitOrder == Init => OrderInv
<1> SUFFICES ASSUME Init PROVE OrderInv
    OBVIOUS
<1>1. sent = <<>> /\ seen_ids = {} /\ log[Raw] = <<>> /\ pos[Raw] = 0
    BY DEF Init, Topics
<1>2. Announcements = {}
    BY <1>1 DEF Announcements
<1>3. Announced = {} /\ Ids(0) = {}
    BY <1>2 DEF Announced, AnnouncedBefore, Ids
<1>4. 0 \in pos[Raw]..Len(log[Raw])
    BY <1>1
<1> QED BY <1>1, <1>2, <1>3, <1>4 DEF OrderInv

\* However often raw_ingestion is read again from its start, every article is announced
\* once, in the order of its first line, and none that was read is left out.
THEOREM AnnouncedInOrder == Spec => []AnnouncedOnceInOrder
    BY InitOrder, OrderStep, OrderInvImplies, TypeCorrect, PTL DEF Spec

-----------------------------------------------------------------------------
(* The steps of an article.                                                *)

\* The event that is sent before the one for which the generator waits.
Preceding == [step2 |-> "step1", step3 |-> "step2", step4 |-> "step3"]

\* Where the generator is tells which event was sent last.
FlowInv ==
    /\ pc \in Introduction => sent = <<>>
    /\ pc = "follow" /\ sent # <<>> => IsLast(sent[Len(sent)])
    /\ pc \in {"step2", "step3", "step4"} =>
         /\ sent # <<>>
         /\ sent[Len(sent)].article = article /\ sent[Len(sent)].kind = Preceding[pc]

InSteps(i) ==
    \/ sent[i].kind = "step1" /\ (i > 1 => IsLast(sent[i - 1]))
    \/ /\ i > 1 /\ sent[i].article = sent[i - 1].article /\ sent[i].article \in Accepted
       /\ <<sent[i - 1].kind, sent[i].kind>> \in Successions

StepsInv == FlowInv /\ \A i \in 1..Len(sent) : InSteps(i)

\* The invariants give the property.
LEMMA StepsInvImplies == ASSUME TypeOK, OrderInv, StepsInv PROVE OneArticleAtATime
<1>1. ASSUME NEW i \in Announcements, NEW j \in Announcements, sent[i].article = sent[j].article
      PROVE  i = j
    <2>1. i \in Int /\ j \in Int
        BY DEF Announcements
    <2>2. sent[i].article \notin AnnouncedBefore(i) /\ sent[j].article \notin AnnouncedBefore(j)
        BY DEF OrderInv
    <2>3. ~(i < j) /\ ~(j < i)
        BY <1>1, <2>2 DEF AnnouncedBefore
    <2> QED BY <2>1, <2>3
<1> QED BY <1>1 DEF StepsInv, InSteps, OneArticleAtATime

\* An event that may follow the last one.
LEMMA SendSteps ==
    ASSUME TypeOK, StepsInv, NEW kind \in Kinds, NEW a \in Articles, NEW n \in Nat,
           send(kind, a, n),
           \/ kind = "step1" /\ (sent # <<>> => IsLast(sent[Len(sent)]))
           \/ /\ sent # <<>> /\ a = sent[Len(sent)].article /\ a \in Accepted
              /\ <<sent[Len(sent)].kind, kind>> \in Successions
    PROVE  /\ \A i \in 1..Len(sent') : InSteps(i)'
           /\ sent' # <<>> /\ sent'[Len(sent')] = [kind |-> kind, article |-> a, shown |-> n]
<1> DEFINE e == [kind |-> kind, article |-> a, shown |-> n]
           l == Len(sent) + 1
<1>1. /\ Len(sent) \in Nat /\ Len(sent') = l /\ sent'[l] = e
      /\ \A i \in 1..Len(sent) : sent'[i] = sent[i]
    BY Sending
<1>2. e.kind = kind /\ e.article = a
    OBVIOUS
<1>3. sent # <<>> <=> Len(sent) > 0
    BY DEF TypeOK
<1>4. sent' # <<>>
    BY DEF send, TypeOK
<1> HIDE DEF e
<1>5. ASSUME NEW i \in 1..Len(sent')
      PROVE  InSteps(i)'
    <2>1. CASE i = l
        <3>1. i - 1 = Len(sent) /\ sent'[i] = e /\ (i > 1 <=> sent # <<>>)
            BY <1>1, <1>3, <2>1
        <3>2. i > 1 => sent'[i - 1] = sent[Len(sent)]
            BY <1>1, <3>1
        <3>3. \/ sent'[i].kind = "step1" /\ (i > 1 => IsLast(sent'[i - 1]))
              \/ /\ i > 1 /\ sent'[i].article = sent'[i - 1].article /\ sent'[i].article \in Accepted
                 /\ <<sent'[i - 1].kind, sent'[i].kind>> \in Successions
            BY <1>2, <3>1, <3>2 DEF IsLast
        <3> QED BY <3>3 DEF InSteps, IsLast
    <2>2. CASE i # l
        <3>1. i \in 1..Len(sent) /\ (i > 1 => i - 1 \in 1..Len(sent))
            BY <1>1, <2>2
        <3>2. InSteps(i)
            BY <3>1 DEF StepsInv
        <3>3. sent'[i] = sent[i] /\ (i > 1 => sent'[i - 1] = sent[i - 1])
            BY <1>1, <3>1
        <3> QED BY <3>2, <3>3 DEF InSteps, IsLast
    <2> QED BY <2>1, <2>2
<1> QED BY <1>1, <1>4, <1>5 DEF e

\* An article is announced where the last event of another was sent.
LEMMA AnnounceSteps == ASSUME TypeOK, StepsInv, Announce PROVE StepsInv'
<1> DEFINE a == NextLine
<1>1. a \in Articles
    <2>1. a \in Lines
        BY NextIsLine DEF Announce, NextLine, Topics
    <2> QED BY <2>1 DEF Announce, Skip, Lines
<1>2. send("step1", a, 0) /\ pc = "follow" /\ article' = a /\ pc' = IF a \in Accepted THEN "step2" ELSE "follow"
    BY DEF Announce, Running
<1> HIDE DEF a
<1>3. sent # <<>> => IsLast(sent[Len(sent)])
    BY <1>2 DEF StepsInv, FlowInv
<1>4. /\ \A i \in 1..Len(sent') : InSteps(i)'
      /\ sent' # <<>> /\ sent'[Len(sent')] = [kind |-> "step1", article |-> a, shown |-> 0]
    BY <1>1, <1>2, <1>3, SendSteps DEF Kinds
<1> QED BY <1>2, <1>4 DEF StepsInv, FlowInv, IsLast, Introduction, Preceding

\* A result follows the event before it.
LEMMA FoundSteps == ASSUME TypeOK, StepsInv, Found PROVE StepsInv'
<1> DEFINE n == index[Awaited][article]
<1>1. pc \in {"step2", "step3"} /\ pc \in Kinds /\ article \in Articles /\ article \in Accepted /\ n \in Nat
    BY AcceptedIsArticle DEF Found, Awaited, Indexed, TypeOK, Kinds
<1>2. send(pc, article, n) /\ article' = article /\ pc' = IF pc = "step2" THEN "step3" ELSE "step4"
    BY DEF Found
<1>3. /\ sent # <<>> /\ article = sent[Len(sent)].article
      /\ <<sent[Len(sent)].kind, pc>> \in Successions
    BY <1>1 DEF StepsInv, FlowInv, Preceding, Successions
<1> HIDE DEF n
<1>4. /\ \A i \in 1..Len(sent') : InSteps(i)'
      /\ sent' # <<>> /\ sent'[Len(sent')] = [kind |-> pc, article |-> article, shown |-> n]
    BY <1>1, <1>2, <1>3, SendSteps
<1> QED BY <1>1, <1>2, <1>4 DEF StepsInv, FlowInv, IsLast, Introduction, Preceding

\* The last event of an article.
LEMMA LastSteps == ASSUME TypeOK, StepsInv, TimeOut \/ ShowGraph PROVE StepsInv'
<1>1. article \in Articles /\ article \in Accepted
    BY AcceptedIsArticle DEF TimeOut, ShowGraph, Running, TypeOK
<1>2. PICK kind \in {"timeout", "step4", "error"} :
        /\ send(kind, article, 0)
        /\ (kind = "timeout" /\ pc \in {"step2", "step3"}) \/ (kind # "timeout" /\ pc = "step4")
    <2>1. CASE TimeOut
        BY <2>1 DEF TimeOut
    <2>2. CASE ShowGraph
        BY <2>2 DEF ShowGraph, Running
    <2> QED BY <2>1, <2>2
<1>3. pc' = "follow" /\ kind \in Kinds
    BY DEF TimeOut, ShowGraph, Kinds
<1>4. /\ sent # <<>> /\ article = sent[Len(sent)].article
      /\ <<sent[Len(sent)].kind, kind>> \in Successions
    BY <1>2 DEF StepsInv, FlowInv, Preceding, Successions
<1>5. /\ \A i \in 1..Len(sent') : InSteps(i)'
      /\ sent' # <<>> /\ sent'[Len(sent')] = [kind |-> kind, article |-> article, shown |-> 0]
    BY <1>1, <1>2, <1>3, <1>4, SendSteps
<1> QED BY <1>3, <1>5 DEF StepsInv, FlowInv, IsLast, Introduction

\* The steps of an article, through every step of the generator.
LEMMA StepsStep == ASSUME TypeOK, StepsInv, [Next]_vars PROVE StepsInv'
<1>0. ASSUME sent' = sent, article' = article,
             \/ pc' = pc \/ pc' \in {"crashed", "ended"}
             \/ pc \in Introduction /\ pc' \in Introduction \cup {"follow"}
      PROVE  StepsInv'
    BY <1>0 DEF StepsInv, FlowInv, InSteps, IsLast, Introduction
<1>1. CASE UNCHANGED vars
    BY <1>0, <1>1 DEF vars, generator
<1>2. ASSUME NEW t \in Topics, NEW m \in Lines, Publish(t, m)
      PROVE  StepsInv'
    BY <1>0, <1>2 DEF Publish, generator
<1>3. CASE Leave
    BY <1>0, <1>3 DEF Leave, generator
<1>4. ASSUME NEW t \in Indexed, Thread(t) \/ EndOfFile(t) \/ ReaderDies(t)
      PROVE  StepsInv'
    BY <1>0, <1>4 DEF Thread, Read, Restart, EndOfFile, ReaderDies, generator
<1>5. CASE Begin \/ Register \/ RegisterRaises \/ Close
    BY <1>0, <1>5 DEF Begin, Register, RegisterRaises, Close, Running, Introduction
<1>6. CASE Resume
    BY <1>0, <1>6 DEF Resume, Introduction
<1>7. CASE PassOver \/ FollowAgain
    BY <1>0, <1>7 DEF PassOver, FollowAgain, generator
<1>8. CASE Announce
    BY <1>8, AnnounceSteps
<1>9. CASE Found
    BY <1>9, FoundSteps
<1>10. CASE TimeOut \/ ShowGraph
    BY <1>10, LastSteps
<1>11. CASE End \/ Expire \/ Raise
    BY <1>0, <1>11 DEF End, Expire, Raise
<1> QED BY <1>1, <1>2, <1>3, <1>4, <1>5, <1>6, <1>7, <1>8, <1>9, <1>10, <1>11 DEF Next, event_stream, Lines

\* An accepted article has its steps in order, alone and once, and the next is announced
\* only after its last event, whatever ends, is late or raises.
THEOREM StepsInOrder == Spec => []OneArticleAtATime
<1>1. Init => StepsInv
    BY DEF Init, StepsInv, FlowInv, Introduction
<1> QED BY <1>1, StepsStep, StepsInvImplies, InitOrder, OrderStep, TypeCorrect, PTL DEF Spec
=============================================================================
