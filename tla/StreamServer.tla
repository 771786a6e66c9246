----------------------------- MODULE StreamServer -----------------------------
(***************************************************************************)
(* One stream of frontend/stream_server.py: the generator behind GET       *)
(* /stream and its two TopicIndex threads.                                 *)
(*                                                                         *)
(* The generator follows raw_ingestion, announces every new article, and   *)
(* for one that matches the topic waits for its entity-sentiment and its   *)
(* graph-changes message, which the threads collect.  All three read with  *)
(* `rpk topic consume --offset start` in a subprocess that may end, after  *)
(* which they begin again at the start of the topic.                       *)
(*                                                                         *)
(* Abstractions.                                                           *)
(*  - A message is the id of its article, or NoId for a line without one;  *)
(*    index holds the place in the topic of the message it keeps.          *)
(*  - Whether a title contains the topic is a property of the article.     *)
(*  - The generator runs while suspended is FALSE and stands at a yield    *)
(*    while it is TRUE; yields with nothing between them are one.          *)
(*  - Time passes in Expire: the deadline of the wait is over.             *)
(***************************************************************************)
EXTENDS Integers, Sequences, FiniteSets, SequencesExt

CONSTANTS
    Articles,       \* article ids
    Accepted,       \* articles whose title contains the topic
    NoId,           \* a line that is no JSON object with an id
    MaxMessages,    \* bound: messages of each topic
    MaxRestarts,    \* bound: subprocesses that end
    MaxFaults       \* bound: exceptions

ASSUME ArticlesAssumption == Accepted \subseteq Articles /\ NoId \notin Articles
ASSUME BoundsAssumption == {MaxRestarts, MaxFaults} \subseteq Nat

Raw == "raw_ingestion"
Entity == "entity_sentiment"
Graph == "graph_changes"
Indexed == {Entity, Graph}
Topics == {Raw} \cup Indexed

VARIABLES
    log,            \* the topics
    pos,            \* how many lines of the current subprocess were read
    reader,         \* where each TopicIndex thread is
    index,          \* _by_article_id: place of the message kept, or 0
    stop,           \* stop_event
    pc, suspended,  \* where the generator is
    article,        \* the article it works on
    expired,        \* whether the deadline of its wait is over
    seen_ids,
    sent,           \* events about articles sent to the client
    connected,      \* whether the client is there
    restarts, faults

topics == <<log>>
threads == <<reader, index>>
generator == <<pc, suspended, article, expired, seen_ids, sent>>
counts == <<restarts, faults>>
vars == <<topics, pos, threads, stop, generator, connected, counts>>

Init ==
    /\ log = [t \in Topics |-> <<>>]
    /\ pos = [t \in Topics |-> 0]
    /\ reader = [t \in Indexed |-> "new"]
    /\ index = [t \in Indexed |-> [a \in Articles |-> 0]]
    /\ stop = FALSE
    /\ pc = "start" /\ suspended = FALSE /\ article = NoId /\ expired = FALSE
    /\ seen_ids = {} /\ sent = <<>>
    /\ connected = TRUE
    /\ restarts = 0 /\ faults = 0

-----------------------------------------------------------------------------
(* The pipeline and the client.                                            *)

\* An article has a result only after it was ingested, and a change only after that.
Publish(t, m) ==
    /\ Len(log[t]) < MaxMessages[t]
    /\ t = Entity => Contains(log[Raw], m)
    /\ t = Graph => Contains(log[Entity], m)
    /\ log' = [log EXCEPT ![t] = Append(@, m)]
    /\ UNCHANGED <<pos, threads, stop, generator, connected, counts>>

Leave ==
    /\ connected
    /\ connected' = FALSE
    /\ UNCHANGED <<topics, pos, threads, stop, generator, counts>>

-----------------------------------------------------------------------------
(* TopicIndex                                                              *)

\* Mutant: only the first message of an article is kept.
KeptFirst(t, m, n) ==
    IF m \in Articles /\ index[t][m] = 0 THEN [index EXCEPT ![t][m] = n] ELSE index

\* A line without an id is skipped; a later message replaces an earlier one.
Kept(t, m, n) == IF m \in Articles THEN [index EXCEPT ![t][m] = n] ELSE index

\* Mutant: the inner loop does not look at stop_event.
ReadOn(t) ==
    /\ reader[t] = "reading"
    /\ pos[t] < Len(log[t])
    /\ pos' = [pos EXCEPT ![t] = @ + 1]
    /\ index' = Kept(t, log[t][pos'[t]], pos'[t])
    /\ UNCHANGED <<topics, reader, stop, generator, connected, counts>>

\* readline() returns a line; stop_event is looked at before the next one only.
Read(t) ==
    /\ reader[t] = "reading"
    /\ pos[t] < Len(log[t])
    /\ pos' = [pos EXCEPT ![t] = @ + 1]
    /\ index' = Kept(t, log[t][pos'[t]], pos'[t])
    /\ reader' = [reader EXCEPT ![t] = IF stop THEN "stopped" ELSE "reading"]
    /\ UNCHANGED <<topics, stop, generator, connected, counts>>

\* The subprocess ends; the thread sleeps before it starts another.
EndOfFile(t) ==
    /\ reader[t] = "reading"
    /\ restarts < MaxRestarts
    /\ restarts' = restarts + 1
    /\ reader' = [reader EXCEPT ![t] = "sleeping"]
    /\ UNCHANGED <<topics, pos, index, stop, generator, connected, faults>>

Restart(t) ==
    /\ reader[t] = "sleeping"
    /\ IF stop
       THEN reader' = [reader EXCEPT ![t] = "stopped"] /\ UNCHANGED pos
       ELSE reader' = [reader EXCEPT ![t] = "reading"] /\ pos' = [pos EXCEPT ![t] = 0]
    /\ UNCHANGED <<topics, index, stop, generator, connected, counts>>

\* Nothing catches an exception of Popen, or of wait(timeout=2).
ReaderDies(t) ==
    /\ reader[t] \in {"reading", "sleeping"}
    /\ faults < MaxFaults
    /\ faults' = faults + 1
    /\ reader' = [reader EXCEPT ![t] = "dead"]
    /\ UNCHANGED <<topics, pos, index, stop, generator, connected, restarts>>

-----------------------------------------------------------------------------
(* event_stream                                                            *)

Running(where) == pc = where /\ ~suspended

send(kind, a, n) == sent' = Append(sent, [kind |-> kind, article |-> a, shown |-> n])

\* The threads start with the first next(); the first status is sent.
Begin ==
    /\ Running("start")
    /\ connected
    /\ reader' = [t \in Indexed |-> "reading"]
    /\ pc' = "register" /\ suspended' = TRUE
    /\ UNCHANGED <<topics, pos, index, stop, article, expired, seen_ids, sent, connected, counts>>

\* The topic is registered, or the ingestion API cannot be reached: a status either way.
Register ==
    /\ Running("register")
    /\ pc' = "welcome" /\ suspended' = TRUE
    /\ UNCHANGED <<topics, pos, threads, stop, article, expired, seen_ids, sent, connected, counts>>

\* Any other exception of the call (a slow answer, an answer that is no JSON) ends
\* the generator before its try block.
RegisterRaises ==
    /\ Running("register")
    /\ faults < MaxFaults
    /\ faults' = faults + 1
    /\ pc' = "ended"
    /\ UNCHANGED <<topics, pos, threads, stop, suspended, article, expired, seen_ids, sent,
                   connected, restarts>>

Resume ==
    /\ suspended
    /\ connected
    /\ suspended' = FALSE
    /\ pc' = IF pc = "welcome" THEN "follow" ELSE pc
    /\ UNCHANGED <<topics, pos, threads, stop, article, expired, seen_ids, sent, connected, counts>>

Introduction == {"start", "register", "welcome"}

\* The client has gone: the generator is closed at its yield.  Before the try block
\* nobody sets stop_event.
Close ==
    /\ suspended
    /\ ~connected
    /\ pc' = "ended" /\ suspended' = FALSE
    /\ stop' = (stop \/ pc \notin Introduction)
    /\ UNCHANGED <<topics, pos, threads, article, expired, seen_ids, sent, connected, counts>>

\* Mutant: an article is announced whenever its line comes up.
AlreadySeen(m) == m = NoId

\* Lines without an id, and articles seen before, are passed over.
Skip(m) == m = NoId \/ m \in seen_ids

NextLine == log[Raw][pos[Raw] + 1]

PassOver ==
    /\ Running("follow")
    /\ pos[Raw] < Len(log[Raw])
    /\ Skip(NextLine)
    /\ pos' = [pos EXCEPT ![Raw] = @ + 1]
    /\ UNCHANGED <<topics, threads, stop, generator, connected, counts>>

Announce ==
    /\ Running("follow")
    /\ pos[Raw] < Len(log[Raw])
    /\ ~Skip(NextLine)
    /\ pos' = [pos EXCEPT ![Raw] = @ + 1]
    /\ article' = NextLine
    /\ seen_ids' = seen_ids \cup {article'}
    /\ send("step1", article', 0)
    /\ pc' = IF article' \in Accepted THEN "step2" ELSE "follow"
    /\ suspended' = TRUE /\ expired' = FALSE
    /\ UNCHANGED <<topics, threads, stop, connected, counts>>

\* The subprocess of the generator ends: it sleeps and reads from the start again.
FollowAgain ==
    /\ Running("follow")
    /\ restarts < MaxRestarts
    /\ restarts' = restarts + 1
    /\ pos' = [pos EXCEPT ![Raw] = 0]
    /\ UNCHANGED <<topics, threads, stop, generator, connected, faults>>

Expire ==
    /\ pc \in {"step2", "step3"} /\ ~suspended
    /\ ~expired
    /\ expired' = TRUE
    /\ UNCHANGED <<topics, pos, threads, stop, pc, suspended, article, seen_ids, sent,
                   connected, counts>>

Awaited == IF pc = "step2" THEN Entity ELSE Graph

\* wait_for_article finds the message, also after the deadline.
Found ==
    /\ pc \in {"step2", "step3"} /\ ~suspended
    /\ index[Awaited][article] # 0
    /\ send(pc, article, index[Awaited][article])
    /\ pc' = IF pc = "step2" THEN "step3" ELSE "step4"
    /\ suspended' = TRUE /\ expired' = FALSE
    /\ UNCHANGED <<topics, pos, threads, stop, article, seen_ids, connected, counts>>

\* Mutant: after a timeout of step 2 the stream goes on to step 3.
TimeOutWithoutContinue ==
    /\ pc \in {"step2", "step3"} /\ ~suspended
    /\ index[Awaited][article] = 0
    /\ expired
    /\ send("timeout", article, 0)
    /\ pc' = IF pc = "step2" THEN "step3" ELSE "follow"
    /\ suspended' = TRUE
    /\ UNCHANGED <<topics, pos, threads, stop, article, expired, seen_ids, connected, counts>>

\* Mutant: the wait for the graph change has no deadline.
TimeOutOfStep2 ==
    /\ pc = "step2" /\ ~suspended
    /\ index[Awaited][article] = 0
    /\ expired
    /\ send("timeout", article, 0)
    /\ pc' = "follow" /\ suspended' = TRUE
    /\ UNCHANGED <<topics, pos, threads, stop, article, expired, seen_ids, connected, counts>>

\* The deadline counts only after another look at the index.
TimeOut ==
    /\ pc \in {"step2", "step3"} /\ ~suspended
    /\ index[Awaited][article] = 0
    /\ expired
    /\ send("timeout", article, 0)
    /\ pc' = "follow" /\ suspended' = TRUE
    /\ UNCHANGED <<topics, pos, threads, stop, article, expired, seen_ids, connected, counts>>

\* The graph of the moment, or an error in its place.
ShowGraph ==
    /\ Running("step4")
    /\ \E kind \in {"step4", "error"} : send(kind, article, 0)
    /\ pc' = "follow" /\ suspended' = TRUE
    /\ UNCHANGED <<topics, pos, threads, stop, article, expired, seen_ids, connected, counts>>

\* An exception inside the try block (a payload without numbers, no docker): one last
\* event, and the end.
Raise ==
    /\ pc \in {"follow", "step2", "step3"} /\ ~suspended
    /\ faults < MaxFaults
    /\ faults' = faults + 1
    /\ pc' = "crashed" /\ suspended' = TRUE
    /\ UNCHANGED <<topics, pos, threads, stop, article, expired, seen_ids, sent, connected, restarts>>

End ==
    /\ Running("crashed")
    /\ pc' = "ended"
    /\ stop' = TRUE
    /\ UNCHANGED <<topics, pos, threads, suspended, article, expired, seen_ids, sent, connected, counts>>

-----------------------------------------------------------------------------
Thread(t) == Read(t) \/ Restart(t)

event_stream ==
    \/ Begin \/ Register \/ Resume \/ Close
    \/ PassOver \/ Announce \/ Found \/ TimeOut \/ ShowGraph
    \/ End

Next ==
    \/ \E t \in Topics, m \in Articles \cup {NoId} : Publish(t, m)
    \/ Leave
    \/ \E t \in Indexed : Thread(t) \/ EndOfFile(t) \/ ReaderDies(t)
    \/ event_stream
    \/ RegisterRaises \/ FollowAgain \/ Expire \/ Raise

Spec == Init /\ [][Next]_vars

\* The threads and the generator run, and time passes.
FairSpec ==
    /\ Spec
    /\ \A t \in Indexed : WF_vars(Thread(t))
    /\ WF_vars(event_stream)
    /\ WF_vars(Expire)

-----------------------------------------------------------------------------
(* Properties.                                                             *)

Kinds == {"step1", "step2", "step3", "step4", "timeout", "error"}

TypeOK ==
    /\ log \in [Topics -> Seq(Articles \cup {NoId})]
    /\ pos \in [Topics -> Nat] /\ \A t \in Topics : pos[t] <= Len(log[t])
    /\ reader \in [Indexed -> {"new", "reading", "sleeping", "stopped", "dead"}]
    /\ index \in [Indexed -> [Articles -> Nat]]
    /\ pc \in Introduction \cup {"follow", "step2", "step3", "step4", "crashed", "ended"}
    /\ {stop, suspended, expired, connected} \subseteq BOOLEAN
    /\ article \in Articles \cup {NoId} /\ (pc \in {"step2", "step3", "step4"} => article \in Accepted)
    /\ seen_ids \subseteq Articles
    /\ sent \in Seq([kind : Kinds, article : Articles, shown : Nat])
    /\ restarts \in 0..MaxRestarts /\ faults \in 0..MaxFaults

\* The places of the announcements among the events, and the articles announced
\* before the n-th event.
Announcements == {i \in 1..Len(sent) : sent[i].kind = "step1"}
AnnouncedBefore(n) == {sent[i].article : i \in {j \in Announcements : j < n}}

\* The ids in the first n lines of raw_ingestion.
Ids(n) == {log[Raw][k] : k \in 1..n} \ {NoId}

\* However often a subprocess ends and the topic is read again from its start, the
\* stream announces every article once, in the order in which the ids come up in
\* raw_ingestion, and leaves none out (seen_ids against --offset start).
AnnouncedOnceInOrder ==
    /\ \A i \in Announcements : \E n \in 1..Len(log[Raw]) :
         /\ log[Raw][n] = sent[i].article
         /\ AnnouncedBefore(i) = Ids(n - 1)
         /\ sent[i].article \notin AnnouncedBefore(i)
    /\ Ids(pos[Raw]) \subseteq AnnouncedBefore(Len(sent) + 1)

\* Which event may come after which one of the same article, and which ones are the last.
Successions == { <<"step1", "step2">>, <<"step1", "timeout">>, <<"step2", "step3">>,
                 <<"step2", "timeout">>, <<"step3", "step4">>, <<"step3", "error">> }
IsLast(e) == e.kind \in {"timeout", "step4", "error"} \/ (e.kind = "step1" /\ e.article \notin Accepted)

\* An accepted article goes through its steps in order, alone and once: a timeout, or
\* the graph, is its last event, and the next article is announced only after that.
OneArticleAtATime ==
    /\ \A i, j \in Announcements : sent[i].article = sent[j].article => i = j
    /\ \A i \in 1..Len(sent) :
         \/ sent[i].kind = "step1" /\ (i > 1 => IsLast(sent[i - 1]))
         \/ /\ i > 1 /\ sent[i].article = sent[i - 1].article /\ sent[i].article \in Accepted
            /\ <<sent[i - 1].kind, sent[i].kind>> \in Successions

LastLine(t, a, n) ==
    LET lines == {i \in 1..n : log[t][i] = a}
    IN  IF lines = {} THEN 0 ELSE CHOOSE i \in lines : \A j \in lines : j <= i

\* A thread keeps the newest message of every article it has read since its subprocess
\* started, and one from an earlier subprocess until then; what is shown was read.
IndexFollowsTheTopic ==
    /\ \A t \in Indexed, a \in Articles :
         /\ LastLine(t, a, pos[t]) # 0 => index[t][a] = LastLine(t, a, pos[t])
         /\ index[t][a] # 0 => log[t][index[t][a]] = a
    /\ \A i \in 1..Len(sent) :
         /\ sent[i].kind = "step2" => log[Entity][sent[i].shown] = sent[i].article
         /\ sent[i].kind = "step3" => log[Graph][sent[i].shown] = sent[i].article

\* A stream that has sent an article tells its threads to stop when it ends, whether the
\* client leaves or something raises.  (One that ends in its introduction does not.)
EndStopsTheThreads == pc = "ended" /\ sent # <<>> => stop

\* A thread that was told to stop, or whose stream has ended after its first article, ends
\* with the next line of its topic at the latest.
ThreadsEnd ==
    \A t \in Indexed :
        ((stop \/ (pc = "ended" /\ sent # <<>>)) /\ pos[t] < Len(log[t]))
            ~> (reader[t] \in {"stopped", "dead"})

\* An accepted article of raw_ingestion comes to its last event, although each one waits
\* for those before it and a thread may be dead, unless the stream ends before.
EveryArticleEnds ==
    \A a \in Accepted :
        Contains(log[Raw], a) ~>
            \/ pc \in {"crashed", "ended"} \/ ~connected
            \/ \E i \in 1..Len(sent) :
                 sent[i].article = a /\ sent[i].kind \in {"timeout", "step4", "error"}
=============================================================================
