--------------------------- MODULE Conversations ---------------------------
(***************************************************************************)
(* The transcript of an analysis request: query_analytics                  *)
(* (app/api/routes.py) answers and then records the turn under its thread, *)
(* statement by statement against the conversation tables                  *)
(* (app/knowledge/postgres_conversations.py); app/api/conversation_routes  *)
(* lists, reads by page, renames and archives what was recorded.           *)
(*                                                                         *)
(* thread_id is UNIQUE, so a conversation is identified by its thread, and *)
(* (conversation_id, sequence) is UNIQUE, so of two turns that computed    *)
(* the same next sequence the later one fails as a whole.  What a turn     *)
(* does between routing and its answer is the module AgentTurn.            *)
(***************************************************************************)
EXTENDS Naturals, Sequences, FiniteSets, FiniteSetsExt

CONSTANTS
    Requests,  \* analysis requests, each handled once
    Subjects,  \* authenticated subjects
    Sources,   \* datasources
    Threads,   \* thread keys
    Asks,      \* what the requests may carry, in [Requests -> Ask]
    Page,      \* messages per page of a reader
    None       \* no conversation

VARIABLES
    conv,    \* knowledge.conversations, by thread
    msgs,    \* knowledge.conversation_messages, by thread
    req,     \* the requests in flight
    reader   \* a client paging through a transcript

vars == <<conv, msgs, req, reader>>

Ask == [subject : Subjects, source : Sources, thread : Threads]

Conversation == [owner : Subjects, source : Sources, archived : BOOLEAN,
                 titled : Requests \cup {"renamed"}]

Message == [seq : Nat, role : {"user", "assistant"}, request : Requests]

Steps == {"start", "graph", "lookup", "insert", "reread", "next", "append"}
Ends == {"error", "asked_back", "saved", "warned"}

Request == [pc : Steps \cup Ends, ask : Ask, start : Nat]

Reader == [thread : Threads \cup {None}, shown : Seq(Nat), more : BOOLEAN, newest : Nat]

TranscriptTyped ==
    /\ conv \in [Threads -> Conversation \cup {None}]
    /\ msgs \in [Threads -> SUBSET Message]
    /\ req \in [Requests -> Request]
    /\ reader \in Reader

Closed == [thread |-> None, shown |-> <<>>, more |-> FALSE, newest |-> 0]

Init ==
    /\ conv = [t \in Threads |-> None]
    /\ msgs = [t \in Threads |-> {}]
    /\ \E a \in Asks : req = [r \in Requests |->
                                [pc |-> "start", ask |-> a[r], start |-> 0]]
    /\ reader = Closed

----------------------------------------------------------------------------
Goto(r, pc) == req' = [req EXCEPT ![r].pc = pc]

(* Until the graph runs: the selected datasource may be unavailable (no    *)
(* other one is read instead), and a period that cannot be resolved is     *)
(* answered with a question, which no transcript records.                  *)
Prepare(r) ==
    /\ req[r].pc = "start"
    /\ \E pc \in {"error", "asked_back", "graph"} : Goto(r, pc)
    /\ UNCHANGED <<conv, msgs, reader>>

(* The graph's result, or the normalized error of it.  Quality, provenance *)
(* and trace complete the response before the turn is recorded.            *)
Answer(r) ==
    /\ req[r].pc = "graph"
    /\ \E pc \in {"error", "lookup"} : Goto(r, pc)
    /\ UNCHANGED <<conv, msgs, reader>>

(* Where a turn goes once the row that owns its thread is known: a thread  *)
(* of another subject or another datasource is left alone.                 *)
Checked(r) ==
    LET a == req[r].ask
        c == conv[a.thread]
    IN IF c.owner = a.subject /\ c.source = a.source THEN "next" ELSE "warned"

(* by_thread                                                               *)
Lookup(r) ==
    /\ req[r].pc = "lookup"
    /\ Goto(r, IF conv[req[r].ask.thread] = None THEN "insert" ELSE Checked(r))
    /\ UNCHANGED <<conv, msgs, reader>>

(* create: INSERT ... ON CONFLICT (thread_id) DO NOTHING, titled by the    *)
(* question.                                                               *)
Create(r) ==
    LET a == req[r].ask
    IN /\ req[r].pc = "insert"
       /\ conv' = [conv EXCEPT ![a.thread] =
                     IF @ # None THEN @
                     ELSE [owner |-> a.subject, source |-> a.source,
                           archived |-> FALSE, titled |-> r]]
       /\ Goto(r, "reread")
       /\ UNCHANGED <<msgs, reader>>

(* create returns whichever row owns the thread now.                       *)
Reread(r) ==
    /\ req[r].pc = "reread"
    /\ Goto(r, Checked(r))
    /\ UNCHANGED <<conv, msgs, reader>>

Sequences(t) == {m.seq : m \in msgs[t]}

(* coalesce(max(sequence) + 1, 0)                                          *)
NextSequence(t) ==
    IF msgs[t] = {} THEN 0 ELSE Max(Sequences(t)) + 1

(* append_turn reads the next sequence ...                                 *)
ReadNext(r) ==
    /\ req[r].pc = "next"
    /\ req' = [req EXCEPT ![r].pc = "append",
                          ![r].start = NextSequence(req[r].ask.thread)]
    /\ UNCHANGED <<conv, msgs, reader>>

Turn(r, start) ==
    {[seq |-> start, role |-> "user", request |-> r],
     [seq |-> start + 1, role |-> "assistant", request |-> r]}

AppendTurn_OneByOne(r) ==
    LET t == req[r].ask.thread
        taken(m) == m.seq \in Sequences(t)
    IN /\ req[r].pc = "append"
       /\ \E cut \in BOOLEAN :
            /\ msgs' = [msgs EXCEPT ![t] = @ \cup
                 {m \in Turn(r, req[r].start) :
                    ~ taken(m) /\ (cut => m.role = "user")}]
            /\ Goto(r, IF cut THEN "warned" ELSE "saved")
       /\ UNCHANGED <<conv, reader>>

(* ... and inserts question and answer in the same transaction.  A         *)
(* sequence that is taken by now aborts it; a commit whose acknowledgement *)
(* is lost is reported as a failure although both rows are there.          *)
AppendTurn(r) ==
    LET t == req[r].ask.thread
        free == \A m \in Turn(r, req[r].start) : m.seq \notin Sequences(t)
    IN /\ req[r].pc = "append"
       /\ msgs' = [msgs EXCEPT ![t] =
                     IF free THEN @ \cup Turn(r, req[r].start) ELSE @]
       /\ \E pc \in {"saved", "warned"} :
            /\ pc = "saved" => free
            /\ Goto(r, pc)
       /\ UNCHANGED <<conv, reader>>

(* Any statement of _record_conversation_turn raises: the answer is        *)
(* returned with a warning.                                                *)
StoreFails(r) ==
    /\ req[r].pc \in {"lookup", "insert", "reread", "next", "append"}
    /\ Goto(r, "warned")
    /\ UNCHANGED <<conv, msgs, reader>>

----------------------------------------------------------------------------
(* rename_conversation: of the owner's row, archived or not.               *)
Rename(s, t) ==
    /\ conv[t] # None
    /\ conv[t].owner = s
    /\ conv' = [conv EXCEPT ![t].titled = "renamed"]
    /\ UNCHANGED <<msgs, req, reader>>

(* archive_conversation: UPDATE ... WHERE archived_at IS NULL, else 404.   *)
Archive(s, t) ==
    /\ conv[t] # None
    /\ conv[t].owner = s
    /\ ~ conv[t].archived
    /\ conv' = [conv EXCEPT ![t].archived = TRUE]
    /\ UNCHANGED <<msgs, req, reader>>

(* list_conversations: what the subject's sidebar shows.                   *)
Listed(s) == {t \in Threads : /\ conv[t] # None
                              /\ conv[t].owner = s
                              /\ ~ conv[t].archived}

(* The numbers of a set, smallest first: the i-th has i - 1 smaller ones.  *)
Ascending(S) ==
    [i \in 1..Cardinality(S) |-> CHOOSE n \in S : Cardinality({m \in S : m < n}) = i - 1]

(* store.messages: the newest Page messages below before, oldest first.    *)
MessagesBefore(t, before) ==
    LET older == Ascending({n \in Sequences(t) : n < before})
    IN SubSeq(older, IF Len(older) > Page THEN Len(older) - Page + 1 ELSE 1,
              Len(older))

(* has_more: older turns exist above the first one returned.               *)
HasMore(page) == page # <<>> /\ page[1] > 0

(* read_conversation without before: the client opens a listed transcript. *)
Open(s, t) ==
    /\ reader = Closed
    /\ t \in Listed(s)
    /\ LET page == MessagesBefore(t, NextSequence(t))
       IN reader' = [thread |-> t, shown |-> page, more |-> HasMore(page),
                     newest |-> NextSequence(t)]
    /\ UNCHANGED <<conv, msgs, req>>

(* read_conversation with before = the oldest sequence shown.              *)
LoadOlder ==
    /\ reader.more
    /\ LET page == MessagesBefore(reader.thread, reader.shown[1])
       IN reader' = [reader EXCEPT !.shown = page \o @, !.more = HasMore(page)]
    /\ UNCHANGED <<conv, msgs, req>>

Step(r) ==
    \/ Prepare(r) \/ Answer(r) \/ Lookup(r) \/ Create(r) \/ Reread(r)
    \/ ReadNext(r) \/ AppendTurn(r) \/ StoreFails(r)

Next ==
    \/ \E r \in Requests : Step(r)
    \/ \E s \in Subjects, t \in Threads :
         Rename(s, t) \/ Archive(s, t) \/ Open(s, t)
    \/ LoadOlder

Spec == Init /\ [][Next]_vars

----------------------------------------------------------------------------
(* A transcript is what was asked and answered, in order: sequences        *)
(* without gap or repetition, every question followed by its own answer,   *)
(* all of them asked by the conversation's owner of the conversation's     *)
(* datasource, however the turns of a thread race.                         *)
TranscriptIsWhole ==
    \A t \in Threads :
        /\ Sequences(t) = 0..(Cardinality(msgs[t]) - 1)
        /\ \A m \in msgs[t] :
             LET a == req[m.request].ask
             IN /\ m.role = (IF m.seq % 2 = 0 THEN "user" ELSE "assistant")
                /\ Turn(m.request, m.seq - (m.seq % 2)) \subseteq msgs[t]
                /\ conv[t] # None
                /\ <<conv[t].owner, conv[t].source, t>> = <<a.subject, a.source, a.thread>>

(* An answer returned without the warning is in the transcript of its      *)
(* thread, once, and stays there.                                          *)
SavedOrWarned ==
    \A r \in Requests :
        req[r].pc = "saved" =>
            \E start \in Sequences(req[r].ask.thread) :
                {m \in msgs[req[r].ask.thread] : m.request = r} = Turn(r, start)

(* Pages loaded one above the other join without a gap or an overlap,      *)
(* although turns are appended meanwhile: what is shown is one run of      *)
(* sequences up to the newest at opening, and it starts at the first turn  *)
(* once no more is offered.                                                *)
PagesAreSeamless ==
    reader.thread # None =>
        LET n == Len(reader.shown)
        IN /\ \A i \in 1..n : reader.shown[i] = reader.newest - 1 - n + i
           /\ ~ reader.more => n = reader.newest

----------------------------------------------------------------------------
(* The inductive invariant.                                                *)
TranscriptSettings ==
    /\ Asks \subseteq [Requests -> Ask]
    /\ Page \in Nat \ {0}
    /\ None \notin Conversation \cup Threads

(* A transcript has n messages, in pairs, numbered from 0.                 *)
Numbered(t, n) ==
    /\ IsFiniteSet(msgs[t]) /\ Cardinality(msgs[t]) = n
    /\ Sequences(t) = 0..(n - 1)
    /\ n % 2 = 0

(* A message stands beside its other half, under the thread, subject and   *)
(* datasource of its request.                                              *)
Placed(m, t) ==
    LET a == req[m.request].ask
    IN /\ m.role = (IF m.seq % 2 = 0 THEN "user" ELSE "assistant")
       /\ Turn(m.request, m.seq - (m.seq % 2)) \subseteq msgs[t]
       /\ conv[t] # None
       /\ <<conv[t].owner, conv[t].source, t>> = <<a.subject, a.source, a.thread>>

(* A request that is about to append knows that the thread is its own, and *)
(* a sequence the transcript had reached; it has no messages before it has *)
(* appended, and its turn, once, after.                                    *)
RequestSound(r) ==
    LET a == req[r].ask
    IN /\ req[r].pc \in {"reread", "next", "append"} => conv[a.thread] # None
       /\ req[r].pc \in {"next", "append"} =>
             conv[a.thread].owner = a.subject /\ conv[a.thread].source = a.source
       /\ req[r].pc = "append" =>
             /\ req[r].start <= Cardinality(msgs[a.thread])
             /\ req[r].start % 2 = 0
       /\ req[r].pc \notin {"saved", "warned"} =>
             \A t \in Threads : \A m \in msgs[t] : m.request # r
       /\ req[r].pc = "saved" =>
             \E start \in Sequences(a.thread) :
                {m \in msgs[a.thread] : m.request = r} = Turn(r, start)

(* What a reader is shown ends at the newest message of its opening.       *)
ReaderSound ==
    /\ reader.thread = None => ~ reader.more
    /\ reader.thread # None =>
          /\ reader.newest <= Cardinality(msgs[reader.thread])
          /\ Len(reader.shown) <= reader.newest
          /\ reader.more <=> Len(reader.shown) < reader.newest
          /\ reader.more => reader.shown # <<>>
          /\ \A i \in 1..Len(reader.shown) :
                reader.shown[i] = reader.newest - 1 - Len(reader.shown) + i

TranscriptInv ==
    /\ TranscriptTyped
    /\ \A t \in Threads : Numbered(t, Cardinality(msgs[t]))
    /\ \A t \in Threads : \A m \in msgs[t] : Placed(m, t)
    /\ \A r \in Requests : RequestSound(r)
    /\ ReaderSound

=============================================================================
