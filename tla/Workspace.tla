----------------------------- MODULE Workspace -----------------------------
(***************************************************************************)
(* The conversation on the screen (use-conversation.ts and the handlers of *)
(* workspace.tsx).  A conversation and its thread are one here; each lives *)
(* on one datasource.                                                      *)
(*                                                                         *)
(* Browser code runs to its next await without interruption, and a request *)
(* that is aborted settles before the next event.  At most one question is *)
(* in flight, because ask and retry are disabled while isBusy; transcripts *)
(* and lists may be in flight beside it and beside each other.             *)
(***************************************************************************)
EXTENDS Naturals, Sequences, FiniteSets

CONSTANTS
    Stored,        \* conversations of earlier days
    Minted,        \* conversations the server may still create, in order
    SourceOf,      \* the datasource of each stored conversation
    Sources,
    Ids,           \* ids of new exchanges; as many fit on the screen
    None

VARIABLES
    screen,        \* [thread, conversation, source]: threadRef, conversationId, dataSourceId
    exchanges,     \* sequence of [id, thread, source, state]
    inflight,      \* None or [id, thread, source]: the question being answered
    opening,       \* set of conversations whose transcript is being fetched
    adopting,      \* set of threads looked up after their first answer
    home,          \* the datasource each thread was first asked on, or None
    strayed        \* since the screen was last cleared with nothing on its way, a
                   \* transcript failed to load, or the user went on while an
                   \* answer that sets the conversation was on its way

workspaceVars == <<screen, exchanges, inflight, opening, adopting, home, strayed>>

Threads == Stored \cup {Minted[i] : i \in DOMAIN Minted}

WorkspaceInit ==
    /\ screen \in [thread : {None}, conversation : {None}, source : Sources]
    /\ exchanges = <<>>
    /\ inflight = None
    /\ opening = {} /\ adopting = {}
    /\ home = [t \in Threads |-> IF t \in Stored THEN SourceOf[t] ELSE None]
    /\ strayed = FALSE

(* The user goes on while one of these is on its way.                      *)
Ignoring(fetches) == strayed' = (strayed \/ fetches # {})

Settle(id, state) ==
    [i \in DOMAIN exchanges |->
        IF exchanges[i].id = id THEN [exchanges[i] EXCEPT !.state = state] ELSE exchanges[i]]

----------------------------------------------------------------------------
(* run: the question goes out on the thread of the moment.                 *)
Post(id, source) == inflight' = [id |-> id, thread |-> screen.thread, source |-> source]

FreshId == CHOOSE id \in Ids : \A i \in DOMAIN exchanges : exchanges[i].id # id

Ask ==
    /\ inflight = None
    /\ Len(exchanges) < Cardinality(Ids)
    /\ exchanges' = Append(exchanges, [id |-> FreshId, thread |-> screen.thread,
                                       source |-> screen.source, state |-> "pending"])
    /\ Post(FreshId, screen.source)
    /\ Ignoring(opening)
    /\ UNCHANGED <<screen, opening, adopting, home>>

Retry(i) ==
    /\ inflight = None
    /\ exchanges[i].state \in {"failed", "cancelled"}
    /\ exchanges' = Settle(exchanges[i].id, "pending")
    /\ Post(exchanges[i].id, exchanges[i].source)
    /\ Ignoring(opening)
    /\ UNCHANGED <<screen, opening, adopting, home>>

(* The server answers on the thread it was given or on one it mints.       *)
Answer ==
    /\ inflight # None
    /\ \E t \in Threads :
          /\ IF inflight.thread # None THEN t = inflight.thread
             ELSE \E n \in DOMAIN Minted :
                     /\ t = Minted[n] /\ home[t] = None
                     /\ \A k \in 1..(n - 1) : home[Minted[k]] # None
          /\ home' = [home EXCEPT ![t] = IF @ = None THEN inflight.source ELSE @]
          /\ screen' = [screen EXCEPT !.thread = t]
          /\ exchanges' = [i \in DOMAIN exchanges |->
                 IF exchanges[i].id = inflight.id
                 THEN [exchanges[i] EXCEPT !.state = "answered", !.thread = t]
                 ELSE exchanges[i]]
          /\ adopting' = IF screen.thread = None THEN adopting \cup {t} ELSE adopting
    /\ inflight' = None
    /\ UNCHANGED <<opening, strayed>>

(* A failure, or Stop: the exchange says so, nothing else changes.         *)
Fail ==
    /\ inflight # None
    /\ exchanges' = Settle(inflight.id, "failed")
    /\ inflight' = None
    /\ UNCHANGED <<screen, opening, adopting, home, strayed>>

Cancel ==
    /\ inflight # None
    /\ exchanges' = Settle(inflight.id, "cancelled")
    /\ inflight' = None
    /\ UNCHANGED <<screen, opening, adopting, home, strayed>>

----------------------------------------------------------------------------
(* onThreadEstablished: the list comes back with or without the new row.   *)
Adopt(t) ==
    /\ t \in adopting
    /\ adopting' = adopting \ {t}
    /\ \/ screen' = [screen EXCEPT !.conversation = t]
       \/ UNCHANGED screen
    /\ UNCHANGED <<exchanges, inflight, opening, home, strayed>>

StartNewAnalysis_KeepsThread(source) ==
    /\ screen' = [screen EXCEPT !.conversation = None, !.source = source]
    /\ exchanges' = <<>>
    /\ inflight' = None
    /\ strayed' = (opening \cup adopting # {})
    /\ UNCHANGED <<opening, adopting, home>>

(* startNewAnalysis, by itself, after a change of datasource, or because   *)
(* the open conversation was archived: whatever is pending is aborted.     *)
StartNewAnalysis(source) ==
    /\ screen' = [thread |-> None, conversation |-> None, source |-> source]
    /\ exchanges' = <<>>
    /\ inflight' = None
    /\ strayed' = (opening \cup adopting # {})
    /\ UNCHANGED <<opening, adopting, home>>

(* openConversation up to its await; the thread stays that of before.      *)
Open(c) ==
    /\ home[c] # None /\ c \notin opening
    /\ screen' = [screen EXCEPT !.conversation = c]
    /\ exchanges' = <<>>
    /\ inflight' = None
    /\ opening' = opening \cup {c}
    /\ Ignoring(opening \cup adopting)
    /\ UNCHANGED <<adopting, home>>

(* The transcript arrives, with a question that was answered or not; or it *)
(* does not, and the screen says so.                                       *)
Restored(c) ==
    /\ c \in opening
    /\ opening' = opening \ {c}
    /\ \E answered \in BOOLEAN :
          exchanges' = <<[id |-> c, thread |-> c, source |-> home[c],
                          state |-> IF answered THEN "answered" ELSE "failed"]>>
    /\ screen' = [screen EXCEPT !.thread = c, !.source = home[c]]
    /\ UNCHANGED <<inflight, adopting, home, strayed>>

RestoreFails(c) ==
    /\ c \in opening
    /\ opening' = opening \ {c}
    /\ strayed' = TRUE
    /\ UNCHANGED <<screen, exchanges, inflight, adopting, home>>

WorkspaceNext ==
    \/ Ask \/ Answer \/ Fail \/ Cancel
    \/ \E i \in DOMAIN exchanges : Retry(i)
    \/ \E source \in Sources : StartNewAnalysis(source)
    \/ \E t \in Threads : Adopt(t) \/ Open(t) \/ Restored(t) \/ RestoreFails(t)

WorkspaceSpec == WorkspaceInit /\ [][WorkspaceNext]_workspaceVars

----------------------------------------------------------------------------
(* Whatever the user does, an exchange shown as pending is the one being   *)
(* answered, so that Stop reaches it and none is pending for ever (run,    *)
(* cancel).                                                                *)
PendingIsInFlight ==
    \A i \in DOMAIN exchanges :
        exchanges[i].state = "pending" <=> inflight # None /\ inflight.id = exchanges[i].id

(* The converse: the question being answered is on the screen, and its     *)
(* answer will be.                                                         *)
InFlightIsShown ==
    inflight # None => \E i \in DOMAIN exchanges : exchanges[i].id = inflight.id

(* Conversation, thread, datasource and exchanges on the screen belong     *)
(* together, and a question goes out on them and stays among them.         *)
Together ==
    /\ opening = {} => screen.conversation \in {screen.thread, None}
    /\ screen.thread # None => home[screen.thread] = screen.source
    /\ \A i \in DOMAIN exchanges :
          exchanges[i].thread \in {screen.thread, None} /\ exchanges[i].source = screen.source
    /\ inflight # None => inflight.thread = screen.thread /\ inflight.source = screen.source
    /\ InFlightIsShown

(* As long as every transcript loads and the user waits for it, the screen *)
(* shows one conversation and continues that one, with the question in     *)
(* flight on it (run, startNewAnalysis, openConversation).  What happens   *)
(* when the user does not wait is the subject of the properties below.     *)
ScreenIsOneConversation ==
    ~strayed => Together

(* "A new chat cannot silently continue the previous conversation's        *)
(* analytical context" (use-conversation.ts:284).                          *)
NewChatIsNew ==
    screen.conversation = None => screen.thread \notin Stored

(* "One question and its outcome" (use-conversation.ts:26), of what the    *)
(* ledger shows.  A transcript that arrives replaces the exchanges, also   *)
(* the one being answered; its outcome is then shown nowhere.              *)
QuestionKeepsItsOutcome == InFlightIsShown

(* "the follow-up the user types next continues the same analytical        *)
(* context that produced the history they are looking at"                  *)
(* (use-conversation.ts:302).  The answer to a question that a transcript  *)
(* replaced sets the thread it was asked on.                               *)
FollowUpContinuesHistory ==
    opening = {} /\ inflight = None =>
        \A i \in DOMAIN exchanges : exchanges[i].thread \in {screen.thread, None}

----------------------------------------------------------------------------
(* The inductive invariant. *)
Shown == [id : Ids \cup Threads, thread : Threads \cup {None}, source : Sources,
          state : {"pending", "answered", "failed", "cancelled"}]

Outgoing == [id : Ids \cup Threads, thread : Threads \cup {None}, source : Sources]

(* A new exchange gets an id of its own (newId of use-conversation.ts).    *)
ScreenSettings ==
    /\ IsFiniteSet(Ids) /\ Ids \cap Threads = {}
    /\ SourceOf \in [Stored -> Sources]
    /\ None \notin Threads \cup Sources /\ None \notin Outgoing

ScreenTyped ==
    /\ screen \in [thread : Threads \cup {None}, conversation : Threads \cup {None},
                   source : Sources]
    /\ exchanges \in Seq(Shown)
    /\ inflight \in Outgoing \cup {None}
    /\ opening \subseteq Threads /\ adopting \subseteq Threads
    /\ home \in [Threads -> Sources \cup {None}]
    /\ strayed \in BOOLEAN

(* A conversation being opened exists, and nothing of it is on the screen  *)
(* or in flight, so that its transcript cannot come beside itself.         *)
OpenedIsAway ==
    \A c \in opening :
        /\ home[c] # None
        /\ \A i \in DOMAIN exchanges : exchanges[i].id # c
        /\ inflight # None => inflight.id # c

(* While the user waits, a transcript on its way is that of the            *)
(* conversation on the screen, which is empty, and a thread looked up is   *)
(* the one on it.                                                          *)
Waited ==
    /\ adopting \subseteq {screen.thread}
    /\ opening # {} =>
          /\ opening = {screen.conversation}
          /\ exchanges = <<>> /\ inflight = None /\ adopting = {}

ScreenInv ==
    /\ ScreenTyped /\ OpenedIsAway /\ PendingIsInFlight
    /\ ~strayed => Together /\ Waited
=============================================================================
