------------------------------- MODULE Events -------------------------------
(***************************************************************************)
(* One event: its row, its sessions, and the copy of it that Redis keeps   *)
(* for the public page.                                                    *)
(*                                                                         *)
(*   events.service.ts       create, findOne, update, remove, publish,     *)
(*                           addSpeaker, removeSpeaker, addSessionToEvent, *)
(*                           updateSession, deleteSession                  *)
(*   events-cron.service.ts  autoCompleteEvents                            *)
(*                                                                         *)
(* No handler opens a transaction.  Each loads the event, changes it in    *)
(* memory and saves every column it loaded; only some of them then delete  *)
(* the copy in Redis, and a visitor who loaded the row before may set it   *)
(* afterwards.  Two events share nothing but the table of locations.       *)
(***************************************************************************)
EXTENDS Integers, FiniteSets

CONSTANTS
    Speakers,   \* the table of speakers
    Sessions,   \* identifiers a session may get
    Rooms,      \* rooms a session may be given
    Clerks,     \* requests that change the event, served at the same time
    Visitors,   \* requests that read it
    Spans,      \* <<startAt, endAt>> that requests ask for
    Statuses,   \* statuses that requests ask for
    Agendas,    \* tables of sessions a run may begin with
    MaxTime,    \* bound: the clock stops there
    MaxChanges  \* bound: how many requests change something

EventStatus == {"DRAFT", "PUBLISHED", "COMPLETED", "CANCELLED", "ARCHIVED"}

ASSUME AgendaAssumption ==
    /\ IsFiniteSet(Sessions)
    /\ MaxTime \in Nat /\ MaxChanges \in Nat
    /\ Spans \subseteq (0..MaxTime) \X (0..MaxTime)
    /\ Statuses \subseteq EventStatus

VARIABLES
    event,     \* the row of the events table
    sessions,  \* the event_sessions table: identifier -> {} or {row}
    cache,     \* event:<id> in Redis: {} or {copy}
    editor,    \* per clerk: the event in memory
    planner,   \* per clerk: the session in memory
    missed,    \* visitors who found nothing in Redis
    visitor,   \* per visitor: the event it is about to put there
    sweep,     \* the batch of autoCompleteEvents()
    now,
    changes,   \* requests so far
    blind      \* {s, u}: the last save of s or u did not know the other

agendaVars == <<sessions, planner, blind>>
rowVars == <<event, editor, sweep>>
pageVars == <<cache, missed, visitor>>
eventVars == <<rowVars, agendaVars, pageVars, now, changes>>

Event == [active : BOOLEAN, status : EventStatus,
          span : Spans, speakers : SUBSET Speakers]

\* "NONE" stands for a session without a room.
Session == [room : Rooms \cup {"NONE"}, span : Spans,
            speakers : SUBSET Speakers]

\* An event as a handler is about to save it.  `guests': with its speakers.
\* A save in step "told" is done, and Redis remains to be told.
Edit == [step : {"save", "saveAndTell", "told"}, event : Event,
         guests : BOOLEAN]

\* A session as a handler is about to save or delete it, and the sessions it
\* has checked it against.
Plan == [id : Sessions, row : SUBSET Session,
         seen : [Sessions -> SUBSET Session]]

Intersect(a, b) == a[1] < b[2] /\ b[1] < a[2]

\* Two rows share a room at one time.
Clash(r, q) ==
    r.room # "NONE" /\ r.room = q.room /\ Intersect(r.span, q.span)

\* What a run begins with is an agenda as it should be.
ASSUME FirstAgendaAssumption ==
    /\ Agendas \subseteq [Sessions -> SUBSET Session]
    /\ \A S \in Agendas : \A s, u \in Sessions :
          /\ Cardinality(S[s]) <= 1
          /\ s # u => \A r \in S[s], q \in S[u] : ~Clash(r, q)

EventsTypeOK ==
    /\ event \in Event
    /\ sessions \in [Sessions -> SUBSET Session]
    /\ \A s \in Sessions : Cardinality(sessions[s]) <= 1
    /\ cache \subseteq Event
    /\ editor \in [Clerks -> SUBSET Edit]
    /\ planner \in [Clerks -> SUBSET Plan]
    /\ missed \subseteq Visitors
    /\ visitor \in [Visitors -> SUBSET Event]
    /\ sweep \subseteq Event
    /\ now \in 0..MaxTime
    /\ changes \in 0..MaxChanges
    /\ blind \subseteq SUBSET Sessions

-----------------------------------------------------------------------------
(***************************************************************************)
(* The row of the event                                                    *)
(***************************************************************************)

\* Editing the copy of the public page.
StoredMutant == IF cache = {} THEN event ELSE CHOOSE e \in cache : TRUE

\* eventRepository.findOne(): the handlers read the table, never Redis.
Stored == event

Idle(c) == editor[c] = {} /\ planner[c] = {}

\* Clerk c begins a request.
Ask(c) ==
    /\ Idle(c)
    /\ changes < MaxChanges
    /\ changes' = changes + 1

\* Clerk c holds event e, changed, and will save it.
Hold(c, e, guests, step) ==
    /\ Ask(c)
    /\ editor' = [editor EXCEPT ![c] =
                     {[step |-> step, event |-> e, guests |-> guests]}]
    /\ UNCHANGED <<event, sweep, agendaVars, pageVars, now>>

\* update() with any of status, dates and speakers; preload() reads the row
\* again after the check, and only what is given replaces what it read.
UpdateRead(c) ==
    /\ Stored.active
    /\ \E status \in Statuses \cup {Stored.status},
          span \in Spans, speakers \in SUBSET Speakers, guests \in BOOLEAN :
          Hold(c, [Stored EXCEPT !.status = status, !.span = span,
                                 !.speakers = IF guests THEN speakers ELSE @],
               guests, "saveAndTell")

\* remove(): a soft delete.
RemoveRead(c) ==
    /\ Stored.active
    /\ Hold(c, [Stored EXCEPT !.active = FALSE], FALSE, "saveAndTell")

\* publish(): a draft that has not begun.
PublishRead(c) ==
    /\ Stored.active
    /\ Stored.status = "DRAFT"
    /\ Stored.span[1] >= now
    /\ Hold(c, [Stored EXCEPT !.status = "PUBLISHED"], FALSE, "saveAndTell")

\* addSpeaker() and removeSpeaker() leave Redis alone.
AddSpeakerRead(c, p) ==
    /\ Stored.active
    /\ p \notin Stored.speakers
    /\ Hold(c, [Stored EXCEPT !.speakers = @ \cup {p}], TRUE, "save")

RemoveSpeakerRead(c, p) ==
    /\ Stored.active
    /\ Hold(c, [Stored EXCEPT !.speakers = @ \ {p}], TRUE, "save")

\* The row once e is saved; a relation that was not loaded is not touched.
Saved(e, guests) == IF guests THEN e ELSE [e EXCEPT !.speakers = event.speakers]

EventSave(c) ==
    \E t \in editor[c] :
        /\ t.step # "told"
        /\ event' = Saved(t.event, t.guests)
        /\ editor' = [editor EXCEPT ![c] =
                         IF t.step = "save" THEN {}
                         ELSE {[t EXCEPT !.step = "told"]}]
        /\ UNCHANGED <<sweep, agendaVars, pageVars, now, changes>>

\* invalidateEventCache()
Invalidate(c) ==
    /\ \E t \in editor[c] : t.step = "told"
    /\ cache' = {}
    /\ editor' = [editor EXCEPT ![c] = {}]
    /\ UNCHANGED <<event, sweep, agendaVars, missed, visitor, now, changes>>

\* autoCompleteEvents(): what is published and over.
SweepRead ==
    /\ sweep = {}
    /\ event.active
    /\ event.status = "PUBLISHED"
    /\ event.span[2] < now
    /\ sweep' = {event}
    /\ UNCHANGED <<event, editor, agendaVars, pageVars, now, changes>>

\* ... with a status of another table.
SweepSaveMutant ==
    \E e \in sweep :
        /\ event' = Saved([e EXCEPT !.status = "FINISHED"], FALSE)
        /\ sweep' = {}
        /\ UNCHANGED <<editor, agendaVars, pageVars, now, changes>>

SweepSave ==
    \E e \in sweep :
        /\ event' = Saved([e EXCEPT !.status = "COMPLETED"], FALSE)
        /\ sweep' = {}
        /\ UNCHANGED <<editor, agendaVars, pageVars, now, changes>>

-----------------------------------------------------------------------------
(***************************************************************************)
(* The public page                                                         *)
(***************************************************************************)

\* findOne() for everybody, drafts and what was removed included.
PublicMutant(e) == TRUE

Public(e) == e.active /\ e.status = "PUBLISHED"

\* findOne() looks into Redis first,
VisitMiss(v) ==
    /\ v \notin missed
    /\ visitor[v] = {}
    /\ cache = {}
    /\ missed' = missed \cup {v}
    /\ UNCHANGED <<rowVars, agendaVars, cache, visitor, now, changes>>

\* ... then into the table,
VisitLoad(v) ==
    /\ v \in missed
    /\ missed' = missed \ {v}
    /\ visitor' = [visitor EXCEPT ![v] = {e \in {event} : Public(e)}]
    /\ UNCHANGED <<rowVars, agendaVars, cache, now, changes>>

\* ... and leaves what it found in Redis.
VisitSet(v) ==
    /\ visitor[v] # {}
    /\ cache' = visitor[v]
    /\ visitor' = [visitor EXCEPT ![v] = {}]
    /\ UNCHANGED <<rowVars, agendaVars, missed, now, changes>>

\* EVENT_CACHE_TTL has passed.
Expire ==
    /\ cache # {}
    /\ cache' = {}
    /\ UNCHANGED <<rowVars, agendaVars, missed, visitor, now, changes>>

-----------------------------------------------------------------------------
(***************************************************************************)
(* The agenda                                                              *)
(***************************************************************************)

\* Without the case of a new session around an old one.
OverlapMutant(a, b) ==
    \/ a[1] >= b[1] /\ a[1] < b[2]
    \/ a[2] > b[1] /\ a[2] <= b[2]

\* "dos sesiones se solapan": session a against one that exists.
Overlap(a, b) ==
    \/ a[1] >= b[1] /\ a[1] < b[2]
    \/ a[2] > b[1] /\ a[2] <= b[2]
    \/ a[1] <= b[1] /\ a[2] >= b[2]

\* Row `row' may be session s of event e, beside the sessions of table S.
Fits(s, row, e, S) ==
    /\ row.span[1] < row.span[2]
    /\ row.span[1] >= e.span[1] /\ row.span[2] <= e.span[2]
    /\ row.room # "NONE" =>
          \A u \in Sessions \ {s} : \A r \in S[u] :
              r.room = row.room => ~Overlap(row.span, r.span)

\* Clerk c holds a row for session s, or none to delete it.
Propose(c, s, row) ==
    /\ Ask(c)
    /\ planner' = [planner EXCEPT ![c] =
                      {[id |-> s, row |-> row, seen |-> sessions]}]
    /\ UNCHANGED <<sessions, blind, rowVars, pageVars, now>>

\* A new row gets an identifier of its own.
Unused(s) ==
    sessions[s] = {} /\ \A c \in Clerks : \A t \in planner[c] : t.id # s

\* addSessionToEvent(), of an event that was removed too.
AddSessionRead(c, s) ==
    /\ Unused(s)
    /\ \E row \in Session :
          /\ row.speakers \subseteq event.speakers
          /\ Fits(s, row, event, sessions)
          /\ Propose(c, s, {row})

\* updateSession(): speakers that are not given stay unchecked.
UpdateSessionRead(c, s) ==
    /\ event.active
    /\ \E old \in sessions[s] : \E row \in Session :
          /\ row.speakers = old.speakers \/ row.speakers \subseteq event.speakers
          /\ Fits(s, row, event, sessions)
          /\ Propose(c, s, {row})

DeleteSessionRead(c, s) ==
    /\ event.active
    /\ sessions[s] # {}
    /\ Propose(c, s, {})

\* The save or the delete.  A row that was deleted meanwhile is inserted again.
SessionSave(c) ==
    \E t \in planner[c] :
        LET unknown == {u \in Sessions \ {t.id} : sessions[u] # t.seen[u]}
        IN  /\ sessions' = [sessions EXCEPT ![t.id] = t.row]
            /\ blind' = {p \in blind : t.id \notin p}
                          \cup {{t.id, u} : u \in unknown}
            /\ planner' = [planner EXCEPT ![c] = {}]
            /\ UNCHANGED <<rowVars, pageVars, now, changes>>

-----------------------------------------------------------------------------
(***************************************************************************)
(* The whole                                                               *)
(***************************************************************************)

Tick ==
    /\ now < MaxTime
    /\ now' = now + 1
    /\ UNCHANGED <<rowVars, agendaVars, pageVars, changes>>

\* A request that fails, or a round of the job.
ClerkFail(c) ==
    /\ ~Idle(c)
    /\ editor' = [editor EXCEPT ![c] = {}]
    /\ planner' = [planner EXCEPT ![c] = {}]
    /\ UNCHANGED <<event, sweep, sessions, blind, pageVars, now, changes>>

VisitFail(v) ==
    /\ v \in missed \/ visitor[v] # {}
    /\ missed' = missed \ {v}
    /\ visitor' = [visitor EXCEPT ![v] = {}]
    /\ UNCHANGED <<rowVars, agendaVars, cache, now, changes>>

SweepFail ==
    /\ sweep # {}
    /\ sweep' = {}
    /\ UNCHANGED <<event, editor, agendaVars, pageVars, now, changes>>

\* create() takes any status.  The run begins with some sessions there.
EventsInit ==
    /\ event \in [active : {TRUE}, status : Statuses, span : Spans,
                  speakers : SUBSET Speakers]
    /\ sessions \in Agendas
    /\ cache = {}
    /\ editor = [c \in Clerks |-> {}]
    /\ planner = [c \in Clerks |-> {}]
    /\ missed = {}
    /\ visitor = [v \in Visitors |-> {}]
    /\ sweep = {}
    /\ now = 0
    /\ changes = 0
    /\ blind = {}

EventsNext ==
    \/ \E c \in Clerks :
        \/ UpdateRead(c)
        \/ RemoveRead(c)
        \/ PublishRead(c)
        \/ \E p \in Speakers : AddSpeakerRead(c, p) \/ RemoveSpeakerRead(c, p)
        \/ EventSave(c)
        \/ Invalidate(c)
        \/ \E s \in Sessions :
              \/ AddSessionRead(c, s)
              \/ UpdateSessionRead(c, s)
              \/ DeleteSessionRead(c, s)
        \/ SessionSave(c)
        \/ ClerkFail(c)
    \/ \E v \in Visitors :
        VisitMiss(v) \/ VisitLoad(v) \/ VisitSet(v) \/ VisitFail(v)
    \/ Expire
    \/ SweepRead \/ SweepSave \/ SweepFail
    \/ Tick

\* Redis expires what has a time to live.
EventsSpec == EventsInit /\ [][EventsNext]_eventVars /\ WF_eventVars(Expire)

-----------------------------------------------------------------------------
(***************************************************************************)
(* Properties                                                              *)
(***************************************************************************)

\* The event was removed and no handler holds it as it was before.
Gone ==
    /\ ~event.active
    /\ \A c \in Clerks : \A t \in editor[c] : ~t.event.active
    /\ \A e \in sweep : ~e.active

\* remove() is final: only a request or a round that loaded the event before
\* can bring it back, never one that starts later, whatever Redis holds.
RemovedStays == [][Gone => Gone']_eventVars

\* "Validar solapamiento de sesiones en el mismo room": two sessions that
\* share a room at one time were saved by requests of which the later one had
\* read the agenda before the other was written.
OverlapsRaced ==
    \A s, u \in Sessions : s # u =>
        \A r \in sessions[s], q \in sessions[u] :
            Clash(r, q) => {s, u} \in blind

\* The public page comes right in the end: once nobody changes the event, the
\* copy in Redis is the row, published and active, or there is none, although
\* handlers forget to delete it and visitors put old copies back.
CacheSettles ==
    <>[](\A e \in cache : e = event /\ e.active /\ e.status = "PUBLISHED")

=============================================================================
