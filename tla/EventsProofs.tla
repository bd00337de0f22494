---------------------------- MODULE EventsProofs ----------------------------
(***************************************************************************)
(* The event, its agenda and its public page, for every number of clerks,  *)
(* visitors, sessions and rooms.                                           *)
(*                                                                         *)
(* OverlapsRaced speaks of stored rows, and what is stored was checked     *)
(* long before, against the agenda as it was then.  So the invariant says  *)
(* what a request knows while it holds a row (PlansFit): the row clashes   *)
(* with nothing of the agenda it has seen.  When it is saved, a session    *)
(* that is still as it was seen cannot clash, and any other is recorded in *)
(* `blind'.                                                                *)
(***************************************************************************)
EXTENDS Events, FiniteSetTheorems, TLAPS

PlansFit ==
    \A c \in Clerks : \A t \in planner[c] :
        /\ Cardinality(t.row) <= 1
        /\ \A row \in t.row : \A u \in Sessions \ {t.id} :
              \A r \in t.seen[u] : ~Clash(row, r)

AgendaIInv ==
    /\ EventsTypeOK
    /\ PlansFit
    /\ OverlapsRaced

-----------------------------------------------------------------------------
(***************************************************************************)
(* Spans and rows                                                          *)
(***************************************************************************)

\* The three cases of Overlap are all the ways to intersect.
LEMMA OverlapIsEnough ==
    ASSUME NEW a \in Spans, NEW b \in Spans, Intersect(a, b)
    PROVE  Overlap(a, b)
<1>1. /\ a[1] \in Int /\ a[2] \in Int
      /\ b[1] \in Int /\ b[2] \in Int
  BY AgendaAssumption
<1> QED
  BY <1>1 DEF Overlap, Intersect

\* A row that fits a table of sessions clashes with none of them but itself.
LEMMA FittingRowsAreApart ==
    ASSUME NEW S \in [Sessions -> SUBSET Session], NEW s \in Sessions,
           NEW row \in Session, NEW e, Fits(s, row, e, S),
           NEW u \in Sessions \ {s}, NEW r \in S[u]
    PROVE  ~Clash(row, r)
<1>1. r \in Session
  OBVIOUS
<1>2. row.span \in Spans /\ r.span \in Spans
  BY <1>1 DEF Session
<1> QED
  BY <1>2, OverlapIsEnough DEF Fits, Clash

LEMMA ClashIsMutual ==
    ASSUME NEW r, NEW q, Clash(r, q)
    PROVE  Clash(q, r)
  BY DEF Clash, Intersect

LEMMA OneRowIsOne ==
    ASSUME NEW row
    PROVE  Cardinality({row}) <= 1 /\ Cardinality({}) <= 1
<1>1. Cardinality({row}) = 1
  BY FS_Singleton
<1>2. Cardinality({}) = 0
  BY FS_EmptySet
<1> QED
  BY <1>1, <1>2

\* A handler that holds the event has it whole.
LEMMA StoredEditsAreEvents ==
    ASSUME EventsTypeOK, NEW c \in Clerks, NEW t \in editor[c]
    PROVE  t \in Edit /\ t.event \in Event /\ t.guests \in BOOLEAN
  BY DEF EventsTypeOK, Edit

\* ... and saves a whole row.
LEMMA SavedIsAnEvent ==
    ASSUME EventsTypeOK, NEW e \in Event, NEW guests \in BOOLEAN
    PROVE  /\ Saved(e, guests) \in Event
           /\ Saved(e, guests).active = e.active
  BY DEF EventsTypeOK, Event, Saved

-----------------------------------------------------------------------------
(***************************************************************************)
(* The agenda                                                              *)
(***************************************************************************)

LEMMA AgendaInit == EventsInit => AgendaIInv
<1> SUFFICES ASSUME EventsInit PROVE AgendaIInv
  OBVIOUS
<1>1. event \in Event /\ cache \subseteq Event /\ sweep \subseteq Event
  BY AgendaAssumption DEF EventsInit, Event
<1>2. /\ sessions \in [Sessions -> SUBSET Session]
      /\ \A s \in Sessions : Cardinality(sessions[s]) <= 1
      /\ OverlapsRaced
  BY FirstAgendaAssumption DEF EventsInit, OverlapsRaced
<1>3. EventsTypeOK
  BY <1>1, <1>2, AgendaAssumption DEF EventsInit, EventsTypeOK
<1>4. PlansFit
  BY DEF EventsInit, PlansFit
<1> QED
  BY <1>2, <1>3, <1>4 DEF AgendaIInv

\* A request that has read the event holds a whole one.
LEMMA HoldKeeps ==
    ASSUME AgendaIInv, NEW c \in Clerks, NEW e \in Event,
           NEW guests \in BOOLEAN, NEW step \in {"save", "saveAndTell"},
           Hold(c, e, guests, step)
    PROVE  AgendaIInv'
<1>1. [step |-> step, event |-> e, guests |-> guests] \in Edit
  BY DEF Edit
<1>2. editor' \in [Clerks -> SUBSET Edit] /\ changes' \in 0..MaxChanges
  BY <1>1, AgendaAssumption DEF AgendaIInv, EventsTypeOK, Hold, Ask
<1>3. EventsTypeOK'
  BY <1>2 DEF AgendaIInv, EventsTypeOK, Hold, agendaVars, pageVars
<1> QED
  BY <1>3 DEF AgendaIInv, PlansFit, OverlapsRaced, Hold, agendaVars

\* A request that has read the agenda holds a row that fits it, or none.
LEMMA ProposeKeeps ==
    ASSUME AgendaIInv, NEW c \in Clerks, NEW s \in Sessions,
           NEW row \in SUBSET Session, Cardinality(row) <= 1,
           \A r \in row : Fits(s, r, event, sessions),
           Propose(c, s, row)
    PROVE  AgendaIInv'
<1> DEFINE plan == [id |-> s, row |-> row, seen |-> sessions]
<1>1. /\ sessions \in [Sessions -> SUBSET Session]
      /\ planner \in [Clerks -> SUBSET Plan]
  BY DEF AgendaIInv, EventsTypeOK
<1>2. plan \in Plan
  BY <1>1 DEF Plan
<1>3. planner' \in [Clerks -> SUBSET Plan] /\ changes' \in 0..MaxChanges
  BY <1>1, <1>2, AgendaAssumption
     DEF AgendaIInv, EventsTypeOK, Propose, Ask
<1>4. EventsTypeOK'
  BY <1>3 DEF AgendaIInv, EventsTypeOK, Propose, rowVars, pageVars
<1>5. \A r \in row : \A u \in Sessions \ {s} : \A q \in sessions[u] : ~Clash(r, q)
  BY <1>1, FittingRowsAreApart
<1>6. PlansFit'
  <2> SUFFICES ASSUME NEW d \in Clerks, NEW t \in planner'[d]
               PROVE  /\ Cardinality(t.row) <= 1
                      /\ \A r \in t.row : \A u \in Sessions \ {t.id} :
                            \A q \in t.seen[u] : ~Clash(r, q)
    BY DEF PlansFit
  <2>1. t = plan \/ t \in planner[d]
    BY <1>1 DEF Propose
  <2>2. CASE t = plan
    BY <2>2, <1>5
  <2>3. CASE t \in planner[d]
    BY <2>3 DEF AgendaIInv, PlansFit
  <2> QED
    BY <2>1, <2>2, <2>3
<1>7. OverlapsRaced'
  BY DEF AgendaIInv, OverlapsRaced, Propose
<1> QED
  BY <1>4, <1>6, <1>7 DEF AgendaIInv

\* What a save does not know, `blind' remembers.
LEMMA SessionSaveKeeps ==
    ASSUME AgendaIInv, NEW c \in Clerks, SessionSave(c)
    PROVE  AgendaIInv'
<1> DEFINE unknown(t) == {u \in Sessions \ {t.id} : sessions[u] # t.seen[u]}
<1>1. PICK t \in planner[c] :
        /\ sessions' = [sessions EXCEPT ![t.id] = t.row]
        /\ blind' = {p \in blind : t.id \notin p}
                      \cup {{t.id, u} : u \in unknown(t)}
        /\ planner' = [planner EXCEPT ![c] = {}]
        /\ UNCHANGED <<rowVars, pageVars, now, changes>>
  BY DEF SessionSave
<1>2. /\ sessions \in [Sessions -> SUBSET Session]
      /\ planner \in [Clerks -> SUBSET Plan]
      /\ blind \subseteq SUBSET Sessions
      /\ \A s \in Sessions : Cardinality(sessions[s]) <= 1
  BY DEF AgendaIInv, EventsTypeOK
<1>3. t.id \in Sessions /\ t.row \subseteq Session
  BY <1>2 DEF Plan
<1>4. /\ Cardinality(t.row) <= 1
      /\ \A row \in t.row : \A u \in Sessions \ {t.id} :
            \A r \in t.seen[u] : ~Clash(row, r)
  BY DEF AgendaIInv, PlansFit
<1>5. EventsTypeOK'
  <2>1. sessions' \in [Sessions -> SUBSET Session]
    BY <1>1, <1>2, <1>3
  <2>2. \A s \in Sessions : Cardinality(sessions'[s]) <= 1
    BY <1>1, <1>2, <1>3, <1>4
  <2>3. blind' \subseteq SUBSET Sessions
    BY <1>1, <1>2, <1>3
  <2>4. planner' \in [Clerks -> SUBSET Plan]
    BY <1>1, <1>2
  <2> QED
    BY <1>1, <2>1, <2>2, <2>3, <2>4
       DEF AgendaIInv, EventsTypeOK, rowVars, pageVars
<1>6. PlansFit'
  <2>1. \A d \in Clerks : planner'[d] \subseteq planner[d]
    BY <1>1, <1>2
  <2> QED
    BY <2>1 DEF AgendaIInv, PlansFit
<1>7. \A u \in Sessions \ {t.id} : \A row \in t.row : \A q \in sessions[u] :
          Clash(row, q) => {t.id, u} \in blind'
  <2> SUFFICES ASSUME NEW u \in Sessions \ {t.id}, NEW row \in t.row,
                      NEW q \in sessions[u], Clash(row, q)
               PROVE  {t.id, u} \in blind'
    OBVIOUS
  <2>1. sessions[u] # t.seen[u]
    BY <1>4
  <2> QED
    BY <2>1, <1>1
<1>8. OverlapsRaced'
  <2> SUFFICES ASSUME NEW s \in Sessions, NEW u \in Sessions, s # u,
                      NEW r \in sessions'[s], NEW q \in sessions'[u],
                      Clash(r, q)
               PROVE  {s, u} \in blind'
    BY DEF OverlapsRaced
  <2>1. CASE s = t.id
    <3>1. r \in t.row /\ q \in sessions[u]
      BY <2>1, <1>1, <1>2
    <3> QED
      BY <3>1, <2>1, <1>7
  <2>2. CASE u = t.id
    <3>1. q \in t.row /\ r \in sessions[s]
      BY <2>2, <1>1, <1>2
    <3>2. Clash(q, r)
      BY ClashIsMutual
    <3>3. {t.id, s} \in blind'
      BY <3>1, <3>2, <2>2, <1>7
    <3>4. {s, u} = {t.id, s}
      BY <2>2
    <3> QED
      BY <3>3, <3>4
  <2>3. CASE s # t.id /\ u # t.id
    <3>1. r \in sessions[s] /\ q \in sessions[u]
      BY <2>3, <1>1, <1>2
    <3>2. {s, u} \in blind
      BY <3>1 DEF AgendaIInv, OverlapsRaced
    <3> QED
      BY <3>2, <2>3, <1>1
  <2> QED
    BY <2>1, <2>2, <2>3
<1> QED
  BY <1>5, <1>6, <1>8 DEF AgendaIInv

-----------------------------------------------------------------------------
(***************************************************************************)
(* The row of the event and the page                                       *)
(***************************************************************************)

\* A step that leaves the agenda alone only has to keep the types.
LEMMA AgendaAlone ==
    ASSUME AgendaIInv, EventsTypeOK', UNCHANGED agendaVars
    PROVE  AgendaIInv'
  BY DEF AgendaIInv, PlansFit, OverlapsRaced, agendaVars

LEMMA EventSaveKeeps ==
    ASSUME AgendaIInv, NEW c \in Clerks, EventSave(c)
    PROVE  AgendaIInv'
<1>1. PICK t \in editor[c] :
        /\ t.step # "told"
        /\ event' = Saved(t.event, t.guests)
        /\ editor' = [editor EXCEPT ![c] =
                         IF t.step = "save" THEN {}
                         ELSE {[t EXCEPT !.step = "told"]}]
        /\ UNCHANGED <<sweep, agendaVars, pageVars, now, changes>>
  BY DEF EventSave
<1>2. t \in Edit /\ t.event \in Event /\ t.guests \in BOOLEAN
  BY StoredEditsAreEvents DEF AgendaIInv
<1>3. event' \in Event
  BY <1>1, <1>2, SavedIsAnEvent DEF AgendaIInv
<1>4. [t EXCEPT !.step = "told"] \in Edit
  BY <1>2 DEF Edit
<1>5. editor' \in [Clerks -> SUBSET Edit]
  BY <1>1, <1>4 DEF AgendaIInv, EventsTypeOK
<1>6. EventsTypeOK'
  BY <1>1, <1>3, <1>5 DEF AgendaIInv, EventsTypeOK, agendaVars, pageVars
<1> QED
  BY <1>6, <1>1, AgendaAlone

\* update() with any of status, dates and speakers.
LEMMA UpdateKeeps ==
    ASSUME AgendaIInv, NEW c \in Clerks, UpdateRead(c)
    PROVE  AgendaIInv'
<1>1. event \in Event
  BY DEF AgendaIInv, EventsTypeOK
<1>2. PICK status \in Statuses \cup {event.status}, span \in Spans,
           speakers \in SUBSET Speakers, guests \in BOOLEAN :
        Hold(c, [event EXCEPT !.status = status, !.span = span,
                              !.speakers = IF guests THEN speakers ELSE @],
             guests, "saveAndTell")
  BY DEF UpdateRead, Stored
<1>3. [event EXCEPT !.status = status, !.span = span,
                    !.speakers = IF guests THEN speakers ELSE @] \in Event
  BY <1>1, AgendaAssumption DEF Event
<1> QED
  BY <1>2, <1>3, HoldKeeps

\* The other requests that change the row.
LEMMA RequestKeeps ==
    ASSUME AgendaIInv, NEW c \in Clerks,
           \/ RemoveRead(c) \/ PublishRead(c)
           \/ \E p \in Speakers : AddSpeakerRead(c, p) \/ RemoveSpeakerRead(c, p)
    PROVE  AgendaIInv'
<1>1. event \in Event
  BY DEF AgendaIInv, EventsTypeOK
<1>2. CASE RemoveRead(c)
  <2>1. [event EXCEPT !.active = FALSE] \in Event
    BY <1>1 DEF Event
  <2> QED
    BY <1>2, <2>1, HoldKeeps DEF RemoveRead, Stored
<1>3. CASE PublishRead(c)
  <2>1. [event EXCEPT !.status = "PUBLISHED"] \in Event
    BY <1>1 DEF Event, EventStatus
  <2> QED
    BY <1>3, <2>1, HoldKeeps DEF PublishRead, Stored
<1>4. ASSUME NEW p \in Speakers, AddSpeakerRead(c, p)
      PROVE  AgendaIInv'
  <2>1. [event EXCEPT !.speakers = @ \cup {p}] \in Event
    BY <1>1 DEF Event
  <2> QED
    BY <1>4, <2>1, HoldKeeps DEF AddSpeakerRead, Stored
<1>5. ASSUME NEW p \in Speakers, RemoveSpeakerRead(c, p)
      PROVE  AgendaIInv'
  <2>1. [event EXCEPT !.speakers = @ \ {p}] \in Event
    BY <1>1 DEF Event
  <2> QED
    BY <1>5, <2>1, HoldKeeps DEF RemoveSpeakerRead, Stored
<1> QED
  BY <1>2, <1>3, <1>4, <1>5

\* The requests about a session.
LEMMA SessionRequestKeeps ==
    ASSUME AgendaIInv, NEW c \in Clerks, NEW s \in Sessions,
           AddSessionRead(c, s) \/ UpdateSessionRead(c, s) \/ DeleteSessionRead(c, s)
    PROVE  AgendaIInv'
<1>1. CASE AddSessionRead(c, s) \/ UpdateSessionRead(c, s)
  <2>1. PICK row \in Session : Fits(s, row, event, sessions) /\ Propose(c, s, {row})
    BY <1>1 DEF AddSessionRead, UpdateSessionRead
  <2>2. Cardinality({row}) <= 1
    BY OneRowIsOne
  <2> QED
    BY <2>1, <2>2, ProposeKeeps
<1>2. CASE DeleteSessionRead(c, s)
  <2>1. Propose(c, s, {})
    BY <1>2 DEF DeleteSessionRead
  <2>2. Cardinality({}) <= 1
    BY OneRowIsOne
  <2> QED
    BY <2>1, <2>2, ProposeKeeps
<1> QED
  BY <1>1, <1>2

\* What a visitor does, and Redis.
LEMMA PageKeeps ==
    ASSUME AgendaIInv,
           \/ \E v \in Visitors :
                 VisitMiss(v) \/ VisitLoad(v) \/ VisitSet(v) \/ VisitFail(v)
           \/ Expire
    PROVE  AgendaIInv'
<1>1. /\ event \in Event /\ cache \subseteq Event /\ missed \subseteq Visitors
      /\ visitor \in [Visitors -> SUBSET Event]
  BY DEF AgendaIInv, EventsTypeOK
<1>2. /\ cache' \subseteq Event /\ missed' \subseteq Visitors
      /\ visitor' \in [Visitors -> SUBSET Event]
      /\ UNCHANGED <<rowVars, agendaVars, now, changes>>
  <2>1. ASSUME NEW v \in Visitors, VisitMiss(v)
        PROVE  <1>2!:
    BY <1>1, <2>1 DEF VisitMiss
  <2>2. ASSUME NEW v \in Visitors, VisitLoad(v)
        PROVE  <1>2!:
    BY <1>1, <2>2 DEF VisitLoad
  <2>3. ASSUME NEW v \in Visitors, VisitSet(v)
        PROVE  <1>2!:
    BY <1>1, <2>3 DEF VisitSet
  <2>4. ASSUME NEW v \in Visitors, VisitFail(v)
        PROVE  <1>2!:
    BY <1>1, <2>4 DEF VisitFail
  <2>5. CASE Expire
    BY <1>1, <2>5 DEF Expire
  <2> QED
    BY <2>1, <2>2, <2>3, <2>4, <2>5
<1>3. EventsTypeOK'
  BY <1>2 DEF AgendaIInv, EventsTypeOK, rowVars, agendaVars
<1> QED
  BY <1>2, <1>3, AgendaAlone

\* The job.
LEMMA SweepKeeps ==
    ASSUME AgendaIInv, SweepRead \/ SweepSave \/ SweepFail
    PROVE  AgendaIInv'
<1>1. event \in Event /\ sweep \subseteq Event
  BY DEF AgendaIInv, EventsTypeOK
<1>2. event' \in Event /\ sweep' \subseteq Event
  <2>1. CASE SweepRead
    BY <1>1, <2>1 DEF SweepRead
  <2>2. CASE SweepSave
    <3>1. PICK e \in sweep :
            event' = Saved([e EXCEPT !.status = "COMPLETED"], FALSE) /\ sweep' = {}
      BY <2>2 DEF SweepSave
    <3>2. [e EXCEPT !.status = "COMPLETED"] \in Event
      BY <1>1 DEF Event, EventStatus
    <3> QED
      BY <3>1, <3>2, SavedIsAnEvent DEF AgendaIInv
  <2>3. CASE SweepFail
    BY <1>1, <2>3 DEF SweepFail
  <2> QED
    BY <2>1, <2>2, <2>3
<1>3. UNCHANGED <<editor, agendaVars, pageVars, now, changes>>
  BY DEF SweepRead, SweepSave, SweepFail
<1>4. EventsTypeOK'
  BY <1>2, <1>3 DEF AgendaIInv, EventsTypeOK, agendaVars, pageVars
<1> QED
  BY <1>3, <1>4, AgendaAlone

LEMMA AgendaStep == AgendaIInv /\ [EventsNext]_eventVars => AgendaIInv'
<1> SUFFICES ASSUME AgendaIInv, [EventsNext]_eventVars PROVE AgendaIInv'
  OBVIOUS
<1>1. ASSUME NEW c \in Clerks, UpdateRead(c)
      PROVE  AgendaIInv'
  BY <1>1, UpdateKeeps
<1>2. ASSUME NEW c \in Clerks,
             \/ RemoveRead(c) \/ PublishRead(c)
             \/ \E p \in Speakers : AddSpeakerRead(c, p) \/ RemoveSpeakerRead(c, p)
      PROVE  AgendaIInv'
  BY <1>2, RequestKeeps
<1>3. ASSUME NEW c \in Clerks, EventSave(c)
      PROVE  AgendaIInv'
  BY <1>3, EventSaveKeeps
<1>4. ASSUME NEW c \in Clerks, Invalidate(c)
      PROVE  AgendaIInv'
  <2>1. /\ cache' = {}
        /\ editor' = [editor EXCEPT ![c] = {}]
        /\ UNCHANGED <<event, sweep, agendaVars, missed, visitor, now, changes>>
    BY <1>4 DEF Invalidate
  <2>2. EventsTypeOK'
    BY <2>1 DEF AgendaIInv, EventsTypeOK, agendaVars
  <2> QED
    BY <2>1, <2>2, AgendaAlone
<1>5. ASSUME NEW c \in Clerks, NEW s \in Sessions,
             AddSessionRead(c, s) \/ UpdateSessionRead(c, s) \/ DeleteSessionRead(c, s)
      PROVE  AgendaIInv'
  BY <1>5, SessionRequestKeeps
<1>6. ASSUME NEW c \in Clerks, SessionSave(c)
      PROVE  AgendaIInv'
  BY <1>6, SessionSaveKeeps
<1>7. ASSUME NEW c \in Clerks, ClerkFail(c)
      PROVE  AgendaIInv'
  <2>1. /\ editor' = [editor EXCEPT ![c] = {}]
        /\ planner' = [planner EXCEPT ![c] = {}]
        /\ UNCHANGED <<event, sweep, sessions, blind, pageVars, now, changes>>
    BY <1>7 DEF ClerkFail
  <2>2. EventsTypeOK'
    BY <2>1 DEF AgendaIInv, EventsTypeOK, pageVars
  <2>3. \A d \in Clerks : planner'[d] \subseteq planner[d]
    BY <2>1 DEF AgendaIInv, EventsTypeOK
  <2> QED
    BY <2>1, <2>2, <2>3 DEF AgendaIInv, PlansFit, OverlapsRaced
<1>8. CASE \/ \E v \in Visitors :
                 VisitMiss(v) \/ VisitLoad(v) \/ VisitSet(v) \/ VisitFail(v)
           \/ Expire
  BY <1>8, PageKeeps
<1>9. CASE SweepRead \/ SweepSave \/ SweepFail
  BY <1>9, SweepKeeps
<1>10. CASE Tick
  <2>1. now' \in 0..MaxTime /\ UNCHANGED <<rowVars, agendaVars, pageVars, changes>>
    BY <1>10, AgendaAssumption DEF AgendaIInv, EventsTypeOK, Tick
  <2>2. EventsTypeOK'
    BY <2>1 DEF AgendaIInv, EventsTypeOK, rowVars, agendaVars, pageVars
  <2> QED
    BY <2>1, <2>2, AgendaAlone
<1>11. CASE UNCHANGED eventVars
  <2>1. EventsTypeOK'
    BY <1>11 DEF AgendaIInv, EventsTypeOK, eventVars, rowVars, agendaVars, pageVars
  <2> QED
    BY <1>11, <2>1, AgendaAlone DEF eventVars
<1> QED
  BY <1>1, <1>2, <1>3, <1>4, <1>5, <1>6, <1>7, <1>8, <1>9, <1>10, <1>11
     DEF EventsNext

\* The invariant of the event, for every number of requests and sessions.
THEOREM AgendaInvariant == EventsSpec => []AgendaIInv
  BY AgendaInit, AgendaStep, PTL DEF EventsSpec

\* The row, the agenda, Redis and the requests in progress keep their types.
THEOREM EventsTypeCorrect == EventsSpec => []EventsTypeOK
<1>1. AgendaIInv => EventsTypeOK
  BY DEF AgendaIInv
<1> QED
  BY <1>1, AgendaInvariant, PTL

\* Two sessions that share a room at one time come from requests that did not
\* see each other; the check of addSessionToEvent() and updateSession() stops
\* all others, whatever the spans, rooms and number of requests.
THEOREM CollisionsAreRaces == EventsSpec => []OverlapsRaced
<1>1. AgendaIInv => OverlapsRaced
  BY DEF AgendaIInv
<1> QED
  BY <1>1, AgendaInvariant, PTL

-----------------------------------------------------------------------------
(***************************************************************************)
(* What was removed                                                        *)
(***************************************************************************)

\* No handler starts on an event that was removed, and none ends with it.
LEMMA GoneStep == EventsTypeOK /\ [EventsNext]_eventVars => (Gone => Gone')
<1> SUFFICES ASSUME EventsTypeOK, [EventsNext]_eventVars, Gone PROVE Gone'
  OBVIOUS
<1>1. /\ ~event.active
      /\ \A c \in Clerks : \A t \in editor[c] : ~t.event.active
      /\ \A e \in sweep : ~e.active
      /\ editor \in [Clerks -> SUBSET Edit]
      /\ event \in Event /\ sweep \subseteq Event
  BY DEF Gone, EventsTypeOK
\* Whatever is read is active, so that nobody holds more than before.
<1>2. ASSUME UNCHANGED event, sweep' \subseteq sweep,
             \A c \in Clerks : editor'[c] \subseteq editor[c]
      PROVE  Gone'
  BY <1>1, <1>2 DEF Gone
<1>3. ASSUME NEW c \in Clerks,
             \/ UpdateRead(c) \/ RemoveRead(c) \/ PublishRead(c)
             \/ \E p \in Speakers : AddSpeakerRead(c, p) \/ RemoveSpeakerRead(c, p)
      PROVE  FALSE
  BY <1>1, <1>3 DEF UpdateRead, RemoveRead, PublishRead, AddSpeakerRead,
                    RemoveSpeakerRead, Stored
<1>4. ASSUME NEW c \in Clerks, EventSave(c)
      PROVE  Gone'
  <2>1. PICK t \in editor[c] :
          /\ event' = Saved(t.event, t.guests)
          /\ editor' = [editor EXCEPT ![c] =
                           IF t.step = "save" THEN {}
                           ELSE {[t EXCEPT !.step = "told"]}]
          /\ UNCHANGED sweep
    BY <1>4 DEF EventSave
  <2>2. t \in Edit /\ t.event \in Event /\ t.guests \in BOOLEAN
    BY StoredEditsAreEvents
  <2>3. ~event'.active
    BY <2>1, <2>2, <1>1, SavedIsAnEvent
  <2>4. [t EXCEPT !.step = "told"].event = t.event
    BY <2>2 DEF Edit
  <2>5. \A d \in Clerks : \A u \in editor'[d] : ~u.event.active
    BY <2>1, <2>4, <1>1
  <2> QED
    BY <2>1, <2>3, <2>5, <1>1 DEF Gone
<1>5. ASSUME NEW c \in Clerks, Invalidate(c) \/ ClerkFail(c)
      PROVE  Gone'
  <2>1. editor' = [editor EXCEPT ![c] = {}] /\ UNCHANGED <<event, sweep>>
    BY <1>5 DEF Invalidate, ClerkFail
  <2>2. \A d \in Clerks : editor'[d] \subseteq editor[d]
    BY <2>1, <1>1
  <2> QED
    BY <2>1, <2>2, <1>2
<1>6. ASSUME NEW c \in Clerks,
             \/ SessionSave(c)
             \/ \E s \in Sessions : \/ AddSessionRead(c, s)
                                    \/ UpdateSessionRead(c, s)
                                    \/ DeleteSessionRead(c, s)
      PROVE  Gone'
  <2>1. UNCHANGED rowVars
    BY <1>6 DEF SessionSave, AddSessionRead, UpdateSessionRead,
                DeleteSessionRead, Propose
  <2> QED
    BY <2>1, <1>2 DEF rowVars
<1>7. CASE SweepRead
  BY <1>7, <1>1 DEF SweepRead
<1>8. CASE SweepSave
  <2>1. PICK e \in sweep :
          /\ event' = Saved([e EXCEPT !.status = "COMPLETED"], FALSE)
          /\ sweep' = {}
          /\ UNCHANGED editor
    BY <1>8 DEF SweepSave
  <2>2. /\ [e EXCEPT !.status = "COMPLETED"] \in Event
        /\ [e EXCEPT !.status = "COMPLETED"].active = e.active
    BY <1>1 DEF Event, EventStatus
  <2>3. ~event'.active
    BY <2>1, <2>2, <1>1, SavedIsAnEvent
  <2> QED
    BY <2>1, <2>3, <1>1 DEF Gone
<1>9. CASE SweepFail
  BY <1>9, <1>2 DEF SweepFail
<1>10. CASE \/ \E v \in Visitors :
                  VisitMiss(v) \/ VisitLoad(v) \/ VisitSet(v) \/ VisitFail(v)
            \/ Expire \/ Tick \/ UNCHANGED eventVars
  <2>1. UNCHANGED rowVars
    BY <1>10 DEF VisitMiss, VisitLoad, VisitSet, VisitFail, Expire, Tick, eventVars
  <2> QED
    BY <2>1, <1>2 DEF rowVars
<1> QED
  BY <1>3, <1>4, <1>5, <1>6, <1>7, <1>8, <1>9, <1>10 DEF EventsNext

\* remove() is final: an event that nobody holds as it was before stays
\* removed, whatever copies Redis and the visitors still have.
THEOREM RemovedForGood == EventsSpec => RemovedStays
<1>1. EventsTypeOK /\ [EventsNext]_eventVars => [Gone => Gone']_eventVars
  BY GoneStep
<1> QED
  BY <1>1, EventsTypeCorrect, PTL DEF EventsSpec, RemovedStays

=============================================================================
