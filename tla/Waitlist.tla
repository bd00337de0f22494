------------------------------ MODULE Waitlist ------------------------------
(***************************************************************************)
(* waitlist.service.ts beside the expiry jobs of Registrations: people     *)
(* queue for a ticket that is sold out, the minute job invites the next of *)
(* them for every reservation it expires, and an hourly job of this        *)
(* service, "invitations", passes an invitation that lapsed on to the next *)
(* one.                                                                    *)
(*                                                                         *)
(* No handler opens a transaction: join() takes MAX(priority) + 1 and then *)
(* inserts, leave() and inviteNext() save an entry they read before, and   *)
(* the job saves the batch it read at the start of its round.  A row of    *)
(* the list never changes but for its status, so a request in progress     *)
(* needs to remember only whose entry it holds.  The unique index          *)
(* (person, ticket) gives a person one entry for ever.                     *)
(*                                                                         *)
(* Desks and payments are not beside it.  They write expired rows back     *)
(* (AnnouncedIsExcused of Payments), and such a seat may be swept and      *)
(* offered a second time.                                                  *)
(*                                                                         *)
(* convertToRegistration() has no caller, so no entry is CONVERTED: who is *)
(* invited buys through create() like anybody else.                        *)
(***************************************************************************)
EXTENDS Registrations

CONSTANT People  \* persons who may queue for the ticket

ASSUME PeopleAssumption == IsFiniteSet(People)

VARIABLES
    entry,   \* the waitlist_entries table: person -> row
    asking,  \* per person: the request to join or to leave in progress
    inviter, \* per caller of inviteNext(): the entry it is about to invite
    lapsed,  \* people whose invitationExpiresAt has passed
    round    \* the entries the "invitations" job has not finished with

listVars == <<entry, asking, inviter, lapsed, round>>
waitVars == <<regVars, listVars>>

WaitlistStatus == {"WAITING", "INVITED", "CONVERTED", "EXPIRED", "CANCELLED"}

EntryRow == [status   : WaitlistStatus \cup {"ABSENT"},
             priority : 0..Cardinality(People)]

NoEntry == [status |-> "ABSENT", priority |-> 0]

\* A request to join carries the priority it has computed.
AskTask == [step : {"join", "leave"}, priority : 0..(Cardinality(People) + 1)]

\* The jobs that call inviteNext().
Callers == {"minute", "invitations"}

\* An entry of the batch, and whether it was saved as EXPIRED.
RoundTask == [id : People, saved : BOOLEAN]

WaitTypeOK ==
    /\ entry \in [People -> EntryRow]
    /\ asking \in [People -> SUBSET AskTask]
    /\ inviter \in [Callers -> SUBSET People]
    /\ lapsed \subseteq People
    /\ round \subseteq RoundTask

ListInit ==
    /\ entry = [p \in People |-> NoEntry]
    /\ asking = [p \in People |-> {}]
    /\ inviter = [c \in Callers |-> {}]
    /\ lapsed = {}
    /\ round = {}

-----------------------------------------------------------------------------

SaveEntry(p, status) == entry' = [entry EXCEPT ![p].status = status]

Waiting == {p \in People : entry[p].status = "WAITING"}

Invited == {p \in People : entry[p].status = "INVITED"}

\* ORDER BY priority: whoever has the least, any of them on a tie.
First(p) == p \in Waiting /\ \A q \in Waiting : entry[p].priority <= entry[q].priority

MaxPriority ==
    CHOOSE n \in 0..Cardinality(People) :
        /\ n = 0 \/ \E p \in People : entry[p].priority = n
        /\ \A p \in People : entry[p].priority <= n

-----------------------------------------------------------------------------
(***************************************************************************)
(* Actions                                                                 *)
(***************************************************************************)

\* join(): the ticket is sold out and the person has no live entry; the
\* priority is computed ...
JoinRead(p) ==
    /\ AllowsWaitlist
    /\ ~InStock
    /\ entry[p].status \notin {"WAITING", "INVITED"}
    /\ asking[p] = {}
    /\ asking' = [asking EXCEPT ![p] = {[step |-> "join", priority |-> MaxPriority + 1]}]
    /\ UNCHANGED <<regVars, entry, inviter, lapsed, round>>

\* ... and the entry inserted; the unique index refuses a second one.
JoinInsert(p, t) ==
    /\ t.step = "join"
    /\ entry[p] = NoEntry
    /\ entry' = [entry EXCEPT ![p] = [status |-> "WAITING", priority |-> t.priority]]
    /\ asking' = [asking EXCEPT ![p] = {}]
    /\ UNCHANGED <<regVars, inviter, lapsed, round>>

\* leave(): read ...
LeaveRead(p) ==
    /\ p \in Waiting \cup Invited
    /\ asking[p] = {}
    /\ asking' = [asking EXCEPT ![p] = {[step |-> "leave", priority |-> entry[p].priority]}]
    /\ UNCHANGED <<regVars, entry, inviter, lapsed, round>>

\* ... and save.  Nobody else is invited.
LeaveSave(p, t) ==
    /\ t.step = "leave"
    /\ SaveEntry(p, "CANCELLED")
    /\ asking' = [asking EXCEPT ![p] = {}]
    /\ UNCHANGED <<regVars, inviter, lapsed, round>>

\* A request is refused or dies.
AskFail(p) ==
    /\ asking[p] # {}
    /\ asking' = [asking EXCEPT ![p] = {}]
    /\ UNCHANGED <<regVars, entry, inviter, lapsed, round>>

\* The find of inviteNext().
FindNext(c, chosen) ==
    /\ inviter[c] = {}
    /\ \/ \E p \in People : First(p) /\ chosen = {p}
       \/ Waiting = {} /\ chosen = {}
    /\ inviter' = [inviter EXCEPT ![c] = chosen]

\* The minute job calls onStockReleased() for the row it has expired.
Release(t, chosen) ==
    /\ AllowsWaitlist
    /\ SweepAnnounce("minute", t)
    /\ FindNext("minute", chosen)
    /\ UNCHANGED <<entry, asking, lapsed, round>>

\* The save of inviteNext(), with a new invitationExpiresAt.
InviteSave(c) ==
    \E p \in inviter[c] :
        /\ SaveEntry(p, "INVITED")
        /\ lapsed' = lapsed \ {p}
        /\ inviter' = [inviter EXCEPT ![c] = {}]
        /\ UNCHANGED <<regVars, asking, round>>

\* Time reaches invitationExpiresAt.
Lapse(p) ==
    /\ p \in Invited \ lapsed
    /\ lapsed' = lapsed \cup {p}
    /\ UNCHANGED <<regVars, entry, asking, inviter, round>>

\* The job with the status of who still waits.
LapsedEntriesWaiting == Waiting \cap lapsed

\* The job without its condition on the status.
LapsedEntriesMutant == {p \in lapsed : entry[p].status # "ABSENT"}

\* What processExpiredInvitations() selects.
LapsedEntries == Invited \cap lapsed

RoundFind ==
    /\ round = {}
    /\ inviter["invitations"] = {}
    /\ LapsedEntries # {}
    /\ round' = [id : LapsedEntries, saved : {FALSE}]
    /\ UNCHANGED <<regVars, entry, asking, inviter, lapsed>>

\* The loop saves one entry ...
RoundSave(t) ==
    /\ t \in round
    /\ inviter["invitations"] = {}
    /\ \A u \in round : ~u.saved
    /\ SaveEntry(t.id, "EXPIRED")
    /\ round' = (round \ {t}) \cup {[t EXCEPT !.saved = TRUE]}
    /\ UNCHANGED <<regVars, asking, inviter, lapsed>>

\* ... and calls inviteNext().
RoundInvite(t, chosen) ==
    /\ t \in round
    /\ t.saved
    /\ FindNext("invitations", chosen)
    /\ round' = round \ {t}
    /\ UNCHANGED <<regVars, entry, asking, lapsed>>

\* A job fails or the process restarts: what it holds in memory is lost.
RoundAbort ==
    /\ aborts < MaxAborts
    /\ round # {} \/ inviter["invitations"] # {}
    /\ aborts' = aborts + 1
    /\ round' = {}
    /\ inviter' = [inviter EXCEPT !["invitations"] = {}]
    /\ UNCHANGED <<reg, overdue, sweep, offered, told, entry, asking, lapsed>>

\* inviteNext() throws inside the minute job, which logs it and goes on.
InviteFail ==
    /\ aborts < MaxAborts
    /\ inviter["minute"] # {}
    /\ aborts' = aborts + 1
    /\ inviter' = [inviter EXCEPT !["minute"] = {}]
    /\ UNCHANGED <<reg, overdue, sweep, offered, told, entry, asking, lapsed, round>>

\* The expiry jobs.  The minute job waits for the inviteNext() it has called;
\* for a ticket without a waiting list, as in the hourly job, nobody is called.
JobNext(k) ==
    \/ /\ k = "minute" => inviter["minute"] = {}
       /\ \/ SweepFind(k)
          \/ \E t \in sweep[k] : SweepSave(k, t)
          \/ /\ ~(k = "minute" /\ AllowsWaitlist)
             /\ \E t \in sweep[k] : SweepAnnounce(k, t)
       /\ UNCHANGED listVars
    \/ /\ k = "minute"
       /\ \E t \in sweep[k], chosen \in SUBSET People : Release(t, chosen)
    \/ k = "minute" /\ InviteSave(k)

RegistrationsStep ==
    /\ \/ \E a \in Attendees, free \in BOOLEAN : Create(a, free)
       \/ \E a \in Attendees : Deadline(a)
       \/ \E k \in CronJobs : (k = "minute" => inviter["minute"] = {}) /\ SweepAbort(k)
    /\ UNCHANGED listVars

RoundNext ==
    \/ RoundFind
    \/ \E t \in round : RoundSave(t)
    \/ \E t \in round, chosen \in SUBSET People : RoundInvite(t, chosen)
    \/ InviteSave("invitations")

PersonNext(p) ==
    \/ JoinRead(p)
    \/ LeaveRead(p)
    \/ \E t \in asking[p] : JoinInsert(p, t) \/ LeaveSave(p, t)
    \/ AskFail(p)
    \/ Lapse(p)

WaitInit == RegInit /\ ListInit

WaitNext ==
    \/ RegistrationsStep
    \/ \E k \in CronJobs : JobNext(k)
    \/ RoundNext
    \/ RoundAbort
    \/ InviteFail
    \/ \E p \in People : PersonNext(p)

\* @Cron fires again and again, and the loop of a round goes on.
WaitFairness ==
    /\ \A k \in CronJobs : WF_waitVars(JobNext(k))
    /\ WF_waitVars(RoundNext)

WaitSpec == WaitInit /\ [][WaitNext]_waitVars /\ WaitFairness

-----------------------------------------------------------------------------
(***************************************************************************)
(* Properties                                                              *)
(***************************************************************************)

\* Every invitation that is out, or about to be sent, stands for a seat that
\* was released for it: two jobs that invite at once, people who leave, late
\* saves and rounds that die lose invitations but never multiply them.
InvitationsHaveSeat ==
    LET sent == Cardinality(Invited)
        onTheirWay == Cardinality(inviter["minute"]) + Cardinality(inviter["invitations"])
        passedOn == Cardinality({t \in round : t.saved})
    IN  sent + onTheirWay + passedOn <= Cardinality(offered)

\* waitlist/README.md: who does not use an invitation in time becomes EXPIRED
\* and the next is called.  However rounds fail, and whoever leaves meanwhile,
\* no lapsed invitation stays in force.
LapsedEnds ==
    \A p \in People : p \in Invited \cap lapsed ~> p \notin Invited \cap lapsed

=============================================================================
