-------------------------------- MODULE Events --------------------------------
(* The answers to a campus event (social.routes.ts).  An answer locks the row  *)
(* of the event, counts who is going, and is written.  The capacity of an      *)
(* event is not edited.                                                        *)
EXTENDS Integers, FiniteSets

CONSTANTS
  Members,
  Rsvps,       \* requests that can be under way at the same time
  capacityOfEvent,
  NoRsvp

ASSUME EventsAssumption ==
  /\ NoRsvp \notin Members \cup Rsvps
  /\ IsFiniteSet(Members)
  /\ capacityOfEvent \in Nat

VARIABLES
  going,     \* going[m]: the answer of member m, or "none"
  over,      \* the event has ended
  eventLock, \* the request that holds the row of the event, or NoRsvp
  answering  \* answering[r]: the step of request r, whose answer and which

eventVars == <<going, over, eventLock, answering>>

RsvpStatus == {"GOING", "MAYBE", "NO"}
NotAnswering == [step |-> "idle", member |-> NoRsvp, status |-> "none"]

EventsInit ==
  /\ going = [m \in Members |-> "none"]
  /\ over = FALSE
  /\ eventLock = NoRsvp
  /\ answering = [r \in Rsvps |-> NotAnswering]

AnsweringAt(r, step) == answering' = [answering EXCEPT ![r].step = step]
AnsweringEnds(r) == answering' = [answering EXCEPT ![r] = NotAnswering]

\* POST /events/:id/rsvp
RsvpRead(r, m, status) ==
  /\ answering[r].step = "idle"
  /\ ~over
  /\ answering' = [answering EXCEPT ![r] = [step |-> "lock", member |-> m, status |-> status]]
  /\ UNCHANGED <<going, over, eventLock>>

EventFree_NotLocked == TRUE
EventFree == eventLock = NoRsvp

RsvpLock(r) ==
  /\ answering[r].step = "lock"
  /\ EventFree
  /\ eventLock' = r
  /\ AnsweringAt(r, "count")
  /\ UNCHANGED <<going, over>>

Going == {m \in Members : going[m] = "GOING"}
rsvpWouldExceedCapacity(m, status) ==
  status = "GOING" /\ going[m] # "GOING" /\ Cardinality(Going) >= capacityOfEvent

\* The answers are counted; a full event is refused (409), with the lock.
RsvpCount(r) ==
  /\ answering[r].step = "count"
  /\ IF rsvpWouldExceedCapacity(answering[r].member, answering[r].status)
     THEN AnsweringEnds(r) /\ eventLock' = NoRsvp
     ELSE AnsweringAt(r, "write") /\ UNCHANGED eventLock
  /\ UNCHANGED <<going, over>>

RsvpWrite(r) ==
  /\ answering[r].step = "write"
  /\ going' = [going EXCEPT ![answering[r].member] = answering[r].status]
  /\ eventLock' = NoRsvp
  /\ AnsweringEnds(r)
  /\ UNCHANGED over

\* A request dies: its transaction rolls back.
RsvpDies(r) ==
  /\ answering[r].step # "idle"
  /\ AnsweringEnds(r)
  /\ eventLock' = IF eventLock = r THEN NoRsvp ELSE eventLock
  /\ UNCHANGED <<going, over>>

EventEnds == over' = TRUE /\ UNCHANGED <<going, eventLock, answering>>

EventsNext ==
  \/ \E r \in Rsvps :
       \/ \E m \in Members, status \in RsvpStatus : RsvpRead(r, m, status)
       \/ RsvpLock(r) \/ RsvpCount(r) \/ RsvpWrite(r) \/ RsvpDies(r)
  \/ EventEnds

EventsSpec == EventsInit /\ [][EventsNext]_eventVars

-----------------------------------------------------------------------------
(* Properties                                                                 *)

EventsTypeOK ==
  /\ going \in [Members -> RsvpStatus \cup {"none"}]
  /\ over \in BOOLEAN
  /\ eventLock \in Rsvps \cup {NoRsvp}
  /\ answering \in [Rsvps ->
       [step : {"idle", "lock", "count", "write"},
        member : Members \cup {NoRsvp}, status : RsvpStatus \cup {"none"}]]

\* An event never has more members going than it has places, however many answer
\* at the same moment.
EventNeverOversold == Cardinality(Going) <= capacityOfEvent
=============================================================================
