------------------------------ MODULE Deception -----------------------------
(***************************************************************************)
(* DeceptionService.ts (backend/src/services) and the routes that call it  *)
(* (backend/src/api/routes/deception.ts): traps in memory with a copy in   *)
(* Redis, and the events of traps that were touched, each stored by three  *)
(* commands while traps come and go.  The process restarts; Redis stays.   *)
(***************************************************************************)
EXTENDS Null, Naturals, SequencesExt

CONSTANTS
  Traps,             \* ids: paths, credentials and file names
  Configured,        \* those of the configuration, set up by initialize
  Touches,           \* calls of triggerEvent and of the record functions
  Details,           \* what calculateThreatLevel adds up
  EventCap,          \* events that deception:events keeps
  MaxEdits, MaxRestartsOfService, MaxMissed    \* bounds

ASSUME DeceptionAssumption == Configured \subseteq Traps /\ Details \subseteq 0..11 /\ EventCap \in Nat

VARIABLES
  activeTraps,       \* id -> Nil or access count
  trapKeys,          \* deception:trap:<id> in Redis
  touch,             \* calls: the command awaited, trap and threat level
  events,            \* deception:events, newest first
  sessionsOpened,    \* deception:session keys
  published,         \* touches reported to onHoneypotTriggered
  edits, starts, missed,
  pushes, untrimmed  \* history: all pushes, newest first; pushes not trimmed since

deceptionVars == <<activeTraps, trapKeys, touch, events, sessionsOpened, published, edits, starts,
                   missed, pushes, untrimmed>>

NoTouch == [pc |-> "none", trap |-> Nil, type |-> Nil, threatLevel |-> Nil]
Done == [NoTouch EXCEPT !.pc = "done"]
NoTraps == [i \in Traps |-> Nil]

DeceptionInit ==
  /\ activeTraps = NoTraps /\ trapKeys = {}
  /\ touch = [t \in Touches |-> NoTouch]
  /\ events = <<>> /\ sessionsOpened = {} /\ published = {}
  /\ edits = 0 /\ starts = 0 /\ missed = 0
  /\ pushes = <<>> /\ untrimmed = 0

-----------------------------------------------------------------------------

\* A Redis command is lost; safeOperation hides it.
Missing(lost) == IF lost THEN missed < MaxMissed /\ missed' = missed + 1 ELSE UNCHANGED missed

Edit == edits < MaxEdits /\ edits' = edits + 1

\* initialize sets the configured traps up, in memory only.
Initialize ==
  /\ Edit
  /\ activeTraps' = [i \in Traps |-> IF i \in Configured THEN 0 ELSE activeTraps[i]]
  /\ UNCHANGED <<trapKeys, touch, events, sessionsOpened, published, starts, missed, pushes, untrimmed>>

CreateTrap(i, lost) ==
  /\ Edit
  /\ Missing(lost)
  /\ activeTraps' = [activeTraps EXCEPT ![i] = 0]
  /\ trapKeys' = IF lost THEN trapKeys ELSE trapKeys \cup {i}
  /\ UNCHANGED <<touch, events, sessionsOpened, published, starts, pushes, untrimmed>>

\* updateTrap: any field may be assigned, the count too; Redis is not told.
UpdateTrap(i, count) ==
  /\ Edit
  /\ activeTraps[i] # Nil
  /\ activeTraps' = [activeTraps EXCEPT ![i] = count]
  /\ UNCHANGED <<trapKeys, touch, events, sessionsOpened, published, starts, missed, pushes, untrimmed>>

DeleteTrap(i, lost) ==
  /\ Edit
  /\ activeTraps[i] # Nil
  /\ Missing(lost)
  /\ activeTraps' = [activeTraps EXCEPT ![i] = Nil]
  /\ trapKeys' = IF lost THEN trapKeys ELSE trapKeys \ {i}
  /\ UNCHANGED <<touch, events, sessionsOpened, published, starts, pushes, untrimmed>>

-----------------------------------------------------------------------------

CalculateThreatLevel(score) ==
  IF score >= 5 THEN "critical" ELSE IF score >= 3 THEN "high" ELSE IF score >= 1 THEN "medium" ELSE "low"

Types == {"honeypot_access", "credential_trap", "decoy_file_access"}

\* triggerEvent, or a record function called directly: the event's own key is
\* set.  An unknown type is recorded as a honeypot access of '/manual'.
TriggerEvent(t, type, i, score, lost) ==
  /\ touch[t].pc = "none"
  /\ Missing(lost)
  /\ touch' = [touch EXCEPT ![t] =
       [pc |-> "set", trap |-> i, type |-> type,
        threatLevel |-> IF type = "credential_trap" THEN "critical" ELSE CalculateThreatLevel(score)]]
  /\ UNCHANGED <<activeTraps, trapKeys, events, sessionsOpened, published, edits, starts, pushes, untrimmed>>

PushEvent(t, lost) ==
  /\ touch[t].pc = "set"
  /\ Missing(lost)
  /\ touch' = [touch EXCEPT ![t].pc = "lpush"]
  /\ IF lost
     THEN UNCHANGED <<events, pushes, untrimmed>>
     ELSE events' = <<t>> \o events /\ pushes' = <<t>> \o pushes /\ untrimmed' = untrimmed + 1
  /\ UNCHANGED <<activeTraps, trapKeys, sessionsOpened, published, edits, starts>>

\* Mutant: the oldest events are kept.
TrimNewest(s) == IF Len(s) <= EventCap THEN s ELSE SubSeq(s, Len(s) - EventCap + 1, Len(s))

Trimmed(s) == IF Len(s) <= EventCap THEN s ELSE SubSeq(s, 1, EventCap)

TrimEvents(t, lost) ==
  /\ touch[t].pc = "lpush"
  /\ Missing(lost)
  /\ touch' = [touch EXCEPT ![t].pc = "ltrim"]
  /\ IF lost THEN UNCHANGED <<events, untrimmed>>
     ELSE events' = Trimmed(events) /\ untrimmed' = 0
  /\ UNCHANGED <<activeTraps, trapKeys, sessionsOpened, published, edits, starts, pushes>>

\* If the trap is there by now.
UpdateTrapAccess(i) ==
  activeTraps' = IF i \in Traps /\ activeTraps[i] # Nil
                 THEN [activeTraps EXCEPT ![i] = @ + 1] ELSE activeTraps

\* The event is stored: the access is counted, and the callback called.
CountAccess(t) ==
  /\ touch[t].pc = "ltrim"
  /\ touch' = [touch EXCEPT ![t] = Done]
  /\ UpdateTrapAccess(touch[t].trap)
  /\ published' = IF touch[t].type = "honeypot_access" THEN published \cup {t} ELSE published
  /\ UNCHANGED <<trapKeys, events, sessionsOpened, edits, starts, missed, pushes, untrimmed>>

\* createDeceptionEnvironment: a session of its own for a critical request.
CreateDeceptionEnvironment(t, lost) ==
  /\ touch[t].pc = "none"
  /\ Missing(lost)
  /\ touch' = [touch EXCEPT ![t] = Done]
  /\ sessionsOpened' = IF lost THEN sessionsOpened ELSE sessionsOpened \cup {t}
  /\ UNCHANGED <<activeTraps, trapKeys, events, published, edits, starts, pushes, untrimmed>>

\* The process restarts: calls and traps are gone, Redis is not.
RestartService ==
  /\ starts < MaxRestartsOfService
  /\ starts' = starts + 1
  /\ activeTraps' = NoTraps
  /\ touch' = [t \in Touches |-> IF touch[t].pc = "none" THEN NoTouch ELSE Done]
  /\ UNCHANGED <<trapKeys, events, sessionsOpened, published, edits, missed, pushes, untrimmed>>

DeceptionNext ==
  \/ Initialize \/ RestartService
  \/ \E i \in Traps, lost \in BOOLEAN : CreateTrap(i, lost) \/ DeleteTrap(i, lost)
  \/ \E i \in Traps : UpdateTrap(i, 0)
  \/ \E t \in Touches, lost \in BOOLEAN :
       \/ \E i \in Traps \cup {Nil}, type \in Types, s \in Details : TriggerEvent(t, type, i, s, lost)
       \/ PushEvent(t, lost) \/ TrimEvents(t, lost) \/ CreateDeceptionEnvironment(t, lost)
  \/ \E t \in Touches : CountAccess(t)

DeceptionSpec == DeceptionInit /\ [][DeceptionNext]_deceptionVars

-----------------------------------------------------------------------------

\* Three commands store an event and calls interleave between them, yet the list
\* always holds the newest events in the order they were pushed, at least
\* EventCap of them if there were so many, and more only by the pushes whose
\* trim has not been carried out yet.
NewestEventsKept ==
  /\ IsPrefix(events, pushes)
  /\ Len(events) <= EventCap + untrimmed
  /\ Len(pushes) >= EventCap => Len(events) >= EventCap
=============================================================================
