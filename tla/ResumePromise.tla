---------------------------- MODULE ResumePromise -----------------------------
(***************************************************************************)
(* What is promised of a wake and of the cognitions that resume it: one    *)
(* wake, ended once, fired no earlier than it is due; one context, taken   *)
(* after the wake fired, fresh when it is bound and never exchanged; each  *)
(* resumed cognition called once, after the wake has fired, and ended for  *)
(* good.                                                                   *)
(***************************************************************************)
EXTENDS Naturals

CONSTANTS Versions, FreshFor, NoTime

VARIABLES
  now,
  due,      \* the wake's deadline; NoTime before there is a wake
  ended,    \* "open", or how the wake ended
  firedAt,
  context,  \* when the context bound to the v1 resume was taken, or NoTime
  called,   \* the resumes that have been given to the provider
  over      \* the resumes that have ended

vars == <<now, due, ended, firedAt, context, called, over>>

Init ==
  /\ now \in Nat /\ due = NoTime /\ ended = "open" /\ firedAt = NoTime
  /\ context = NoTime /\ called = {} /\ over = {}

Fired == ended = "fired"

(* How each part may move in one step, whatever the others do.             *)
Schedules ==
  due = NoTime /\ due' \in Nat /\ due' >= now /\ UNCHANGED <<ended, firedAt>>
Ends ==
  /\ due # NoTime /\ ended = "open" /\ UNCHANGED due
  /\ \/ ended' = "fired" /\ now >= due /\ firedAt' = now
     \/ ended' \in {"revoked", "manual_review"} /\ UNCHANGED firedAt
WakeMoves == UNCHANGED <<due, ended, firedAt>> \/ Schedules \/ Ends

Binds ==
  /\ Fired /\ context = NoTime
  /\ context' \in firedAt .. now /\ now - context' <= FreshFor

CallMoves ==
  \/ UNCHANGED called
  \/ \E v \in Versions \ (called \cup over) :
       /\ Fired /\ called' = called \cup {v}
       /\ v = "v1" => context # NoTime

OverMoves == over \subseteq over' /\ over' \subseteq Versions

Next ==
  /\ now' \in Nat
  /\ WakeMoves /\ CallMoves /\ OverMoves
  /\ UNCHANGED context \/ Binds

Spec == Init /\ [][Next]_vars
=============================================================================
