-------------------------- MODULE FailSafeContext --------------------------
(***************************************************************************)
(* FailSafeContext (src/src/app/FailSafeContext.cpp): the one fail-safe of *)
(* a device.  While it is armed, commissioning commands of one fabric (or  *)
(* of the PASE session, fabric 0) are accepted; when it expires, what they *)
(* did is undone.  The undoing is not done by the timer's callback: it     *)
(* queues an event for the clusters and a piece of work that disarms, and  *)
(* the fail-safe is "busy", neither armed nor armable, until both have     *)
(* run.                                                                    *)
(*                                                                         *)
(* The event loop hands out what was queued in order, one thing at a time. *)
(* Posting an event is assumed to succeed; the code only logs when it does *)
(* not.  Timer durations are left out: the timer may fire whenever the     *)
(* fail-safe is armed.                                                     *)
(***************************************************************************)
EXTENDS Naturals, Sequences

VARIABLES
    armed,      \* mFailSafeArmed
    busy,       \* mFailSafeBusy
    fsIndex,    \* mFabricIndex
    invoked,    \* mContextFlags, as a subset of NocCommands \cup {"addRoot"}
    events      \* what the event loop has yet to hand out

failSafeVars == <<armed, busy, fsIndex, invoked, events>>

NocCommands == {"addNoc", "updateNoc"}

ContextFlags == NocCommands \cup {"addRoot"}

Expired(fabric, add) == [type |-> "expired", fabric |-> fabric, add |-> add]

Disarm == [type |-> "disarm", fabric |-> 0, add |-> FALSE]

FailSafeInit ==
    /\ armed = FALSE
    /\ busy = FALSE
    /\ fsIndex = 0
    /\ invoked = {}
    /\ events = <<>>

IsFailSafeArmedFor(fabric) == armed /\ fsIndex = fabric

IsFailSafeFullyDisarmed == ~armed /\ ~busy

NocCommandHasBeenInvoked == invoked \cap NocCommands # {}

(* Mutant: an armed fail-safe is handed to another fabric.                 *)
MayArmAnyone(fabric) == ~busy

(* The guard of HandleArmFailSafe, before the commissioning window's own.  *)
MayArm(fabric) == ~busy /\ (armed => fsIndex = fabric)

(* ArmFailSafe, also for re-arming: the flags are left as they are.        *)
Arm(fabric) ==
    /\ armed' = TRUE
    /\ fsIndex' = fabric
    /\ UNCHANGED <<busy, invoked, events>>

(* ScheduleFailSafeCleanup.                                                *)
ScheduleFailSafeCleanup(fabric, add) ==
    /\ busy' = TRUE
    /\ armed' = FALSE
    /\ events' = events \o <<Expired(fabric, add), Disarm>>
    /\ UNCHANGED <<fsIndex, invoked>>

(* FailSafeTimerExpired: either timer, or ForceFailSafeTimerExpiry.  A     *)
(* timer that fires late finds the fail-safe disarmed and does nothing.    *)
FailSafeTimerExpired ==
    /\ armed
    /\ ScheduleFailSafeCleanup(fsIndex, "addNoc" \in invoked)

(* Mutant: the flags survive the disarming.                                *)
ResetStateKeepsFlags ==
    /\ armed' = FALSE
    /\ busy' = FALSE
    /\ UNCHANGED <<fsIndex, invoked>>

(* ResetState, the effect of DisarmFailSafe: mFabricIndex stays.           *)
ResetState ==
    /\ armed' = FALSE
    /\ busy' = FALSE
    /\ invoked' = {}
    /\ UNCHANGED fsIndex

-----------------------------------------------------------------------------
(* The event loop is about to hand out an event of this type.              *)
IsNext(type) == events # <<>> /\ Head(events).type = type

(* It hands it out, and the handler queues nothing.                        *)
HandOut(type) == IsNext(type) /\ events' = Tail(events)

(* HandleDisarmFailSafe, the work queued behind the expiry event.          *)
HandleDisarmFailSafe == HandOut("disarm") /\ ResetState

=============================================================================
