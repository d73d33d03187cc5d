------------------------- MODULE WakeResumeProperties -------------------------
(***************************************************************************)
(* What makes the wake and its resumption correct.                         *)
(***************************************************************************)
EXTENDS WakeResume

(* ResumePromise: one wake, fired once it is due; one context of after the *)
(* firing, fresh when ResumeAfterWakeV1::claim binds it and never          *)
(* exchanged by a later prepare, crash or retry; one provider call for a   *)
(* resume Task, which then ends for good.                                  *)
Over == {v \in Versions : Status(Resume(v)) \in Terminal}
Called == {c[1] : c \in calls}

Promise == INSTANCE ResumePromise WITH
  due     <- IF wake = NoWake THEN NoTime ELSE wake.due,
  ended   <- IF wake = NoWake \/ wake.status = "scheduled" THEN "open"
             ELSE wake.status,
  firedAt <- IF wake # NoWake /\ wake.status = "fired" THEN wake.terminal
             ELSE NoTime,
  context <- IF bound = NoTask THEN NoTime ELSE bound.captured,
  called  <- Called,
  over    <- Over

ImplementsPromise == Promise!Spec

(* docs/resume-after-wake-fresh-context-v1.md:22: "Existing                *)
(* ProviderTaskHandler remains the only external provider effect boundary":*)
(* however the two one-shots are run, re-run and cut off, a call has its   *)
(* permit, no resume Task calls from two attempts, and the calls of one    *)
(* wake are a cooldown apart even with the clock stepping back.            *)
CallsAccounted ==
  /\ \A c \in calls : permits[c[1]] # NoTime /\ actions[c[1]] # "absent"
  /\ \A c, d \in calls : c[1] = d[1] => c = d
  /\ \A v, w \in Versions :
       v # w /\ permits[v] # NoTime /\ permits[w] # NoTime =>
         permits[v] >= permits[w] + Cooldown \/ permits[w] >= permits[v] + Cooldown

(* ResumeAfterWakeV1Prepare.cpp, finish_selection: what a wake is resumed  *)
(* with is what the first prepare was asked for.  Whoever crashes, and     *)
(* whatever was asked for meanwhile, the bound snapshot is a completed one *)
(* of the selected request.                                                *)
ResumesWhatWasSelected ==
  bound # NoTask =>
    /\ bound.request = selected.request
    /\ Status(bound) = "succeeded" /\ Status(Selection) = "succeeded"

(* docs/wake-intent-v0-recovery-observability-design.md, "Durable/arming   *)
(* divergence": while the service runs, wake-status never reports a        *)
(* scheduled wake whose deadline nobody waits for.                         *)
ScheduledIsCovered == pc = "service" => Health # "scheduling_divergence"

(* docs/explicit-exact-wake-v0.md, "Crash and restart reconciliation": a   *)
(* scheduled wake is fired, revoked or put to review, through every crash  *)
(* and restart.                                                            *)
WakeEnds ==
  (wake # NoWake /\ wake.status = "scheduled")
    ~> (wake # NoWake /\ wake.status # "scheduled")


(* The scheduled wake is attended to: at every moment of a running service *)
(* its deadline is waited for, and in the end it is dealt with.            *)
WakeAttended == []ScheduledIsCovered /\ WakeEnds
=============================================================================
