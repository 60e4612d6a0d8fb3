----------------------------- MODULE AuthState -----------------------------
(***************************************************************************)
(* The availability record of one credential and the pure functions that   *)
(* sdk/cliproxy/auth applies to it: recording a success or a failure of a   *)
(* model, aggregating the models into the credential, and deciding whether  *)
(* the selector may use it.                                                 *)
(*                                                                          *)
(* A time.Time is kept as the time LEFT until it: NoTime is the zero Time,  *)
(* 0 a moment that has come, d > 0 a moment d ticks ahead.  The code only   *)
(* asks IsZero, After(now) and Before of future times, so two moments that  *)
(* have both come need not be told apart, and no clock has to be bounded.   *)
(***************************************************************************)
EXTENDS Integers, FiniteSets, FiniteSetsExt

CONSTANTS Model,                \* models a credential may serve
          QuotaBackoffBase,     \* quotaBackoffBase
          QuotaBackoffMax,      \* quotaBackoffMax
          MaxBackoffLevel,      \* the level at which the backoff reaches its cap
          AuthCooldown,         \* after 401, 402, 403
          NotFoundCooldown,     \* after 404
          TransientCooldown,    \* after 408 and the 5xx
          QuotaCooldownDisabled \* the disable-cooling switch

NoTime == -1
Deadline == Nat \cup {NoTime}

\* MaxBackoffLevel is 11 for the code's 1 s and 30 min: 2^11 s is the first
\* power that reaches the cap.
CooldownParameters ==
  /\ IsFiniteSet(Model)
  /\ QuotaBackoffBase \in Nat \ {0} /\ QuotaBackoffMax \in Nat \ {0}
  /\ MaxBackoffLevel \in Nat
  /\ \A l \in 0 .. MaxBackoffLevel : QuotaBackoffBase * 2^l \in Nat \ {0}
  /\ QuotaBackoffBase * 2^MaxBackoffLevel >= QuotaBackoffMax
  /\ \A l \in 0 .. MaxBackoffLevel : l < MaxBackoffLevel =>
        QuotaBackoffBase * 2^l < QuotaBackoffMax
  /\ AuthCooldown \in Nat \ {0} /\ NotFoundCooldown \in Nat \ {0}
  /\ TransientCooldown \in Nat \ {0}
  /\ QuotaCooldownDisabled \in BOOLEAN

ASSUME AuthStateAssumption == CooldownParameters

-----------------------------------------------------------------------------
(* The records. *)

Quota == [exceeded : BOOLEAN, recover : Deadline, level : 0 .. MaxBackoffLevel]
NoQuota == [exceeded |-> FALSE, recover |-> NoTime, level |-> 0]

\* failed stands for LastError # nil, which every failure sets together with
\* Status = error and only a success clears.  tracked says that the map has an
\* entry for the model.
ModelState == [tracked : BOOLEAN, failed : BOOLEAN, unavailable : BOOLEAN,
               next : Deadline, quota : Quota]
Untracked == [tracked |-> FALSE, failed |-> FALSE, unavailable |-> FALSE,
              next |-> NoTime, quota |-> NoQuota]

Credential == [disabled : BOOLEAN, status : {"active", "error", "disabled"},
               unavailable : BOOLEAN, next : Deadline, quota : Quota,
               models : [Model -> ModelState]]
FreshCredential ==
  [disabled |-> FALSE, status |-> "active", unavailable |-> FALSE,
   next |-> NoTime, quota |-> NoQuota, models |-> [m \in Model |-> Untracked]]

-----------------------------------------------------------------------------
(* One tick of time. *)

Left(d) == IF d > 0 THEN d - 1 ELSE d

ElapseQuota(q) == [q EXCEPT !.recover = Left(@)]
ElapseModel(s) == [s EXCEPT !.next = Left(@), !.quota = ElapseQuota(@)]
Elapse(c) == [c EXCEPT !.next = Left(@), !.quota = ElapseQuota(@),
                       !.models = [m \in Model |-> ElapseModel(c.models[m])]]

-----------------------------------------------------------------------------
(* Aggregation of the models into the credential. *)

Tracked(c) == {m \in Model : c.models[m].tracked}

\* An entry whose retry time has come is available again.
Settle(s) == IF s.unavailable /\ s.next = 0
             THEN [s EXCEPT !.unavailable = FALSE, !.next = NoTime]
             ELSE s

\* The latest instead of the earliest.
Latest(D) == IF D = {} THEN NoTime ELSE Max(D)

Earliest(D) == IF D = {} THEN NoTime ELSE Min(D)

\* The retry times of the models that are unavailable until a known moment.
RetryTimes(ms) == {ms[m].next : m \in {x \in Model : ms[x].unavailable}} \ {NoTime}

OverQuota(ms) == {m \in Model : ms[m].quota.exceeded}

AggregateQuota(ms) ==
  IF OverQuota(ms) = {} THEN NoQuota
  ELSE [exceeded |-> TRUE,
        recover  |-> Earliest({ms[m].quota.recover : m \in OverQuota(ms)} \ {NoTime}),
        level    |-> Max({ms[m].quota.level : m \in OverQuota(ms)})]

\* Called with at least one tracked model; an unavailable entry without a retry
\* time counts as down although the selector does not hold it back.
updateAggregatedAvailability(c) ==
  LET ms   == [m \in Model |-> Settle(c.models[m])]
      down == \A m \in Tracked(c) : ms[m].unavailable
  IN  [c EXCEPT !.models = ms,
                !.unavailable = down,
                !.next = IF down THEN Earliest(RetryTimes(ms)) ELSE NoTime,
                !.quota = AggregateQuota(ms)]

hasModelError(c) == \E m \in Model : c.models[m].failed

-----------------------------------------------------------------------------
(* Recording the result of a call for a model. *)

\* resetModelState on the entry ensureModelState returns.
ResetModelState == [Untracked EXCEPT !.tracked = TRUE]

\* Active again although another model still has its error.
MarkSuccessHasty(c, m) ==
  [updateAggregatedAvailability([c EXCEPT !.models[m] = ResetModelState])
     EXCEPT !.status = "active"]

MarkSuccess(c, m) ==
  LET d == updateAggregatedAvailability([c EXCEPT !.models[m] = ResetModelState])
  IN  IF hasModelError(d) THEN d ELSE [d EXCEPT !.status = "active"]

\* The cooldown after a quota error at a backoff level, and the level after it.
QuotaCooldown(level) ==
  IF QuotaCooldownDisabled THEN NoTime
  ELSE IF QuotaBackoffBase * 2^level >= QuotaBackoffMax THEN QuotaBackoffMax
  ELSE QuotaBackoffBase * 2^level
\* The level goes on growing at the cap.
NextLevelUncapped(level) == IF QuotaCooldownDisabled THEN level ELSE level + 1
NextLevel(level) ==
  IF \/ QuotaCooldownDisabled
     \/ QuotaBackoffBase * 2^level >= QuotaBackoffMax
  THEN level ELSE level + 1

\* hint is the provider's Retry-After, NoTime if it gave none.
QuotaRetry(level, hint) == IF hint # NoTime THEN hint ELSE QuotaCooldown(level)
QuotaFailure(q, hint) ==
  [exceeded |-> TRUE, recover |-> QuotaRetry(q.level, hint),
   level |-> IF hint # NoTime THEN q.level ELSE NextLevel(q.level)]

RetryTime(code, q, hint) ==
  CASE code \in {401, 402, 403} -> AuthCooldown
    [] code = 404 -> NotFoundCooldown
    [] code = 429 -> QuotaRetry(q.level, hint)
    [] code \in {408, 500, 502, 503, 504} -> TransientCooldown
    [] OTHER -> NoTime

FailedState(s, code, hint) ==
  [tracked |-> TRUE, failed |-> TRUE, unavailable |-> TRUE,
   next |-> RetryTime(code, s.quota, hint),
   quota |-> IF code = 429 THEN QuotaFailure(s.quota, hint) ELSE s.quota]

MarkFailure(c, m, code, hint) ==
  updateAggregatedAvailability(
    [c EXCEPT !.models[m] = FailedState(@, code, hint), !.status = "error"])

\* Taken out of service, its models kept.
Disabled(c) == [c EXCEPT !.disabled = TRUE, !.status = "disabled"]

-----------------------------------------------------------------------------
(* What the selector makes of it. *)

\* The model is held back by an unexpired retry time.  A missing retry time
\* holds nothing back.
CoolingDown(c, m) == c.models[m].unavailable /\ c.models[m].next > 0

\* The quota flag, which only a success takes back, asked without the time.
BlockedOverQuota(c, m) ==
  \/ c.disabled \/ c.status = "disabled" \/ CoolingDown(c, m)
  \/ c.models[m].quota.exceeded

isAuthBlockedForModel(c, m) ==
  c.disabled \/ c.status = "disabled" \/ CoolingDown(c, m)

\* The moment a cooling credential is reported to come back.
CooldownEnd(c, m) ==
  LET s == c.models[m]
  IN  IF s.quota.recover > 0 THEN s.quota.recover ELSE s.next

-----------------------------------------------------------------------------
(* What the record should say. *)

\* A disabled credential may keep its errors without showing them.
StatusOK(c) == IF c.status = "disabled" THEN c.disabled
               ELSE c.status = "error" <=> hasModelError(c)

\* A model entry that takes no calls before a known moment: unavailable with a
\* time still ahead, or with no time at all.
Down(s) == s.unavailable /\ s.next # 0

WholeCooling(c) == /\ \A m \in Tracked(c) : Down(c.models[m])
                   /\ \E m \in Tracked(c) : CoolingDown(c, m)

\* The aggregate cooldown is in force just while all tracked models are down,
\* and names the first moment one of them comes back.
AggregateOK(c) ==
  /\ (c.unavailable /\ c.next > 0) <=> WholeCooling(c)
  /\ WholeCooling(c) =>
       /\ \E m \in Tracked(c) : CoolingDown(c, m) /\ c.models[m].next = c.next
       /\ \A m \in Tracked(c) : CoolingDown(c, m) => c.next <= c.models[m].next

=============================================================================
