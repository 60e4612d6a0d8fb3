---------------------- MODULE CredentialManagerProofs ----------------------
(***************************************************************************)
(* Theorems about CredentialManager for every value of its constants: the   *)
(* type invariant, the two invariants that tie a credential to its models,  *)
(* and that an attempt calls no credential twice.  Lemmas about the         *)
(* functions of AuthState come first: they keep the type of a credential,   *)
(* its status in step with the errors of its models, and its aggregate      *)
(* cooldown exact.                                                          *)
(***************************************************************************)
EXTENDS CredentialManager, FiniteSetsExt, TLAPS, WellFoundedInduction

USE DEF CooldownParameters, ManagerParameters

-----------------------------------------------------------------------------
(* Least and greatest elements of sets of naturals: what Min and Max of the *)
(* FiniteSetsExt module return.                                              *)

LessThan == {p \in Nat \X Nat : p[1] < p[2]}

LEMMA LessThanWellFounded == IsWellFoundedOn(LessThan, Nat)
BY NatLessThanWellFounded, SMT DEF OpToRel, LessThan

\* A nonempty set of naturals has a least element, and Min picks it.
LEMMA MinOfNats ==
  ASSUME NEW S \in SUBSET Nat, S # {}
  PROVE  Min(S) \in S /\ \A y \in S : Min(S) <= y
<1>1. PICK x \in S : \A y \in S : ~(<<y, x>> \in LessThan)
  BY WFMin, LessThanWellFounded, Zenon
<1>2. ASSUME NEW y \in S PROVE x <= y
  <2>1. x \in Nat /\ y \in Nat
    OBVIOUS
  <2>2. ~(y < x)
    BY <1>1, <2>1 DEF LessThan
  <2>. QED
    BY <2>1, <2>2
<1>. QED
  BY <1>2 DEF Min

\* A nonempty bounded set of naturals has a greatest element, and Max picks it:
\* the mirror image of the set about its bound has a least one.
LEMMA MaxOfBounded ==
  ASSUME NEW n \in Nat, NEW S \in SUBSET (0 .. n), S # {}
  PROVE  Max(S) \in S /\ \A y \in S : Max(S) >= y
<1>. DEFINE T == {n - x : x \in S}
<1>1. T \in SUBSET Nat /\ T # {}
  <2>1. \A x \in 0 .. n : n - x \in Nat
    OBVIOUS
  <2>. QED
    BY <2>1
<1>. HIDE DEF T
<1>2. Min(T) \in T /\ \A y \in T : Min(T) <= y
  BY <1>1, MinOfNats
<1>. USE DEF T
<1>3. PICK x \in S : Min(T) = n - x
  BY <1>2
<1>4. ASSUME NEW y \in S PROVE x >= y
  <2>1. n - x <= n - y
    BY <1>2, <1>3
  <2>2. x \in Int /\ y \in Int
    OBVIOUS
  <2>. QED
    BY <2>1, <2>2
<1>. QED
  BY <1>4 DEF Max

-----------------------------------------------------------------------------
(* Types. *)

LEMMA FreshType == FreshCredential \in Credential
BY AuthStateAssumption
DEF AuthStateAssumption, FreshCredential, Credential, Untracked, ModelState,
    NoQuota, Quota, NoTime, Deadline

LEMMA LeftType == ASSUME NEW d \in Deadline PROVE Left(d) \in Deadline
BY DEF Left, Deadline, NoTime

LEMMA ElapseType ==
  ASSUME NEW c \in Credential PROVE Elapse(c) \in Credential
<1>1. ASSUME NEW q \in Quota PROVE ElapseQuota(q) \in Quota
  BY LeftType DEF ElapseQuota, Quota
<1>2. ASSUME NEW s \in ModelState PROVE ElapseModel(s) \in ModelState
  BY <1>1, LeftType DEF ElapseModel, ModelState
<1>. QED
  BY <1>1, <1>2, LeftType DEF Elapse, Credential

LEMMA SettleType ==
  ASSUME NEW s \in ModelState PROVE Settle(s) \in ModelState
BY DEF Settle, ModelState, Deadline, NoTime

\* The earliest of some moments is one of them, or NoTime if there is none.
LEMMA EarliestOf ==
  ASSUME NEW D \in SUBSET Nat
  PROVE  /\ Earliest(D) \in Deadline
         /\ D = {} => Earliest(D) = NoTime
         /\ D # {} => Earliest(D) \in D /\ \A d \in D : Earliest(D) <= d
BY MinOfNats DEF Earliest, Deadline

LEMMA AggregateQuotaType ==
  ASSUME NEW ms \in [Model -> ModelState] PROVE AggregateQuota(ms) \in Quota
<1>. DEFINE D == {ms[m].quota.recover : m \in OverQuota(ms)} \ {NoTime}
            L == {ms[m].quota.level : m \in OverQuota(ms)}
<1>1. CASE OverQuota(ms) = {}
  BY <1>1, AuthStateAssumption
  DEF AuthStateAssumption, AggregateQuota, NoQuota, Quota, Deadline, NoTime
<1>2. CASE OverQuota(ms) # {}
  <2>1. \A m \in OverQuota(ms) : ms[m].quota \in Quota
    BY DEF OverQuota, ModelState
  <2>2. D \in SUBSET Nat
    BY <2>1 DEF Quota, Deadline
  <2>3. L \in SUBSET (0 .. MaxBackoffLevel) /\ L # {}
    BY <1>2, <2>1 DEF Quota
  <2>. HIDE DEF D, L
  <2>4. Earliest(D) \in Deadline
    BY <2>2, EarliestOf
  <2>5. Max(L) \in 0 .. MaxBackoffLevel
    BY <2>3, MaxOfBounded, AuthStateAssumption DEF AuthStateAssumption
  <2>6. AggregateQuota(ms) = [exceeded |-> TRUE, recover |-> Earliest(D), level |-> Max(L)]
    BY <1>2 DEF AggregateQuota, D, L
  <2>. QED
    BY <2>4, <2>5, <2>6 DEF Quota
<1>. QED
  BY <1>1, <1>2

LEMMA RetryTimesType ==
  ASSUME NEW ms \in [Model -> ModelState] PROVE RetryTimes(ms) \in SUBSET Nat
BY DEF RetryTimes, ModelState, Deadline

LEMMA AggregateType ==
  ASSUME NEW c \in Credential
  PROVE  updateAggregatedAvailability(c) \in Credential
<1>. DEFINE ms == [m \in Model |-> Settle(c.models[m])]
            down == \A m \in Tracked(c) : ms[m].unavailable
<1>1. ms \in [Model -> ModelState]
  BY SettleType DEF Credential
<1>2. AggregateQuota(ms) \in Quota
  BY <1>1, AggregateQuotaType
<1>3. (IF down THEN Earliest(RetryTimes(ms)) ELSE NoTime) \in Deadline
  BY <1>1, RetryTimesType, EarliestOf DEF Deadline
<1>4. down \in BOOLEAN
  OBVIOUS
<1>5. updateAggregatedAvailability(c) =
        [c EXCEPT !.models = ms, !.unavailable = down,
                  !.next = IF down THEN Earliest(RetryTimes(ms)) ELSE NoTime,
                  !.quota = AggregateQuota(ms)]
  BY DEF updateAggregatedAvailability
<1>. HIDE DEF ms, down
<1>. QED
  BY <1>1, <1>2, <1>3, <1>4, <1>5 DEF Credential

LEMMA UntrackedType == Untracked \in ModelState
BY AuthStateAssumption
DEF AuthStateAssumption, Untracked, ModelState, NoQuota, Quota, NoTime, Deadline

LEMMA ResetType == ResetModelState \in ModelState
BY UntrackedType DEF ResetModelState, ModelState

LEMMA MarkSuccessType ==
  ASSUME NEW c \in Credential, NEW m \in Model
  PROVE  MarkSuccess(c, m) \in Credential
<1>1. [c EXCEPT !.models[m] = ResetModelState] \in Credential
  BY ResetType DEF Credential
<1>2. updateAggregatedAvailability([c EXCEPT !.models[m] = ResetModelState]) \in Credential
  BY <1>1, AggregateType
<1>. QED
  BY <1>2 DEF MarkSuccess, Credential

\* The next backoff level stays within the cap, and a cooldown is a moment.
LEMMA BackoffType ==
  ASSUME NEW l \in 0 .. MaxBackoffLevel
  PROVE  NextLevel(l) \in 0 .. MaxBackoffLevel /\ QuotaCooldown(l) \in Deadline
<1>1. NextLevel(l) \in 0 .. MaxBackoffLevel
  BY AuthStateAssumption DEF AuthStateAssumption, NextLevel
<1>2. QuotaCooldown(l) \in Deadline
  BY AuthStateAssumption DEF AuthStateAssumption, QuotaCooldown, Deadline
<1>. QED
  BY <1>1, <1>2

LEMMA FailedStateType ==
  ASSUME NEW s \in ModelState, NEW code \in Nat, NEW hint \in Deadline
  PROVE  FailedState(s, code, hint) \in ModelState
<1>1. s.quota \in Quota /\ s.quota.level \in 0 .. MaxBackoffLevel
  BY DEF ModelState, Quota
<1>2. QuotaRetry(s.quota.level, hint) \in Deadline
  BY <1>1, BackoffType DEF QuotaRetry
<1>3. QuotaFailure(s.quota, hint) \in Quota
  BY <1>1, <1>2, BackoffType DEF QuotaFailure, Quota
<1>4. RetryTime(code, s.quota, hint) \in Deadline
  BY <1>2, AuthStateAssumption DEF AuthStateAssumption, RetryTime, Deadline
<1>. QED
  BY <1>1, <1>3, <1>4 DEF FailedState, ModelState

LEMMA MarkFailureType ==
  ASSUME NEW c \in Credential, NEW m \in Model, NEW code \in Nat,
         NEW hint \in Deadline
  PROVE  MarkFailure(c, m, code, hint) \in Credential
<1>1. FailedState(c.models[m], code, hint) \in ModelState
  BY FailedStateType DEF Credential
<1>2. [c EXCEPT !.models[m] = FailedState(@, code, hint), !.status = "error"]
         \in Credential
  BY <1>1 DEF Credential
<1>. QED
  BY <1>2, AggregateType DEF MarkFailure

-----------------------------------------------------------------------------
(* What aggregation establishes, and what time keeps. *)

\* An entry without a result holds nothing against its model.
UntrackedClean(c) == \A m \in Model : ~c.models[m].tracked => c.models[m] = Untracked

LEMMA AggregateFields ==
  ASSUME NEW c \in Credential,
         NEW ms, ms = [m \in Model |-> Settle(c.models[m])],
         NEW d, d = updateAggregatedAvailability(c)
  PROVE  /\ ms \in [Model -> ModelState]
         /\ d.models = ms /\ d.status = c.status /\ d.disabled = c.disabled
         /\ d.unavailable <=> \A m \in Tracked(c) : ms[m].unavailable
         /\ d.next = IF \A m \in Tracked(c) : ms[m].unavailable
                     THEN Earliest(RetryTimes(ms)) ELSE NoTime
BY SettleType DEF updateAggregatedAvailability, Credential

LEMMA AggregateModels ==
  ASSUME NEW c \in Credential
  PROVE  /\ updateAggregatedAvailability(c).status = c.status
         /\ \A m \in Model : /\ c.models[m] \in ModelState
                            /\ updateAggregatedAvailability(c).models[m] = Settle(c.models[m])
<1>. DEFINE ms == [m \in Model |-> Settle(c.models[m])]
<1>1. /\ updateAggregatedAvailability(c).models = ms
      /\ updateAggregatedAvailability(c).status = c.status
  BY AggregateFields
<1>2. ASSUME NEW m \in Model PROVE c.models[m] \in ModelState
  BY DEF Credential
<1>. QED
  BY <1>1, <1>2

\* Settling forgets only retry times that have come.
LEMMA SettleKeeps ==
  ASSUME NEW s \in ModelState
  PROVE  /\ Settle(s).tracked = s.tracked /\ Settle(s).failed = s.failed
         /\ Settle(s).quota = s.quota
         /\ Settle(s).unavailable <=> Down(s)
         /\ Settle(s).unavailable => Settle(s).next = s.next /\ s.next # 0
BY DEF Settle, ModelState, Down

LEMMA AggregateKeepsClean ==
  ASSUME NEW c \in Credential, UntrackedClean(c)
  PROVE  UntrackedClean(updateAggregatedAvailability(c))
<1>. DEFINE ms == [m \in Model |-> Settle(c.models[m])]
            d == updateAggregatedAvailability(c)
<1>1. d.models = ms
  BY AggregateFields
<1>2. \A m \in Model : c.models[m] \in ModelState /\ ms[m] = Settle(c.models[m])
  BY DEF Credential
<1>. HIDE DEF ms, d
<1>3. ASSUME NEW m \in Model, ~ms[m].tracked PROVE ms[m] = Untracked
  <2>1. c.models[m] = Untracked
    BY <1>2, <1>3, SettleKeeps DEF UntrackedClean
  <2>2. Settle(Untracked) = Untracked
    BY DEF Settle, Untracked
  <2>. QED
    BY <1>2, <2>1, <2>2
<1>. QED
  BY <1>1, <1>3 DEF UntrackedClean, d

\* After an aggregation the credential's cooldown is exact.
LEMMA AggregateExactly ==
  ASSUME NEW c \in Credential, UntrackedClean(c)
  PROVE  AggregateOK(updateAggregatedAvailability(c))
<1>. DEFINE ms == [m \in Model |-> Settle(c.models[m])]
            d == updateAggregatedAvailability(c)
<1>1. /\ ms \in [Model -> ModelState]
      /\ d.models = ms
      /\ d.unavailable <=> \A m \in Tracked(c) : ms[m].unavailable
      /\ d.next = IF \A m \in Tracked(c) : ms[m].unavailable
                  THEN Earliest(RetryTimes(ms)) ELSE NoTime
  BY AggregateFields
<1>2. \A m \in Model : c.models[m] \in ModelState /\ ms[m] = Settle(c.models[m])
  BY DEF Credential
<1>. HIDE DEF ms, d
<1>3. Tracked(d) = Tracked(c)
  BY <1>1, <1>2, SettleKeeps DEF Tracked
<1>4. \A m \in Model : ms[m].unavailable => ms[m].next # 0 /\ m \in Tracked(c)
  BY <1>2, SettleKeeps DEF Tracked, Down, UntrackedClean, Untracked
<1>5. \A m \in Model : Down(ms[m]) <=> ms[m].unavailable
  BY <1>4 DEF Down
<1>6. RetryTimes(ms) \in SUBSET Nat
  BY <1>1, RetryTimesType
<1>7. \A m \in Model : CoolingDown(d, m) <=> ms[m].unavailable /\ ms[m].next \in RetryTimes(ms)
  BY <1>1, <1>4 DEF CoolingDown, RetryTimes, ModelState, Deadline, NoTime
<1>8. \A t \in RetryTimes(ms) : \E m \in Tracked(c) : CoolingDown(d, m) /\ ms[m].next = t
  BY <1>4, <1>7 DEF RetryTimes, Tracked
<1>9. \A t \in RetryTimes(ms) : t > 0
  BY <1>4, <1>6 DEF RetryTimes
<1>10. CASE WholeCooling(d)
  <2>1. d.unavailable /\ d.next = Earliest(RetryTimes(ms)) /\ RetryTimes(ms) # {}
    BY <1>1, <1>3, <1>5, <1>7, <1>10 DEF WholeCooling, Tracked
  <2>2. d.next \in RetryTimes(ms) /\ \A t \in RetryTimes(ms) : d.next <= t
    BY <2>1, <1>6, EarliestOf
  <2>. QED
    BY <2>1, <2>2, <1>1, <1>3, <1>7, <1>8, <1>9, <1>10 DEF AggregateOK, Tracked, d
<1>11. CASE ~WholeCooling(d)
  <2>1. ASSUME d.unavailable, d.next > 0 PROVE FALSE
    <3>1. d.next = Earliest(RetryTimes(ms)) /\ \A m \in Tracked(c) : ms[m].unavailable
      BY <1>1, <2>1
    <3>2. RetryTimes(ms) # {}
      BY <3>1, <2>1, <1>6, EarliestOf DEF NoTime
    <3>. QED
      BY <3>1, <3>2, <1>1, <1>3, <1>5, <1>8, <1>11 DEF WholeCooling, Tracked
  <2>. QED
    BY <2>1, <1>11 DEF AggregateOK, d
<1>. QED
  BY <1>10, <1>11

-----------------------------------------------------------------------------
(* The three facts together: what every credential of the manager satisfies. *)

CredentialOK(c) ==
  c \in Credential /\ UntrackedClean(c) /\ AggregateOK(c) /\ StatusOK(c)

\* Also one disabled on disk.
LEMMA FreshOK ==
  ASSUME NEW disabled \in BOOLEAN,
         NEW s, s = IF disabled THEN "disabled" ELSE "active",
         NEW c, c = [FreshCredential EXCEPT !.disabled = disabled, !.status = s]
  PROVE  CredentialOK(c)
<1>1. c \in Credential
  BY FreshType DEF Credential
<1>2. /\ \A m \in Model : c.models[m] = Untracked
      /\ c.unavailable = FALSE /\ c.status = s /\ c.disabled = disabled
  BY DEF FreshCredential
<1>3. UntrackedClean(c)
  BY <1>2 DEF UntrackedClean
<1>4. Tracked(c) = {} /\ ~hasModelError(c)
  BY <1>2 DEF Tracked, hasModelError, Untracked
<1>. QED
  BY <1>1, <1>2, <1>3, <1>4 DEF CredentialOK, AggregateOK, StatusOK, WholeCooling

LEMMA DisabledOK ==
  ASSUME NEW c, CredentialOK(c)
  PROVE  CredentialOK(Disabled(c))
<1>. DEFINE d == Disabled(c)
<1>1. /\ d \in Credential /\ d.models = c.models /\ d.next = c.next
      /\ d.unavailable = c.unavailable /\ d.status = "disabled" /\ d.disabled
  BY DEF CredentialOK, Disabled, Credential
<1>. HIDE DEF d
<1>2. Tracked(d) = Tracked(c) /\ \A m \in Model : CoolingDown(d, m) = CoolingDown(c, m)
  BY <1>1 DEF Tracked, CoolingDown
<1>3. WholeCooling(d) = WholeCooling(c)
  BY <1>1, <1>2 DEF WholeCooling, Tracked
<1>4. AggregateOK(d)
  BY <1>1, <1>2, <1>3 DEF CredentialOK, AggregateOK, Tracked
<1>. QED
  BY <1>1, <1>4 DEF CredentialOK, UntrackedClean, StatusOK, d

LEMMA SuccessOK ==
  ASSUME NEW c, CredentialOK(c), NEW m \in Model
  PROVE  CredentialOK(MarkSuccess(c, m))
<1>. DEFINE b == [c EXCEPT !.models[m] = ResetModelState]
            d == updateAggregatedAvailability(b)
            e == MarkSuccess(c, m)
<1>1. b \in Credential /\ UntrackedClean(b) /\ b.status = c.status /\ b.disabled = c.disabled
  BY ResetType DEF CredentialOK, Credential, UntrackedClean, ResetModelState, Untracked
<1>2. \A x \in Model : b.models[x].failed => c.models[x].failed
  BY DEF CredentialOK, Credential, ResetModelState, Untracked
<1>3. /\ d \in Credential /\ UntrackedClean(d) /\ AggregateOK(d)
      /\ d.status = c.status /\ d.disabled = c.disabled
  <2>. HIDE DEF b
  <2>. QED
    BY <1>1, AggregateType, AggregateKeepsClean, AggregateExactly, AggregateFields
<1>4. hasModelError(d) => hasModelError(c)
  <2>1. \A x \in Model : d.models[x] = Settle(b.models[x]) /\ b.models[x] \in ModelState
    <3>. HIDE DEF b
    <3>. QED
      BY <1>1, AggregateModels
  <2>. HIDE DEF b, d
  <2>. QED
    BY <1>2, <2>1, SettleKeeps DEF hasModelError
<1>5. e = IF hasModelError(d) THEN d ELSE [d EXCEPT !.status = "active"]
  BY DEF MarkSuccess
<1>. HIDE DEF b, d, e
<1>6. e \in Credential
  BY <1>3, <1>5 DEF Credential
<1>7. e.models = d.models /\ e.unavailable = d.unavailable /\ e.next = d.next
  BY <1>3, <1>5 DEF Credential
<1>8. UntrackedClean(e)
  BY <1>3, <1>7 DEF UntrackedClean
<1>9. AggregateOK(e)
  BY <1>3, <1>7 DEF AggregateOK, WholeCooling, Tracked, CoolingDown
<1>10. StatusOK(e)
  <2>1. CASE hasModelError(d)
    BY <1>3, <1>4, <1>5, <2>1 DEF CredentialOK, StatusOK
  <2>2. CASE ~hasModelError(d)
    BY <1>3, <1>5, <1>7, <2>2 DEF StatusOK, hasModelError, Credential
  <2>. QED
    BY <2>1, <2>2
<1>. QED
  BY <1>6, <1>8, <1>9, <1>10 DEF CredentialOK, e

LEMMA FailureOK ==
  ASSUME NEW c, CredentialOK(c), NEW m \in Model, NEW code \in Nat,
         NEW hint \in Deadline
  PROVE  CredentialOK(MarkFailure(c, m, code, hint))
<1>. DEFINE s == FailedState(c.models[m], code, hint)
            b == [c EXCEPT !.models[m] = s, !.status = "error"]
            d == updateAggregatedAvailability(b)
<1>1. s \in ModelState /\ s.tracked /\ s.failed
  BY FailedStateType DEF CredentialOK, Credential, FailedState
<1>. HIDE DEF s
<1>2. /\ b \in Credential /\ UntrackedClean(b)
      /\ b.status = "error" /\ b.models[m] = s
  BY <1>1 DEF CredentialOK, Credential, UntrackedClean
<1>3. MarkFailure(c, m, code, hint) = d
  BY DEF MarkFailure, s
<1>4. d \in Credential /\ UntrackedClean(d) /\ AggregateOK(d) /\ d.status = "error"
  BY <1>2, AggregateType, AggregateKeepsClean, AggregateExactly, AggregateFields
<1>5. hasModelError(d)
  <2>1. d.models[m] = Settle(s)
    <3>. HIDE DEF b
    <3>. QED
      BY <1>2, AggregateModels
  <2>. QED
    BY <1>1, <2>1, SettleKeeps DEF hasModelError
<1>. HIDE DEF b, d
<1>. QED
  BY <1>3, <1>4, <1>5 DEF CredentialOK, StatusOK

LEMMA ElapseKeeps ==
  ASSUME NEW s \in ModelState
  PROVE  /\ ElapseModel(s).next = Left(s.next) /\ s.next \in Deadline
         /\ ElapseModel(s).unavailable = s.unavailable
         /\ ElapseModel(s).tracked = s.tracked
         /\ ElapseModel(s).failed = s.failed
         /\ s.next = NoTime /\ s.quota.recover = NoTime => ElapseModel(s) = s
<1>1. Left(NoTime) = NoTime
  BY DEF Left, NoTime
<1>2. s.quota \in Quota /\ s.next \in Deadline
  BY DEF ModelState
<1>3. s.quota.recover = NoTime => ElapseQuota(s.quota) = s.quota
  BY <1>1, <1>2 DEF ElapseQuota, Quota
<1>. QED
  BY <1>1, <1>2, <1>3 DEF ElapseModel, ModelState

LEMMA ElapseOK ==
  ASSUME NEW c, CredentialOK(c)
  PROVE  CredentialOK(Elapse(c))
<1>. DEFINE d == Elapse(c)
<1>1. c \in Credential /\ d \in Credential
  BY ElapseType DEF CredentialOK
<1>2. /\ d.unavailable = c.unavailable /\ d.status = c.status
      /\ d.disabled = c.disabled /\ d.next = Left(c.next)
  BY <1>1 DEF Elapse, Credential
<1>3. ASSUME NEW m \in Model
      PROVE  /\ d.models[m] = ElapseModel(c.models[m])
             /\ c.models[m] \in ModelState
             /\ d.models[m].next = Left(c.models[m].next)
             /\ d.models[m].unavailable = c.models[m].unavailable
             /\ d.models[m].tracked = c.models[m].tracked
             /\ d.models[m].failed = c.models[m].failed
             /\ c.models[m].next \in Deadline
  <2>1. d.models[m] = ElapseModel(c.models[m]) /\ c.models[m] \in ModelState
    BY <1>1 DEF Elapse, Credential
  <2>. QED
    BY <2>1, ElapseKeeps
<1>. HIDE DEF d
<1>4. UntrackedClean(d)
  <2>1. ElapseModel(Untracked) = Untracked
    BY UntrackedType, ElapseKeeps DEF Untracked, NoQuota
  <2>. QED
    BY <1>3, <2>1 DEF CredentialOK, UntrackedClean
<1>5. StatusOK(d)
  BY <1>2, <1>3 DEF CredentialOK, StatusOK, hasModelError
<1>6. Tracked(d) = Tracked(c)
  BY <1>3 DEF Tracked
<1>7. AggregateOK(d)
  <2>1. c.next \in Deadline
    BY <1>1 DEF Credential
  <2>2. WholeCooling(d) => WholeCooling(c)
    BY <1>3, <1>6 DEF WholeCooling, Down, CoolingDown, Tracked, Left, Deadline, NoTime
  <2>3. CASE WholeCooling(c)
    <3>1. /\ c.unavailable /\ c.next > 0
          /\ \A m \in Tracked(c) : Down(c.models[m])
          /\ \A m \in Tracked(c) : CoolingDown(c, m) => c.next <= c.models[m].next
      BY <2>3 DEF CredentialOK, AggregateOK, WholeCooling
    <3>2. PICK m \in Tracked(c) : CoolingDown(c, m) /\ c.models[m].next = c.next
      BY <2>3 DEF CredentialOK, AggregateOK
    <3>3. CASE c.next = 1
      <4>1. d.next = 0 /\ ~Down(d.models[m])
        BY <1>2, <1>3, <3>2, <3>3 DEF Left, Down, Tracked
      <4>. QED
        BY <4>1, <3>2, <1>6 DEF AggregateOK, WholeCooling
    <3>4. CASE c.next > 1
      <4>1. \A x \in Tracked(c) : Down(d.models[x])
        BY <1>3, <2>1, <3>1, <3>4 DEF Down, CoolingDown, Left, Deadline, NoTime, Tracked
      <4>2. CoolingDown(d, m) /\ d.models[m].next = d.next /\ d.next > 0
        BY <1>2, <1>3, <2>1, <3>2, <3>4 DEF CoolingDown, Left, Tracked, Deadline, NoTime
      <4>3. \A x \in Tracked(c) : CoolingDown(d, x) => d.next <= d.models[x].next
        BY <1>2, <1>3, <2>1, <3>1 DEF CoolingDown, Left, Tracked, Deadline, NoTime
      <4>. QED
        BY <1>2, <1>6, <3>1, <3>2, <4>1, <4>2, <4>3 DEF AggregateOK, WholeCooling
    <3>. QED
      BY <2>1, <3>1, <3>3, <3>4 DEF Deadline, NoTime
  <2>4. CASE ~WholeCooling(c)
    BY <1>2, <2>1, <2>2, <2>4 DEF CredentialOK, AggregateOK, Left, Deadline, NoTime
  <2>. QED
    BY <2>3, <2>4
<1>. QED
  BY <1>1, <1>4, <1>5, <1>7 DEF CredentialOK, d

-----------------------------------------------------------------------------
(* Operators of the manager. *)

LEMMA RotatedType ==
  ASSUME NEW l \in ProviderLists, NEW o \in Nat
  PROVE  /\ o % Len(l) \in 0 .. Len(l) - 1
         /\ Rotated(l, o % Len(l)) \in Seq(Provider)
         /\ Len(Rotated(l, o % Len(l))) = Len(l)
         /\ Len(l) \in Nat \ {0}
<1>1. l \in Seq(Provider) /\ Len(l) \in Nat \ {0}
  BY ManagerAssumption DEF ManagerAssumption
<1>2. o % Len(l) \in 0 .. Len(l) - 1
  BY <1>1
<1>3. ASSUME NEW k \in 0 .. Len(l) - 1
      PROVE  Rotated(l, k) \in [1 .. Len(l) -> Provider]
  BY <1>1 DEF Rotated
<1>4. \A k \in 0 .. Len(l) - 1 : Rotated(l, k) \in Seq(Provider) /\ Len(Rotated(l, k)) = Len(l)
  BY <1>1, <1>3
<1>. QED
  BY <1>1, <1>2, <1>4

\* A rotation of a list without repetitions has none.
LEMMA RotatedDistinct ==
  ASSUME NEW l \in ProviderLists, NEW k \in 0 .. Len(l) - 1
  PROVE  Distinct(Rotated(l, k))
<1>1. l \in Seq(Provider) /\ Len(l) \in Nat \ {0} /\ Distinct(l)
  BY ManagerAssumption DEF ManagerAssumption
<1>2. Len(Rotated(l, k)) = Len(l)
  <2>1. Rotated(l, k) \in [1 .. Len(l) -> Provider]
    BY <1>1 DEF Rotated
  <2>. QED
    BY <1>1, <2>1
<1>. DEFINE pos(i) == IF i + k <= Len(l) THEN i + k ELSE i + k - Len(l)
<1>3. \A i \in 1 .. Len(l) : Rotated(l, k)[i] = l[pos(i)] /\ pos(i) \in 1 .. Len(l)
  BY <1>1 DEF Rotated
<1>4. \A i, j \in 1 .. Len(l) : pos(i) = pos(j) => i = j
  BY <1>1
<1>. HIDE DEF pos
<1>. QED
  BY <1>1, <1>2, <1>3, <1>4 DEF Distinct

LEMMA IdleType == Idle \in RequestState
BY ManagerAssumption DEF ManagerAssumption, Idle, RequestState, NoAuth, NoError

LEMMA WaitsType ==
  ASSUME TypeOK, NEW r \in Request PROVE CooldownWaits(r) \in SUBSET Nat
<1>1. req[r].model \in Model
  BY DEF TypeOK, RequestState
<1>2. ASSUME NEW a \in Auth, CoolingDown(auths[a], req[r].model)
      PROVE  CooldownEnd(auths[a], req[r].model) \in Nat
  <2>1. auths[a].models[req[r].model] \in ModelState
    BY <1>1 DEF TypeOK, Credential
  <2>. QED
    BY <1>2, <2>1 DEF CoolingDown, CooldownEnd, ModelState, Quota, Deadline, NoTime
<1>. QED
  BY <1>2 DEF CooldownWaits

-----------------------------------------------------------------------------
(* The type invariant. *)

\* A request waits only if it has an attempt left, so that waking up does not
\* count beyond RequestRetry.
WaitsWithAttempt == \A r \in Request : req[r].pc = "wait" => req[r].attempt < RequestRetry

\* A writer at work has a credential.
Working(copy) == copy.phase # "none" => copy.auth \in Auth

IInv == TypeOK /\ WaitsWithAttempt /\ \A w \in Writer : Working(copies[w])

LEMMA FromFileType ==
  ASSUME NEW disabled \in BOOLEAN PROVE FromFile(disabled) \in Credential
BY FreshOK DEF FromFile, CredentialOK

LEMMA DisabledType ==
  ASSUME NEW c \in Credential PROVE Disabled(c) \in Credential
BY DEF Disabled, Credential

\* What a writer's clone is when the rest of it has been read.
LEMMA CompletedType ==
  ASSUME TypeOK, NEW copy \in Copy, copy.auth \in Auth
  PROVE  /\ Completed(copy) \in Copy
         /\ Completed(copy).auth = copy.auth
         /\ Completed(copy).phase = "refreshing"
<1>1. \A c \in Auth : auths[c].models \in [Model -> ModelState]
  BY DEF TypeOK, Credential
<1>2. [copy.cred EXCEPT !.models = auths[copy.auth].models] \in Credential
  BY <1>1 DEF Copy, Credential
<1>. QED
  BY <1>2 DEF Completed, Copy

LEMMA NoCopyType == NoCopy \in Copy
BY FreshType DEF NoCopy, Copy, NoAuth

\* A record put in place of another keeps the types.
LEMMA UpdateType ==
  ASSUME IInv, NEW a \in Auth, NEW c \in Credential,
         NEW cs \in [Writer -> Copy], \A w \in Writer : Working(cs[w]),
         Update(a, c, cs)
  PROVE  IInv'
<1>1. auths' \in [Auth -> Credential]
  BY DEF Update, IInv, TypeOK
<1>2. ASSUME NEW w \in Writer PROVE copies'[w] \in Copy /\ Working(copies'[w])
  <2>1. CASE cs[w].phase = "cloning" /\ cs[w].auth = a
    BY <2>1, CompletedType DEF Update, IInv, Working
  <2>2. CASE ~(cs[w].phase = "cloning" /\ cs[w].auth = a)
    BY <2>2 DEF Update
  <2>. QED
    BY <2>1, <2>2
<1>3. copies' \in [Writer -> Copy]
  BY <1>2 DEF Update
<1>. QED
  BY <1>1, <1>2, <1>3 DEF Update, IInv, TypeOK, WaitsWithAttempt

LEMMA SetCopyType ==
  ASSUME IInv, NEW w \in Writer, NEW copy \in Copy, Working(copy), SetCopy(w, copy)
  PROVE  IInv'
BY DEF SetCopy, IInv, TypeOK, WaitsWithAttempt

\* A request's fields, one change at a time.
LEMMA RequestFields ==
  ASSUME TypeOK, NEW r \in Request
  PROVE  /\ req[r] \in RequestState
         /\ req[r].model \in Model /\ req[r].attempt \in 0 .. RequestRetry
         /\ req[r].pi \in Nat /\ req[r].tried \in SUBSET Auth
         /\ req[r].cur \in Auth \cup {NoAuth} /\ req[r].wait \in Nat
BY DEF TypeOK, RequestState

\* Replacing a credential by one of the right type keeps the map's type, also
\* when its key is not a credential.
LEMMA AuthsType ==
  ASSUME TypeOK, NEW a, NEW c, a \in Auth => c \in Credential
  PROVE  [auths EXCEPT ![a] = c] \in [Auth -> Credential]
BY DEF TypeOK

\* A step that gives one request the new state q.
LEMMA RequestStep ==
  ASSUME IInv, NEW r \in Request, NEW q \in RequestState,
         q.pc = "wait" => q.attempt < RequestRetry,
         req' = [req EXCEPT ![r] = q]
  PROVE  req' \in [Request -> RequestState] /\ WaitsWithAttempt'
BY DEF IInv, TypeOK, WaitsWithAttempt

LEMMA FinishedType ==
  ASSUME IInv, NEW r \in Request, Finished(r)
  PROVE  /\ req' \in [Request -> RequestState]
         /\ calls' \in [Request -> [Auth -> Nat]]
         /\ WaitsWithAttempt'
<1>1. NoCalls \in [Auth -> Nat]
  BY DEF NoCalls
<1>2. Idle.pc # "wait"
  BY DEF Idle
<1>. QED
  BY <1>1, <1>2, IdleType DEF IInv, TypeOK, WaitsWithAttempt, Finished

LEMMA IInvInit == Init => IInv
<1>1. \A r \in Request : Init => req[r].pc = "idle"
  BY DEF Init, Idle
<1>2. Init => TypeOK
  BY FreshType, IdleType, NoCopyType, ManagerAssumption
  DEF ManagerAssumption, Init, TypeOK, NoCalls
<1>3. \A w \in Writer : Init => Working(copies[w])
  BY DEF Init, Working, NoCopy
<1>. QED
  BY <1>1, <1>2, <1>3 DEF IInv, WaitsWithAttempt

LEMMA IInvStep == IInv /\ [Next]_vars => IInv'
<1>. SUFFICES ASSUME IInv, [Next]_vars PROVE IInv'
  OBVIOUS
<1>. USE DEF IInv
<1>1. ASSUME NEW r \in Request, Arrive(r) PROVE IInv'
  <2>1. PICK m \in Model, l \in ProviderLists, s \in AllowedSets : Start(r, m, l, s)
    BY <1>1 DEF Arrive
  <2>2. offsets[m] \in Nat /\ s \in SUBSET Auth
    BY ManagerAssumption DEF ManagerAssumption, TypeOK
  <2>3. Rotated(l, offsets[m] % Len(l)) \in Seq(Provider) /\ (offsets[m] + 1) % Len(l) \in Nat
    <3>1. offsets[m] + 1 \in Nat /\ \A i, n \in Nat : i \in 0 .. n - 1 => i \in Nat
      BY <2>2
    <3>2. Rotated(l, offsets[m] % Len(l)) \in Seq(Provider)
      BY <2>2, RotatedType
    <3>3. (offsets[m] + 1) % Len(l) \in 0 .. Len(l) - 1 /\ Len(l) \in Nat
      BY <3>1, RotatedType
    <3>. QED
      BY <3>1, <3>2, <3>3
  <2>. DEFINE q == [Idle EXCEPT !.pc = "pick", !.model = m, !.allowed = s,
                                !.providers = Rotated(l, offsets[m] % Len(l))]
  <2>4. q \in RequestState /\ q.pc = "pick"
    BY <2>2, <2>3, IdleType DEF RequestState
  <2>5. req' = [req EXCEPT ![r] = q] /\ offsets' = [offsets EXCEPT ![m] = (offsets[m] + 1) % Len(l)]
    BY <2>1 DEF Start, TypeOK
  <2>. HIDE DEF q
  <2>. QED
    BY <2>1, <2>3, <2>4, <2>5 DEF Start, TypeOK, WaitsWithAttempt
<1>2. ASSUME NEW r \in Request, Pick(r) PROVE IInv'
  <2>1. PICK a \in Available(r) :
          /\ req' = [req EXCEPT ![r].pc = "exec", ![r].cur = a, ![r].tried = @ \cup {a}]
          /\ calls' = [calls EXCEPT ![r][a] = @ + 1]
    BY <1>2 DEF Pick
  <2>2. a \in Auth
    BY DEF Available, Candidates
  <2>. DEFINE q == [req[r] EXCEPT !.pc = "exec", !.cur = a, !.tried = @ \cup {a}]
  <2>3. req' \in [Request -> RequestState] /\ WaitsWithAttempt'
    <3>1. q \in RequestState /\ q.pc = "exec"
      BY <2>2, RequestFields DEF RequestState
    <3>2. req' = [req EXCEPT ![r] = q]
      BY <2>1
    <3>. HIDE DEF q
    <3>. QED
      BY <3>1, <3>2, RequestStep
  <2>4. calls' \in [Request -> [Auth -> Nat]]
    BY <2>1, <2>2 DEF TypeOK
  <2>5. cursors' \in [Provider \X Model -> 0 .. CursorWrap]
    <3>1. CASE CursorKey(r) \in Provider \X Model
      <4>1. Index(r) + 1 \in 0 .. CursorWrap
        BY <3>1, ManagerAssumption DEF ManagerAssumption, Index, TypeOK
      <4>. QED
        BY <1>2, <4>1 DEF Pick, TypeOK
    <3>2. CASE CursorKey(r) \notin Provider \X Model
      BY <1>2, <3>2 DEF Pick, TypeOK
    <3>. QED
      BY <3>1, <3>2
  <2>. QED
    BY <1>2, <2>3, <2>4, <2>5 DEF Pick, TypeOK
<1>3. ASSUME NEW r \in Request, Succeed(r) PROVE IInv'
  <2>1. auths' \in [Auth -> Credential]
    BY <1>3, AuthsType, MarkSuccessType, RequestFields DEF Succeed, TypeOK
  <2>. QED
    BY <1>3, <2>1, FinishedType DEF Succeed, TypeOK
<1>4. ASSUME NEW r \in Request, NEW code \in FailureStatus,
             NEW hint \in RetryHint \cup {NoTime}, Fail(r, code, hint)
      PROVE  IInv'
  <2>1. code \in Nat /\ hint \in Deadline
    BY ManagerAssumption DEF ManagerAssumption, Deadline
  <2>2. auths' \in [Auth -> Credential]
    BY <1>4, <2>1, AuthsType, MarkFailureType, RequestFields DEF Fail, TypeOK
  <2>. DEFINE q == [req[r] EXCEPT !.pc = "pick", !.cur = NoAuth, !.err = code]
  <2>3. req' \in [Request -> RequestState] /\ WaitsWithAttempt'
    <3>1. q \in RequestState /\ q.pc = "pick"
      BY RequestFields DEF RequestState
    <3>2. req' = [req EXCEPT ![r] = q]
      <4>1. req' = [req EXCEPT ![r].pc = "pick", ![r].cur = NoAuth, ![r].err = code]
        BY <1>4, Zenon DEF Fail
      <4>. QED
        BY <4>1
    <3>. HIDE DEF q
    <3>. QED
      BY <3>1, <3>2, RequestStep
  <2>. QED
    BY <1>4, <2>2, <2>3 DEF Fail, TypeOK
<1>5. ASSUME NEW r \in Request, NextProvider(r) PROVE IInv'
  <2>. DEFINE q == [req[r] EXCEPT !.pi = @ + 1, !.tried = {}, !.err = NoError]
  <2>1. q \in RequestState /\ q.pc = "pick"
    <3>1. req[r] \in RequestState /\ req[r].pc = "pick" /\ req[r].pi + 1 \in Nat
      BY <1>5, RequestFields DEF NextProvider
    <3>. QED
      BY <3>1 DEF RequestState
  <2>2. req' = [req EXCEPT ![r] = q]
    BY <1>5 DEF NextProvider
  <2>. HIDE DEF q
  <2>3. req' \in [Request -> RequestState] /\ WaitsWithAttempt'
    BY <2>1, <2>2, RequestStep
  <2>. QED
    BY <1>5, <2>3 DEF NextProvider, TypeOK
<1>6. ASSUME NEW r \in Request, PassFails(r) PROVE IInv'
  <2>. DEFINE q == [req[r] EXCEPT !.pc = "decide",
                                  !.err = IF @ = NoError THEN SelectionError ELSE @]
  <2>1. q \in RequestState /\ q.pc = "decide"
    BY RequestFields DEF RequestState
  <2>2. req' = [req EXCEPT ![r] = q]
    BY <1>6 DEF PassFails
  <2>. HIDE DEF q
  <2>3. req' \in [Request -> RequestState] /\ WaitsWithAttempt'
    BY <2>1, <2>2, RequestStep
  <2>. QED
    BY <1>6, <2>3 DEF PassFails, TypeOK
<1>7. ASSUME NEW r \in Request, Retry(r) PROVE IInv'
  <2>1. Min(CooldownWaits(r)) \in Nat /\ req[r].attempt < RequestRetry
    BY <1>7, WaitsType, MinOfNats DEF Retry, shouldRetryAfterError
  <2>. DEFINE q == [req[r] EXCEPT !.pc = "wait", !.wait = Min(CooldownWaits(r))]
  <2>2. q \in RequestState /\ q.attempt < RequestRetry
    BY <2>1, RequestFields DEF RequestState
  <2>3. req' = [req EXCEPT ![r] = q]
    BY <1>7 DEF Retry
  <2>. HIDE DEF q
  <2>4. req' \in [Request -> RequestState] /\ WaitsWithAttempt'
    BY <2>2, <2>3, RequestStep
  <2>. QED
    BY <1>7, <2>4 DEF Retry, TypeOK
<1>8. ASSUME NEW r \in Request, GiveUp(r) PROVE IInv'
  BY <1>8, FinishedType DEF GiveUp, TypeOK
<1>9. ASSUME NEW r \in Request, Wake(r) PROVE IInv'
  <2>1. req[r].attempt + 1 \in 0 .. RequestRetry
    BY <1>9, RequestFields, ManagerAssumption DEF ManagerAssumption, Wake, WaitsWithAttempt
  <2>2. NoCalls \in [Auth -> Nat]
    BY DEF NoCalls
  <2>. DEFINE q == [req[r] EXCEPT !.pc = "pick", !.attempt = @ + 1, !.pi = 1,
                                  !.tried = {}, !.err = NoError]
  <2>3. req' \in [Request -> RequestState] /\ WaitsWithAttempt'
    <3>1. q \in RequestState /\ q.pc = "pick"
      BY <2>1, RequestFields DEF RequestState
    <3>2. req' = [req EXCEPT ![r] = q]
      BY <1>9 DEF Wake
    <3>. HIDE DEF q
    <3>. QED
      BY <3>1, <3>2, RequestStep
  <2>. QED
    BY <1>9, <2>2, <2>3 DEF Wake, TypeOK
<1>10. ASSUME NEW r \in Request, Cancel(r) PROVE IInv'
  BY <1>10, FinishedType DEF Cancel, TypeOK
<1>11. ASSUME NEW a \in Auth, NEW disabled \in BOOLEAN, ReplaceAuth(a, disabled)
       PROVE  IInv'
  BY <1>11, FromFileType, UpdateType DEF ReplaceAuth, TypeOK
<1>12. ASSUME NEW w \in Writer, NEW a \in Auth, ReadToDisable(w, a) PROVE IInv'
  <2>1. [phase |-> "disabling", auth |-> a, cred |-> Disabled(auths[a])] \in Copy
    BY DisabledType DEF Copy, TypeOK
  <2>. QED
    BY <1>12, <2>1, SetCopyType DEF ReadToDisable, Working
<1>13. ASSUME NEW w \in Writer, NEW a \in Auth, CheckRefresh(w, a) PROVE IInv'
  <2>1. [NoCopy EXCEPT !.phase = "pending", !.auth = a] \in Copy
    BY NoCopyType DEF Copy
  <2>. QED
    BY <1>13, <2>1, SetCopyType DEF CheckRefresh, Working, NoCopy
<1>14. ASSUME NEW w \in Writer, CloneFields(w) PROVE IInv'
  <2>. DEFINE c == [copies[w] EXCEPT !.phase = "cloning", !.cred = auths[copies[w].auth]]
  <2>1. copies[w] \in Copy /\ copies[w].auth \in Auth
    BY <1>14 DEF CloneFields, Working, TypeOK
  <2>2. c \in Copy /\ Working(c)
    BY <2>1 DEF Copy, Working, TypeOK
  <2>3. SetCopy(w, c)
    BY <1>14 DEF CloneFields
  <2>. HIDE DEF c
  <2>. QED
    BY <2>2, <2>3, SetCopyType
<1>15. ASSUME NEW w \in Writer, CloneModels(w) PROVE IInv'
  <2>1. copies[w] \in Copy /\ copies[w].auth \in Auth
    BY <1>15 DEF CloneModels, Working, TypeOK
  <2>. QED
    BY <1>15, <2>1, CompletedType, SetCopyType DEF CloneModels, Working
<1>16. ASSUME NEW w \in Writer, RefreshFails(w) PROVE IInv'
  BY <1>16, NoCopyType, SetCopyType DEF RefreshFails, Working, NoCopy
<1>17. ASSUME NEW w \in Writer, WriteBack(w) PROVE IInv'
  <2>1. copies[w] \in Copy /\ copies[w].auth \in Auth /\ copies[w].cred \in Credential
    BY <1>17 DEF WriteBack, Working, TypeOK, Copy
  <2>. DEFINE cs == [copies EXCEPT ![w] = NoCopy]
  <2>2. cs \in [Writer -> Copy] /\ \A x \in Writer : Working(cs[x])
    BY NoCopyType DEF TypeOK, Working, NoCopy
  <2>3. Update(copies[w].auth, copies[w].cred, cs)
    BY <1>17 DEF WriteBack
  <2>. HIDE DEF cs
  <2>. QED
    BY <2>1, <2>2, <2>3, UpdateType
<1>18. ASSUME Tick PROVE IInv'
  <2>1. auths' \in [Auth -> Credential]
    BY <1>18, ElapseType DEF Tick, TypeOK
  <2>2. \A d \in Nat : Left(d) \in Nat
    BY DEF Left
  <2>4. ASSUME NEW w \in Writer PROVE copies'[w] \in Copy /\ Working(copies'[w])
    BY <1>18, ElapseType DEF Tick, TypeOK, Copy, Working
  <2>5. copies' \in [Writer -> Copy]
    BY <1>18, <2>4 DEF Tick
  <2>3. req' \in [Request -> RequestState] /\ WaitsWithAttempt'
    BY <1>18, <2>2 DEF Tick, TypeOK, RequestState, WaitsWithAttempt
  <2>. QED
    BY <1>18, <2>1, <2>3, <2>4, <2>5 DEF Tick, TypeOK
<1>19. CASE UNCHANGED vars
  BY <1>19 DEF vars, TypeOK, WaitsWithAttempt, Working
<1>. QED
  BY <1>1, <1>2, <1>3, <1>4, <1>5, <1>6, <1>7, <1>8, <1>9, <1>10, <1>11, <1>12, <1>13,
     <1>14, <1>15, <1>16, <1>17, <1>18, <1>19
  DEF Next, Serve, ProviderFails

LEMMA IInvAlways == Spec => []IInv
BY IInvInit, IInvStep, PTL DEF Spec

\* Every variable keeps its type: in particular no credential map, cursor or
\* backoff level grows beyond its bound, and no request counts more attempts
\* than RequestRetry allows (Execute, MarkResult, RoundRobinSelector.Pick).
THEOREM TypeCorrect == Spec => []TypeOK
BY IInvAlways, PTL DEF IInv

-----------------------------------------------------------------------------
(* The credentials. *)

\* A writer holds a sound record, unless its credential is refreshed.
CopyOK(copy) ==
  copy.phase # "none" =>
    copy.auth \in Refreshable \/ (copy.phase = "disabling" /\ CredentialOK(copy.cred))

AuthsOK == /\ \A a \in Auth \ Refreshable : CredentialOK(auths[a])
           /\ \A w \in Writer : CopyOK(copies[w])

LEMMA FreshCredentialOK == CredentialOK(FreshCredential)
<1>1. FreshCredential = [FreshCredential EXCEPT !.disabled = FALSE, !.status = "active"]
  <2>1. FreshCredential.disabled = FALSE /\ FreshCredential.status = "active"
    BY DEF FreshCredential
  <2>2. \A c \in Credential : c.disabled = FALSE /\ c.status = "active" =>
          c = [c EXCEPT !.disabled = FALSE, !.status = "active"]
    BY DEF Credential
  <2>. QED
    BY <2>1, <2>2, FreshType
<1>. QED
  BY <1>1, FreshOK

LEMMA AuthsOKInit == Init => AuthsOK
BY FreshCredentialOK DEF Init, AuthsOK, CopyOK, NoCopy

LEMMA UpdateOK ==
  ASSUME IInv, AuthsOK, NEW a, NEW c, NEW cs,
         a \in Refreshable \/ CredentialOK(c),
         \A w \in Writer : CopyOK(cs[w]) /\ cs[w] \in Copy,
         Update(a, c, cs)
  PROVE  AuthsOK'
<1>1. \A b \in Auth \ Refreshable : CredentialOK(auths'[b])
  BY DEF Update, IInv, TypeOK, AuthsOK
<1>2. ASSUME NEW w \in Writer PROVE CopyOK(copies'[w])
  <2>1. CASE cs[w].phase = "cloning" /\ cs[w].auth = a
    <3>1. copies'[w].auth = cs[w].auth /\ cs[w].auth \in Refreshable
      BY <2>1 DEF Update, Completed, CopyOK, Copy
    <3>. QED
      BY <3>1 DEF CopyOK
  <2>2. CASE ~(cs[w].phase = "cloning" /\ cs[w].auth = a)
    BY <2>2 DEF Update
  <2>. QED
    BY <2>1, <2>2
<1>. QED
  BY <1>1, <1>2 DEF AuthsOK

LEMMA SetCopyOK ==
  ASSUME IInv, AuthsOK, NEW w \in Writer, NEW copy, CopyOK(copy), SetCopy(w, copy)
  PROVE  AuthsOK'
BY DEF SetCopy, AuthsOK, IInv, TypeOK

LEMMA AuthsOKStep == IInv /\ AuthsOK /\ [Next]_vars => AuthsOK'
<1>. SUFFICES ASSUME IInv, AuthsOK, [Next]_vars PROVE AuthsOK'
  OBVIOUS
<1>0. auths \in [Auth -> Credential] /\ copies \in [Writer -> Copy]
  BY DEF IInv, TypeOK
<1>1. ASSUME NEW r \in Request, Succeed(r) PROVE AuthsOK'
  <2>1. req[r].model \in Model
    BY RequestFields DEF IInv
  <2>2. \A a \in Auth \ Refreshable : CredentialOK(MarkSuccess(auths[a], req[r].model))
    BY <2>1, SuccessOK DEF AuthsOK
  <2>. QED
    BY <1>0, <1>1, <2>2 DEF Succeed, AuthsOK
<1>2. ASSUME NEW r \in Request, NEW code \in FailureStatus,
             NEW hint \in RetryHint \cup {NoTime}, Fail(r, code, hint)
      PROVE  AuthsOK'
  <2>1. req[r].model \in Model
    BY RequestFields DEF IInv
  <2>2. code \in Nat /\ hint \in Deadline
    BY ManagerAssumption DEF ManagerAssumption, Deadline
  <2>3. \A a \in Auth \ Refreshable :
          CredentialOK(MarkFailure(auths[a], req[r].model, code, hint))
    BY <2>1, <2>2, FailureOK DEF AuthsOK
  <2>. QED
    BY <1>0, <1>2, <2>3 DEF Fail, AuthsOK
<1>3. ASSUME NEW a \in Auth, NEW disabled \in BOOLEAN, ReplaceAuth(a, disabled)
      PROVE  AuthsOK'
  <2>1. CredentialOK(FromFile(disabled))
    BY FreshOK DEF FromFile
  <2>. QED
    BY <1>0, <1>3, <2>1, UpdateOK DEF ReplaceAuth, AuthsOK
<1>4. ASSUME NEW w \in Writer, NEW a \in Auth, ReadToDisable(w, a) PROVE AuthsOK'
  <2>1. CopyOK([phase |-> "disabling", auth |-> a, cred |-> Disabled(auths[a])])
    BY DisabledOK DEF CopyOK, AuthsOK
  <2>. QED
    BY <1>4, <2>1, SetCopyOK DEF ReadToDisable
<1>5. ASSUME NEW w \in Writer, NEW a \in Auth, CheckRefresh(w, a) PROVE AuthsOK'
  <2>1. CopyOK([NoCopy EXCEPT !.phase = "pending", !.auth = a])
    BY <1>5 DEF CheckRefresh, CopyOK, NoCopy
  <2>. QED
    BY <1>5, <2>1, SetCopyOK DEF CheckRefresh
<1>6. ASSUME NEW w \in Writer, CloneFields(w) PROVE AuthsOK'
  <2>1. copies[w].auth \in Refreshable
    BY <1>6 DEF CloneFields, AuthsOK, CopyOK
  <2>2. CopyOK([copies[w] EXCEPT !.phase = "cloning", !.cred = auths[copies[w].auth]])
    BY <1>0, <2>1 DEF CopyOK, Copy
  <2>. QED
    BY <1>6, <2>2, SetCopyOK DEF CloneFields
<1>7. ASSUME NEW w \in Writer, CloneModels(w) PROVE AuthsOK'
  <2>1. copies[w].auth \in Refreshable
    BY <1>7 DEF CloneModels, AuthsOK, CopyOK
  <2>2. CopyOK(Completed(copies[w]))
    BY <1>0, <2>1 DEF CopyOK, Copy, Completed
  <2>. QED
    BY <1>7, <2>2, SetCopyOK DEF CloneModels
<1>8. ASSUME NEW w \in Writer, RefreshFails(w) PROVE AuthsOK'
  <2>1. CopyOK(NoCopy)
    BY DEF CopyOK, NoCopy
  <2>. QED
    BY <1>8, <2>1, SetCopyOK DEF RefreshFails
<1>9. ASSUME NEW w \in Writer, WriteBack(w) PROVE AuthsOK'
  <2>. DEFINE cs == [copies EXCEPT ![w] = NoCopy]
  <2>1. copies[w].auth \in Refreshable \/ CredentialOK(copies[w].cred)
    BY <1>9 DEF WriteBack, AuthsOK, CopyOK
  <2>2. \A x \in Writer : CopyOK(cs[x]) /\ cs[x] \in Copy
    BY <1>0, NoCopyType DEF AuthsOK, CopyOK, NoCopy
  <2>3. Update(copies[w].auth, copies[w].cred, cs)
    BY <1>9 DEF WriteBack
  <2>. HIDE DEF cs
  <2>. QED
    BY <2>1, <2>2, <2>3, UpdateOK
<1>10. ASSUME Tick PROVE AuthsOK'
  <2>1. \A a \in Auth \ Refreshable : CredentialOK(auths'[a])
    BY <1>10, ElapseOK DEF Tick, AuthsOK
  <2>2. ASSUME NEW w \in Writer PROVE CopyOK(copies'[w])
    <3>1. /\ copies'[w].phase = copies[w].phase /\ copies'[w].auth = copies[w].auth
          /\ copies'[w].cred = Elapse(copies[w].cred)
      BY <1>0, <1>10 DEF Tick, Copy
    <3>. QED
      BY <3>1, ElapseOK DEF AuthsOK, CopyOK
  <2>. QED
    BY <2>1, <2>2 DEF AuthsOK
<1>11. CASE UNCHANGED <<auths, copies>>
  BY <1>11 DEF AuthsOK
<1>12. ASSUME NEW r \in Request,
              Arrive(r) \/ Pick(r) \/ NextProvider(r) \/ PassFails(r)
                \/ Retry(r) \/ GiveUp(r) \/ Wake(r) \/ Cancel(r)
       PROVE  UNCHANGED <<auths, copies>>
  BY <1>12 DEF Arrive, Start, Pick, NextProvider, PassFails, Retry, GiveUp, Wake, Cancel
<1>. QED
  BY <1>1, <1>2, <1>3, <1>4, <1>5, <1>6, <1>7, <1>8, <1>9, <1>10, <1>11, <1>12
  DEF Next, Serve, ProviderFails, vars

LEMMA AuthsOKAlways == Spec => []AuthsOK
<1>1. Spec => []IInv
  BY IInvAlways
<1>. QED
  BY <1>1, AuthsOKInit, AuthsOKStep, PTL DEF Spec

\* A credential shows an error exactly while one of its models has an uncleared
\* failure, for any number of models and of results in any order (MarkResult).
THEOREM ErrorsTracked == Spec => []StatusTracksErrors
<1>1. AuthsOK => StatusTracksErrors
  BY DEF AuthsOK, CredentialOK, StatusTracksErrors
<1>. QED
  BY <1>1, AuthsOKAlways, PTL

\* The credential-level cooldown is in force exactly while every recorded model
\* is down and ends with the first of them, at every moment between two results
\* (updateAggregatedAvailability).
THEOREM AggregateIsExact == Spec => []AggregateExact
<1>1. AuthsOK => AggregateExact
  BY DEF AuthsOK, CredentialOK, AggregateExact
<1>. QED
  BY <1>1, AuthsOKAlways, PTL

-----------------------------------------------------------------------------
(* One call per attempt. *)

\* What a request q that has made the calls n in its attempt keeps: its
\* providers differ, it called no credential twice, and the ones it called are
\* those of earlier providers and the tried ones of the present provider.
OnePass(q, n) ==
  /\ q.pc # "idle" => q.pi \in 1 .. Len(q.providers) /\ Distinct(q.providers)
  /\ \A a \in Auth : n[a] <= 1
  /\ \A a \in Auth : n[a] > 0 =>
       /\ q.pc # "idle"
       /\ \E j \in 1 .. q.pi : ProviderOf[a] = q.providers[j] /\ (j = q.pi => a \in q.tried)

PassInv == \A r \in Request : OnePass(req[r], calls[r])

LEMMA NoCallsPass ==
  ASSUME NEW q, q.pc # "idle" => q.pi \in 1 .. Len(q.providers) /\ Distinct(q.providers)
  PROVE  OnePass(q, NoCalls)
BY DEF OnePass, NoCalls

LEMMA PassInit == Init => PassInv
<1>1. Idle.pc = "idle"
  BY DEF Idle
<1>2. OnePass(Idle, NoCalls)
  BY <1>1, NoCallsPass
<1>. QED
  BY <1>2 DEF Init, PassInv

\* A step of request r to state q with the calls n.
LEMMA PassStepOf ==
  ASSUME IInv, PassInv, NEW r \in Request, NEW q, NEW n, OnePass(q, n),
         req' = [req EXCEPT ![r] = q], calls' = [calls EXCEPT ![r] = n]
  PROVE  PassInv'
BY DEF IInv, TypeOK, PassInv

\* A step of request r that keeps its calls and its place among the providers.
LEMMA PassKept ==
  ASSUME IInv, PassInv, NEW r \in Request, NEW q,
         q.pc # "idle", req[r].pc # "idle", q.pi = req[r].pi,
         q.providers = req[r].providers, q.tried = req[r].tried,
         req' = [req EXCEPT ![r] = q], UNCHANGED calls
  PROVE  PassInv'
<1>1. OnePass(q, calls[r])
  BY DEF PassInv, OnePass
<1>2. calls' = [calls EXCEPT ![r] = calls[r]]
  BY DEF IInv, TypeOK
<1>. QED
  BY <1>1, <1>2, PassStepOf

LEMMA PassFinished ==
  ASSUME IInv, PassInv, NEW r \in Request, Finished(r) PROVE PassInv'
<1>1. Idle.pc = "idle"
  BY DEF Idle
<1>2. OnePass(Idle, NoCalls)
  BY <1>1, NoCallsPass
<1>. QED
  BY <1>2, PassStepOf DEF Finished

LEMMA PassStep == IInv /\ PassInv /\ [Next]_vars => PassInv'
<1>. SUFFICES ASSUME IInv, PassInv, [Next]_vars PROVE PassInv'
  OBVIOUS
<1>0. /\ \A r \in Request : req[r] \in RequestState
      /\ \A r \in Request, a \in Auth : calls[r][a] \in Nat
      /\ \A r \in Request : calls[r] \in [Auth -> Nat]
      /\ req \in [Request -> RequestState]
  BY DEF IInv, TypeOK
<1>1. ASSUME NEW r \in Request, Arrive(r) PROVE PassInv'
  <2>1. PICK m \in Model, l \in ProviderLists, s \in AllowedSets : Start(r, m, l, s)
    BY <1>1 DEF Arrive
  <2>. DEFINE k == offsets[m] % Len(l)
              q == [Idle EXCEPT !.pc = "pick", !.model = m, !.allowed = s,
                                !.providers = Rotated(l, k)]
  <2>2. offsets[m] \in Nat
    BY DEF IInv, TypeOK
  <2>3. Distinct(Rotated(l, k)) /\ Len(Rotated(l, k)) \in Nat \ {0}
    BY <2>2, RotatedType, RotatedDistinct
  <2>4. q.pi = 1 /\ q.providers = Rotated(l, k)
    BY DEF Idle
  <2>5. req' = [req EXCEPT ![r] = q] /\ calls' = calls /\ req[r].pc = "idle"
    BY <2>1 DEF Start
  <2>6. calls[r] = NoCalls
    <3>1. \A a \in Auth : calls[r][a] = 0
      BY <1>0, <2>5 DEF PassInv, OnePass
    <3>. QED
      BY <1>0, <3>1 DEF NoCalls
  <2>. HIDE DEF q, k
  <2>7. OnePass(q, NoCalls)
    BY <2>3, <2>4, NoCallsPass
  <2>8. calls' = [calls EXCEPT ![r] = NoCalls]
    BY <2>5, <2>6 DEF IInv, TypeOK
  <2>. QED
    BY <2>5, <2>7, <2>8, PassStepOf
<1>2. ASSUME NEW r \in Request, Pick(r) PROVE PassInv'
  <2>1. PICK a \in Available(r) :
          /\ req' = [req EXCEPT ![r].pc = "exec", ![r].cur = a, ![r].tried = @ \cup {a}]
          /\ calls' = [calls EXCEPT ![r][a] = @ + 1]
    BY <1>2 DEF Pick
  <2>. DEFINE q == [req[r] EXCEPT !.pc = "exec", !.cur = a, !.tried = @ \cup {a}]
              n == [calls[r] EXCEPT ![a] = @ + 1]
  <2>2. /\ a \in Auth /\ a \notin req[r].tried
        /\ ProviderOf[a] = req[r].providers[req[r].pi]
    BY DEF Available, Candidates, ProviderNow
  <2>3. /\ req[r].pi \in 1 .. Len(req[r].providers)
        /\ Distinct(req[r].providers)
        /\ req[r].pi \in Nat /\ Len(req[r].providers) \in Nat
        /\ OnePass(req[r], calls[r])
    BY <1>0, <1>2 DEF Pick, PassInv, OnePass, RequestState
  <2>4. calls[r][a] = 0
    <3>1. ASSUME calls[r][a] > 0 PROVE FALSE
      <4>1. PICK j \in 1 .. req[r].pi :
              /\ ProviderOf[a] = req[r].providers[j]
              /\ j = req[r].pi => a \in req[r].tried
        BY <2>2, <2>3, <3>1 DEF OnePass
      <4>2. j \in 1 .. Len(req[r].providers)
        BY <2>3
      <4>. QED
        BY <2>2, <2>3, <4>1, <4>2 DEF Distinct
    <3>. QED
      BY <1>0, <2>2, <3>1
  <2>5. /\ q.pc = "exec" /\ q.pi = req[r].pi /\ q.providers = req[r].providers
        /\ q.tried = req[r].tried \cup {a}
    BY <1>0 DEF RequestState
  <2>6. n[a] = 1 /\ \A b \in Auth : b # a => n[b] = calls[r][b]
    BY <1>0, <2>2, <2>4
  <2>7. req' = [req EXCEPT ![r] = q] /\ calls' = [calls EXCEPT ![r] = n]
    BY <2>1
  <2>. HIDE DEF q, n
  <2>8. OnePass(q, n)
    <3>1. \A b \in Auth : n[b] <= 1
      BY <2>3, <2>6 DEF OnePass
    <3>2. ASSUME NEW b \in Auth, n[b] > 0
          PROVE  \E j \in 1 .. q.pi : ProviderOf[b] = q.providers[j] /\ (j = q.pi => b \in q.tried)
      <4>1. CASE b = a
        BY <2>2, <2>3, <2>5, <4>1
      <4>2. CASE b # a
        BY <2>3, <2>5, <2>6, <3>2, <4>2 DEF OnePass
      <4>. QED
        BY <4>1, <4>2
    <3>. QED
      BY <2>3, <2>5, <3>1, <3>2 DEF OnePass
  <2>. QED
    BY <2>7, <2>8, PassStepOf
<1>3. ASSUME NEW r \in Request, Finished(r) PROVE PassInv'
  BY <1>3, PassFinished
<1>4. ASSUME NEW r \in Request, NEW code \in FailureStatus,
             NEW hint \in RetryHint \cup {NoTime}, Fail(r, code, hint)
      PROVE  PassInv'
  <2>. DEFINE q == [req[r] EXCEPT !.pc = "pick", !.cur = NoAuth, !.err = code]
  <2>1. q.pc = "pick" /\ q.pi = req[r].pi /\ q.providers = req[r].providers /\ q.tried = req[r].tried
    BY <1>0 DEF RequestState
  <2>2. req' = [req EXCEPT ![r].pc = "pick", ![r].cur = NoAuth, ![r].err = code]
    BY <1>4, Zenon DEF Fail
  <2>3. req' = [req EXCEPT ![r] = q] /\ req[r].pc = "exec" /\ UNCHANGED calls
    <3>1. req' = [req EXCEPT ![r] = q]
      BY <2>2
    <3>2. req[r].pc = "exec" /\ UNCHANGED calls
      BY <1>4, Zenon DEF Fail
    <3>. QED
      BY <3>1, <3>2
  <2>. HIDE DEF q
  <2>. QED
    BY <2>1, <2>3, PassKept
<1>5. ASSUME NEW r \in Request, NextProvider(r) PROVE PassInv'
  <2>. DEFINE q == [req[r] EXCEPT !.pi = @ + 1, !.tried = {}, !.err = NoError]
  <2>1. /\ req[r].pi \in Nat /\ req[r].pi >= 1 /\ Len(req[r].providers) \in Nat
        /\ req[r].pi < Len(req[r].providers) /\ OnePass(req[r], calls[r])
        /\ req[r].pc = "pick" /\ Distinct(req[r].providers)
    BY <1>0, <1>5 DEF NextProvider, PassInv, OnePass, RequestState
  <2>2. /\ q.pc = "pick" /\ q.pi = req[r].pi + 1 /\ q.providers = req[r].providers
    BY <1>0, <2>1 DEF RequestState
  <2>3. req' = [req EXCEPT ![r] = q] /\ calls' = [calls EXCEPT ![r] = calls[r]]
    BY <1>5 DEF NextProvider, IInv, TypeOK
  <2>. HIDE DEF q
  <2>4. OnePass(q, calls[r])
    <3>1. ASSUME NEW a \in Auth, calls[r][a] > 0
          PROVE  \E j \in 1 .. q.pi : ProviderOf[a] = q.providers[j] /\ (j = q.pi => a \in q.tried)
      <4>1. PICK j \in 1 .. req[r].pi : ProviderOf[a] = req[r].providers[j]
        BY <2>1, <3>1 DEF OnePass
      <4>2. j \in 1 .. q.pi /\ j # q.pi
        BY <2>1, <2>2
      <4>. QED
        BY <2>2, <4>1, <4>2
    <3>. QED
      BY <2>1, <2>2, <3>1 DEF OnePass
  <2>. QED
    BY <2>3, <2>4, PassStepOf
<1>6. ASSUME NEW r \in Request, PassFails(r) PROVE PassInv'
  <2>. DEFINE q == [req[r] EXCEPT !.pc = "decide",
                                  !.err = IF @ = NoError THEN SelectionError ELSE @]
  <2>1. q.pc = "decide" /\ q.pi = req[r].pi /\ q.providers = req[r].providers /\ q.tried = req[r].tried
    BY <1>0 DEF RequestState
  <2>2. req' = [req EXCEPT ![r] = q] /\ req[r].pc = "pick" /\ UNCHANGED calls
    BY <1>6 DEF PassFails
  <2>. HIDE DEF q
  <2>. QED
    BY <2>1, <2>2, PassKept
<1>7. ASSUME NEW r \in Request, Retry(r) PROVE PassInv'
  <2>. DEFINE q == [req[r] EXCEPT !.pc = "wait", !.wait = Min(CooldownWaits(r))]
  <2>1. q.pc = "wait" /\ q.pi = req[r].pi /\ q.providers = req[r].providers /\ q.tried = req[r].tried
    BY <1>0 DEF RequestState
  <2>2. req' = [req EXCEPT ![r] = q] /\ req[r].pc = "decide" /\ UNCHANGED calls
    BY <1>7 DEF Retry
  <2>. HIDE DEF q
  <2>. QED
    BY <2>1, <2>2, PassKept
<1>8. ASSUME NEW r \in Request, Wake(r) PROVE PassInv'
  <2>. DEFINE q == [req[r] EXCEPT !.pc = "pick", !.attempt = @ + 1, !.pi = 1,
                                  !.tried = {}, !.err = NoError]
  <2>1. 1 \in 1 .. Len(req[r].providers) /\ Distinct(req[r].providers)
    BY <1>0, <1>8 DEF Wake, PassInv, OnePass, RequestState
  <2>2. q.pi = 1 /\ q.providers = req[r].providers
    BY <1>0 DEF RequestState
  <2>3. req' = [req EXCEPT ![r] = q] /\ calls' = [calls EXCEPT ![r] = NoCalls]
    BY <1>8 DEF Wake
  <2>. HIDE DEF q
  <2>. QED
    BY <2>1, <2>2, <2>3, NoCallsPass, PassStepOf
<1>9. ASSUME Tick PROVE PassInv'
  <2>1. ASSUME NEW r \in Request PROVE OnePass(req'[r], calls'[r])
    <3>1. /\ req'[r].pc = req[r].pc /\ req'[r].pi = req[r].pi
          /\ req'[r].providers = req[r].providers /\ req'[r].tried = req[r].tried
          /\ calls'[r] = calls[r]
      BY <1>0, <1>9 DEF Tick, RequestState
    <3>. QED
      BY <3>1 DEF PassInv, OnePass
  <2>. QED
    BY <2>1 DEF PassInv
<1>10. CASE UNCHANGED <<req, calls>>
  BY <1>10 DEF PassInv
<1>11. ASSUME NEW w \in Writer,
              \/ \E a \in Auth : ReadToDisable(w, a) \/ CheckRefresh(w, a)
              \/ CloneFields(w) \/ CloneModels(w) \/ RefreshFails(w) \/ WriteBack(w)
       PROVE  UNCHANGED <<req, calls>>
  BY <1>11 DEF ReadToDisable, CheckRefresh, CloneFields, CloneModels, RefreshFails,
               WriteBack, SetCopy, Update
<1>12. ASSUME NEW a \in Auth, NEW disabled \in BOOLEAN, ReplaceAuth(a, disabled)
       PROVE  UNCHANGED <<req, calls>>
  BY <1>12 DEF ReplaceAuth, Update
<1>13. ASSUME NEW r \in Request, Succeed(r) \/ GiveUp(r) \/ Cancel(r)
       PROVE  Finished(r)
  BY <1>13 DEF Succeed, GiveUp, Cancel
<1>. QED
  BY <1>1, <1>2, <1>3, <1>4, <1>5, <1>6, <1>7, <1>8, <1>9, <1>10, <1>11, <1>12, <1>13
  DEF Next, Serve, ProviderFails, vars

\* Within one attempt a request calls no credential twice, for any providers,
\* credentials and number of concurrent requests: the inductive invariant says
\* that the credentials called belong to providers the attempt has passed, or
\* are in the tried set of the present one (executeWithProvider, rotateProviders).
THEOREM CalledOnce == Spec => []OneCallPerAttempt
<1>1. Spec => []IInv
  BY IInvAlways
<1>2. PassInv => OneCallPerAttempt
  BY DEF PassInv, OnePass, OneCallPerAttempt
<1>. QED
  BY <1>1, <1>2, PassInit, PassStep, PTL DEF Spec

=============================================================================
