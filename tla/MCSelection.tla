----------------------------- MODULE MCSelection -----------------------------
(***************************************************************************)
(* Two things a request's credential is picked by, explored side by side:    *)
(* the registry of models, as in MCModelRegistry, and the manager's          *)
(* rotation over the providers of a request.  A behaviour is one of either   *)
(* component while the other rests.  The registry is explored twice: with    *)
(* all lists of models and requests that report one after another (the part  *)
(* "lists"), and with one model and all requests reporting at once (the      *)
(* part "results").                                                          *)
(***************************************************************************)
EXTENDS MCModelRegistry

CONSTANTS Parts, Auth, Request, AllowedSets, FailureStatus, RetryHint, RequestRetry,
          MaxRetryInterval, FillFirst, CursorWrap, QuotaBackoffBase, QuotaBackoffMax,
          MaxBackoffLevel, AuthCooldown, NotFoundCooldown, TransientCooldown,
          QuotaCooldownDisabled, Writer, Refreshable, q1, q2, pa, pb

VARIABLES part, auths, offsets, cursors, copies, req, calls

manager == <<auths, offsets, cursors, copies, req, calls>>

\* Credential 1 is of pa, credential 2 of pb; a request may ask for both or for pa.
OneModel == {m1}
TwoProviders == {pa, pb}
ProviderOfEach == [a \in Auth |-> IF a = 1 THEN pa ELSE pb]
AllSupported == Auth \X OneModel
BothOrFirst == {<<pa, pb>>, <<pa>>}

Manager ==
  INSTANCE CredentialManager WITH
    Model <- OneModel, Provider <- TwoProviders, ProviderOf <- ProviderOfEach,
    Supports <- AllSupported, ProviderLists <- BothOrFirst

ASSUME SelectionParameters == Manager!CooldownParameters /\ Manager!ManagerParameters

SelectionInit == part \in Parts /\ Init /\ Manager!Init

OneReports == Cardinality({r \in Reporter : reports[r] # NoReport}) <= 1
OneModelListed == \A c \in Client : clientModels[c] \in OnceM1 \cup {NoModels}

SelectionNext ==
  \/ part = "lists" /\ Next /\ OneReports' /\ UNCHANGED <<part, manager>>
  \/ part = "results" /\ Next /\ OneModelListed' /\ UNCHANGED <<part, manager>>
  \/ part = "manager" /\ Manager!Next /\ UNCHANGED <<part, vars>>

SelectionSpec == SelectionInit /\ [][SelectionNext]_<<part, manager, vars>>

\* CredentialManager: no credential is called twice in one attempt of a request.
OneCallPerAttempt == part = "manager" => Manager!OneCallPerAttempt

SelectionSymmetry == Symmetry \cup Permutations(Request)

=============================================================================
