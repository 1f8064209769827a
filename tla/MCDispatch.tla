----------------------------- MODULE MCDispatch -----------------------------
(***************************************************************************)
(* Instances of Dispatch for TLC.                                          *)
(***************************************************************************)
EXTENDS Dispatch, TLC

\* Attempts, workers and reconcilers are interchangeable.
Symmetric == Permutations(Attempts) \cup Permutations(Workers)
             \cup Permutations(Reconcilers)

\* Several applications share nothing but the daily quota.  The steps that
\* start, gate and close attempts are kept, and the packets they need; replies,
\* owner decisions and reconciliation never read or change the quota.
SymmetricApps == Symmetric \cup Permutations(Apps)

QuotaNext ==
  \/ \E w \in Workers : Dispatcher(w)
  \/ \E p \in Apps : \/ RecoverInflight(p)
                     \/ Preparation(p)
                     \/ \E reason \in TaskReasons : ResolveTask(p, reason)
                     \/ AuthorizeRetry(p)
  \/ Midnight

QuotaSpec == Init /\ [][QuotaNext]_vars
=============================================================================
