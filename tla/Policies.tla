------------------------------ MODULE Policies ------------------------------
(***************************************************************************)
(* One time-off policy: src/api/policy_management.py keeps it and a table  *)
(* of its versions; src/services/policy_engine_service.py looks up the     *)
(* tenure tier of an employee in it.  The processes share the database; a  *)
(* handler reads the row, and its commit may come after another's.         *)
(* A request with dates is not here: json.dumps() of it raises and the     *)
(* session is rolled back.  told, doubled and unchecked are history.         *)
(* The Faulty... operators are mistakes the properties must notice.        *)
(***************************************************************************)
EXTENDS Naturals, Sequences, Processes

CONSTANTS TierLists,   \* lists of tiers a request may bring
          MaxVersions  \* bound on the version rows

ASSUME PolicyAssumption ==
    /\ TierLists \subseteq Seq([min : Nat, max : Nat])
    /\ MaxVersions \in Nat

VARIABLES
    policy,    \* the committed row, or NoPolicy
    versions,  \* the PolicyVersion rows in the order they were stored
    revising,  \* revising[p]: what p is about to commit, or Resting
    behind,    \* history: pods with a commit of another since they read
    told,      \* answer to the request that created the policy
    doubled,     \* history: a pod that was behind has committed
    unchecked  \* history: the tiers in force came with an update

policyVars == <<policy, versions, revising, behind, told, doubled, unchecked>>

NoTiers == <<>>
NoPolicy == [status |-> "none"]
Resting == [do |-> "nothing"]
PolicyRow == [status : {"draft", "active", "archived"}, version : Nat,
              tiers : TierLists \cup {NoTiers}]

PolicyTypeOK == /\ policy \in PolicyRow \cup {NoPolicy}
                /\ versions \in Seq([number : Nat, tiers : TierLists \cup {NoTiers}])
                /\ revising \in [Pods -> [do : {"update"}, tiers : TierLists \cup {NoTiers},
                                          number : Nat, sent : TierLists \cup {NoTiers}]
                                         \cup {Resting, [do |-> "archive"]}]
                /\ behind \subseteq Pods
                /\ told \in {0, 500}
                /\ doubled \in BOOLEAN /\ unchecked \in BOOLEAN

PolicyInit == /\ policy = NoPolicy
              /\ versions = <<>>
              /\ revising = [p \in Pods |-> Resting]
              /\ behind = {}
              /\ told = 0
              /\ doubled = FALSE /\ unchecked = FALSE

-----------------------------------------------------------------------------
(* Tenure tiers.  No upper end (None) is 0. *)

\* sorted(tiers, key=min_years) is stable
Before(t, i, j) == t[i].min < t[j].min \/ (t[i].min = t[j].min /\ i < j)
NextTo(t, i, j) == Before(t, i, j) /\ ~\E k \in DOMAIN t : Before(t, i, k) /\ Before(t, k, j)

FaultyClash(t, i, j) == t[i].max # 0 /\ t[i].max > t[j].max

Clash(t, i, j) == t[i].max # 0 /\ t[i].max > t[j].min

\* validate_policy_config()
Valid(t) == \A i, j \in DOMAIN t : NextTo(t, i, j) => ~Clash(t, i, j)

\* calculate_tenure_tier(): the tiers it may pick; it takes the first of them
Matching(t, years) == {i \in DOMAIN t : t[i].min <= years /\ (t[i].max = 0 \/ years < t[i].max)}
OpenEnded(t) == \E i, j \in DOMAIN t : Before(t, i, j) /\ t[i].max = 0

-----------------------------------------------------------------------------
\* create_policy(): the code is unique, so that of two one fails
CreatePolicy(t, activate) ==
    /\ policy = NoPolicy
    /\ Valid(t)
    /\ policy' = [status |-> IF activate THEN "active" ELSE "draft", version |-> 1, tiers |-> t]
    /\ versions' = <<[number |-> 1, tiers |-> t]>>
    /\ UNCHANGED <<revising, behind, told, doubled, unchecked>>

\* evaluate_eligibility(), after the commit, reads Employee.status, which there
\* is not.
Evaluate ==
    /\ policy # NoPolicy
    /\ told = 0
    /\ told' = 500
    /\ UNCHANGED <<policy, versions, revising, behind, doubled, unchecked>>

FaultyBump(v) == v

Bump(v) == v + 1

\* update_policy() reads the row, whatever its status.  It takes the tiers over
\* as they are if there are some, which sends them if they differ from those it
\* read.  It stores the request as the snapshot.
ReadForUpdate(p, t) ==
    /\ policy # NoPolicy
    /\ revising[p] = Resting
    /\ Len(versions) < MaxVersions
    /\ revising' = [revising EXCEPT ![p] =
                       [do |-> "update", tiers |-> t, number |-> Bump(policy.version),
                        sent |-> IF t = policy.tiers THEN NoTiers ELSE t]]
    /\ UNCHANGED <<policy, versions, behind, told, doubled, unchecked>>

\* deactivate_policy() reads it
ReadForArchive(p) ==
    /\ policy # NoPolicy
    /\ revising[p] = Resting
    /\ policy.status # "archived"
    /\ revising' = [revising EXCEPT ![p] = [do |-> "archive"]]
    /\ UNCHANGED <<policy, versions, behind, told, doubled, unchecked>>

CommitPolicy(p) ==
    /\ revising[p] # Resting
    /\ IF revising[p].do = "archive"
       THEN /\ policy' = [policy EXCEPT !.status = "archived"]
            /\ behind' = behind \ {p}
            /\ UNCHANGED <<versions, doubled, unchecked>>
       ELSE LET r == revising[p]
            IN  /\ policy' = [policy EXCEPT !.version = r.number,
                                            !.tiers = IF r.sent = NoTiers THEN @ ELSE r.sent]
                /\ versions' = Append(versions, [number |-> r.number, tiers |-> r.tiers])
                /\ behind' = (behind \cup {q \in Pods : revising[q] # Resting}) \ {p}
                /\ doubled' = (doubled \/ p \in behind)
                /\ unchecked' = (unchecked \/ r.sent # NoTiers)
    /\ revising' = [revising EXCEPT ![p] = Resting]
    /\ UNCHANGED told

Rollback(p) ==
    /\ revising[p] # Resting
    /\ revising' = [revising EXCEPT ![p] = Resting]
    /\ behind' = behind \ {p}
    /\ UNCHANGED <<policy, versions, told, doubled, unchecked>>

PolicyNext == \/ \E t \in TierLists \cup {NoTiers} :
                     \/ \E activate \in BOOLEAN : CreatePolicy(t, activate)
                     \/ \E p \in Pods : ReadForUpdate(p, t)
              \/ Evaluate
              \/ \E p \in Pods : ReadForArchive(p) \/ CommitPolicy(p) \/ Rollback(p)

PolicySpec == PolicyInit /\ [][PolicyNext]_policyVars

-----------------------------------------------------------------------------
(* Properties. *)

\* The version table is the history of the policy, with every number once and
\* in order, up to the version of the policy; two updates that read the same
\* version are the only exception.
VersionsAreHistory ==
    policy # NoPolicy /\ ~doubled => /\ Len(versions) = policy.version
                                   /\ \A i \in DOMAIN versions : versions[i].number = i

\* "Validate tenure tiers don't overlap" (policy_management.py) and the look-up
\* agree: one tier at most holds for a number of years, unless an update brought
\* the tiers or a tier before the last has no upper end: those are not checked.
OneTierHolds ==
    policy # NoPolicy /\ ~unchecked /\ ~OpenEnded(policy.tiers) =>
        \A i \in DOMAIN policy.tiers :
            \A j, k \in Matching(policy.tiers, policy.tiers[i].min) : j = k
=============================================================================
