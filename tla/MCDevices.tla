------------------------------ MODULE MCDevices ------------------------------
(***************************************************************************)
(* What runs on a device on small instances, one part at a time: which one *)
(* is chosen in the initial state, and the others keep a single state.     *)
(***************************************************************************)
EXTENDS OfflineLease, Identity, DeviceTrust, TLC

CONSTANTS r1, r2

\* Two records, one of them restricted, which is leased for a shorter time.
MCTtl == [level \in Levels |-> IF level = "restricted" THEN 1 ELSE 2]
MCLevelsOf == (r1 :> {"restricted"}) @@ (r2 :> {"confidential"})

\* A paper of each kind: at the ceiling, low, above it, and of another owner.
MCPapers ==
    {[level |-> 2, acl |-> {"ana"}], [level |-> 0, acl |-> {"ana", "bo"}],
     [level |-> 3, acl |-> {"ana"}], [level |-> 1, acl |-> {"bo"}]}
MCWanted ==
    {[path |-> "w1", score |-> 1, size |-> 2, project |-> "other"],
     [path |-> "w2", score |-> 2, size |-> 3, project |-> "home"],
     [path |-> "w3", score |-> 9, size |-> 2, project |-> "other"],
     [path |-> "w4", score |-> 5, size |-> 1, project |-> "none"]}
\* The clock of a device may be one instant behind.
MCLags == {0, 1}
\* Three labels, one of them in two spellings.
MCSpellings ==
    ("Secret" :> "secret") @@ ("SECRET" :> "secret")
        @@ ("Public" :> "public") @@ ("Other" :> "other")

VARIABLE part

devicesVars == <<runVars, loginVars, keySetVars, trustVars, part>>

DevicesInit ==
    /\ part \in {"lease", "login", "keys", "seal", "snapshot", "signals", "plans"}
    /\ RunInit /\ (part # "lease" => clock = 0)
    /\ LoginInit
    /\ KeySetInit /\ (part # "keys" => published = Kids)
    /\ TrustInit /\ (part # "snapshot" => allowed = {} /\ deviceKey = 0 /\ lag = 0)

DevicesNext ==
    /\ UNCHANGED part
    /\ IF part = "lease" THEN RunNext ELSE UNCHANGED runVars
    /\ IF part = "login" THEN LoginNext ELSE UNCHANGED loginVars
    /\ IF part = "keys" THEN KeySetNext ELSE UNCHANGED keySetVars
    /\ IF part = "seal" THEN SealNext ELSE UNCHANGED sealVars
    /\ IF part = "snapshot" THEN SnapshotNext ELSE UNCHANGED snapshotVars
    /\ IF part = "signals" THEN SignalNext ELSE UNCHANGED signalVars

\* Of these only the purge engine is driven by a timer.
DevicesSpec == DevicesInit /\ [][DevicesNext]_devicesVars /\ Fairness

\* The part that runs is in a state of its own kind.
PartsTypeOK ==
    CASE part = "lease" -> TypeOK
      [] part = "login" -> LoginTypeOK
      [] part = "keys" -> KeySetTypeOK
      [] OTHER -> TrustTypeOK

\* A device stays within what others granted it: it polls no faster than the provider
\* says, trusts no withdrawn key for longer than the cache allows, hands out no leases but
\* those it sealed, and decides by a policy that the server had a short time before what its own clock
\* shows.
GrantsKept == PolledInTime /\ KeysFollowProvider /\ DeviceTrustSound

\* What is planned, labelled and ranked for a device, whichever way its inputs are spelled
\* and scaled, keeps what is pinned and shows no more than may be seen; it is computed
\* once, in a part of its own.  (prefetch_scheduler, label mapping, OfflineQueryEngine.)
PlansSound == part = "plans" => DevicePlansSound
=============================================================================
